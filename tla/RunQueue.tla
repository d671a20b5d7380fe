------------------------------ MODULE RunQueue ------------------------------
(***************************************************************************)
(* What the task subsystem promises, whatever list it keeps: a queue that  *)
(* holds every task once, one of which runs.  Tasks.tla shows that the     *)
(* linked list of task.c and schedule.c implements it.                     *)
(***************************************************************************)
EXTENDS Naturals, SequencesExt

CONSTANT MaxPid         \* bound: pids ever issued

VARIABLES
    queue,      \* the pids of the tasks, in queue order
    running,    \* the pid of the running one
    issued      \* how many pids have been issued

vars == <<queue, running, issued>>

Init == queue = <<1>> /\ running = 1 /\ issued = 1

\* The task after p, the first one after the last.
Successor(q, p) ==
    LET i == CHOOSE k \in DOMAIN q : q[k] = p
    IN  IF i = Len(q) THEN q[1] ELSE q[i + 1]

\* A new task gets the next pid and a place in the queue.  It runs at once only
\* if it is put right before the running one.
Start ==
    /\ issued < MaxPid
    /\ issued' = issued + 1
    /\ \E i \in 1 .. Len(queue) + 1 :
         /\ queue' = InsertAt(queue, i, issued')
         /\ \/ running' = running
            \/ i <= Len(queue) /\ queue[i] = running /\ running' = issued'

\* p is taken out of its place.
Leaves(p) == \E i \in DOMAIN queue : queue[i] = p /\ queue' = RemoveAt(queue, i)

\* The running task leaves the queue, its successor runs.
Exit ==
    /\ Len(queue) > 1
    /\ running' = Successor(queue, running)
    /\ Leaves(running)
    /\ issued' = issued

\* Another task is taken out of the queue.
Kill(p) ==
    /\ p # running
    /\ Leaves(p)
    /\ UNCHANGED <<running, issued>>

\* The running task gives way to its successor; when it is the last one the
\* queue may be put in another order first.
Rearranged(q) ==
    IF q[Len(q)] = running
      THEN {r \in [1 .. Len(q) -> ToSet(q)] : ToSet(r) = ToSet(q)} ELSE {q}

Yield ==
    \E q \in Rearranged(queue) :
        /\ queue' = q
        /\ running' = Successor(q, running)
        /\ issued' = issued

Next ==
    \/ Start \/ Exit \/ Yield
    \/ \E p \in ToSet(queue) : Kill(p)

Spec == Init /\ [][Next]_vars
=============================================================================
