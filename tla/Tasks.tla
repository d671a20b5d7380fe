------------------------------- MODULE Tasks -------------------------------
(***************************************************************************)
(* Multitasking in the OGOS kernel (task.c, schedule.c): task structures   *)
(* from the kernel heap, linked through their next fields from ready_queue,*)
(* and the switch from one to another.                                     *)
(*                                                                         *)
(* Nothing preempts a task: no interrupt handler touches the list or       *)
(* switches.  A step is therefore one call by the running task, up to the  *)
(* moment a task (the same or another) runs on.                            *)
(*                                                                         *)
(* Of a saved context the model keeps where the task resumes, not on which *)
(* stack.  Time slices are left out: schedule() refills time_to_run and    *)
(* nothing ever spends it.  So is ready_to_run, which only a task that     *)
(* exits clears.                                                           *)
(***************************************************************************)
EXTENDS Integers, FiniteSets, SequencesExt

CONSTANTS
    Slots,          \* addresses kmalloc gives to task structures
    Dirs,           \* addresses clone_directory gives to page directories
    NULL,           \* the null pointer
    Priorities,     \* values of averaged_priority a caller asks for
    MaxPid,         \* bound: pids ever issued
    Ops,            \* the calls the tasks make
    Permitted       \* calls the code accepts that its callers should not make

AllOps == {"start", "fork", "exit", "kill", "schedule", "algorithm"}

\* "fork_above": fork_task with a priority above the caller's own;
\* "kill_self": kill_task with the caller's pid; "algorithm_2": a number
\* set_scheduling_algorithm does not know.
AllPermitted == {"fork_above", "kill_self", "algorithm_2"}

ASSUME SlotsAssumption == IsFiniteSet(Slots) /\ Slots # {} /\ Dirs # {}
ASSUME PointersAssumption == NULL \notin Slots \cup Dirs
ASSUME PrioritiesAssumption == Priorities \subseteq Nat
ASSUME MaxPidAssumption == MaxPid \in Nat \ {0}
ASSUME CallsAssumption == Ops \subseteq AllOps /\ Permitted \subseteq AllPermitted

VARIABLES
    live,               \* slots that are allocated
    task,               \* the task structures
    next,               \* their next fields
    current_task, ready_queue,
    next_pid, nTasks,
    algorithm,          \* 0: round robin, 1: shortest job first
    current_directory,
    dirs,               \* page directories that are allocated
    wild                \* the processor jumped to an eip nobody set up

list == <<next, ready_queue, nTasks>>
spaces == <<current_directory, dirs>>
vars == <<live, task, list, current_task, next_pid, algorithm, spaces, wild>>

\* Where a task resumes: "none", the eip 0 of a new structure; "func", its
\* entry point; "fork", after read_eip in fork_task; "switch", in switch_task or
\* set_current_task.
Eip == {"none", "func", "fork", "switch"}

Task == [id : Nat, avg : Nat, eip : Eip, pd : Dirs \cup {NULL}]
Blank == [id |-> 0, avg |-> 0, eip |-> "none", pd |-> NULL]

-----------------------------------------------------------------------------
(* Walking the list.                                                       *)

\* The slots from s on, following nx; a list never has more than Slots has.
Chain(s, nx) ==
    LET w[n \in 0 .. Cardinality(Slots)] ==
            IF n = 0 THEN s ELSE IF w[n-1] = NULL THEN NULL ELSE nx[w[n-1]]
        len == Cardinality({n \in DOMAIN w : w[n] # NULL})
    IN  [i \in 1 .. len |-> w[i - 1]]

Queue == Chain(ready_queue, next)
InList == current_task \in ToSet(Queue)

\* parent_of_task: the slot of the list that points to src, or NULL.
parent_of_task(src, head, nx) ==
    LET parents == {p \in ToSet(Chain(head, nx)) : nx[p] = src}
    IN  IF parents = {} THEN NULL ELSE CHOOSE p \in parents : TRUE

-----------------------------------------------------------------------------
(* schedule.c: putting a task in the list.  Each definition gives the list *)
(* [head, nx] it leaves.                                                   *)

\* Round robin: behind the last one.
Append0(t) ==
    LET last == Last(Queue)
    IN  [head |-> ready_queue, nx |-> [next EXCEPT ![last] = t, ![t] = NULL]]

\* Shortest job first, above the running task: right before it.
Before(t) ==
    LET parent == parent_of_task(current_task, ready_queue, next)
    IN  IF current_task = ready_queue
          THEN [head |-> t, nx |-> [next EXCEPT ![t] = current_task]]
          ELSE [head |-> ready_queue,
                nx |-> [next EXCEPT ![parent] = t, ![t] = current_task]]

\* Otherwise: after the first task from the running one on whose successor is
\* no higher than t.  (The test reads the priority of a null successor, from
\* page 0; whatever it finds, t goes at the end.)
After(t, avg) ==
    LET chain == Chain(current_task, next)
        stops == {i \in DOMAIN chain :
                    next[chain[i]] = NULL \/ task[next[chain[i]]].avg <= avg}
        at == chain[CHOOSE i \in stops : \A k \in stops : i <= k]
    IN  [head |-> ready_queue, nx |-> [next EXCEPT ![t] = next[at], ![at] = t]]

\* Whether preempt_task switches to the new task at once.
Outranks_Lower(avg) == algorithm = 1 /\ avg < task[current_task].avg    \* mutant
Outranks(avg) == algorithm = 1 /\ avg > task[current_task].avg

preempt_task(t, avg) ==
    IF algorithm = 0 THEN Append0(t)
    ELSE IF Outranks(avg) THEN Before(t)
    ELSE IF algorithm = 1 THEN After(t, avg)
    ELSE [head |-> ready_queue, nx |-> [next EXCEPT ![t] = NULL]]

Relink(l) == ready_queue' = l.head /\ next' = l.nx

-----------------------------------------------------------------------------
(* schedule.c: sjf_arrange, a bubble sort on the list.                     *)

\* swap_task_locations(prev, cur) for two neighbours.
Swap(l, prev, cur) ==
    LET parent == parent_of_task(prev, l.head, l.nx)
        nx == [l.nx EXCEPT ![cur] = prev, ![prev] = l.nx[cur]]
    IN  IF parent = NULL THEN [head |-> cur, nx |-> nx]
        ELSE [head |-> l.head, nx |-> [nx EXCEPT ![parent] = cur]]

\* One iteration of the inner loop: prev and cur move on, cur by two after a
\* swap, to NULL at the end.
Compare(s) ==
    IF s.cur = NULL THEN s
    ELSE IF task[s.cur].avg > task[s.prev].avg
      THEN LET l == Swap(s.list, s.prev, s.cur)
           IN  [list |-> l, prev |-> s.prev, cur |-> l.nx[s.prev], changed |-> TRUE]
      ELSE [s EXCEPT !.prev = s.cur, !.cur = s.list.nx[s.cur]]

\* One iteration of the outer loop, unless the last pass changed nothing.
Pass(s) ==
    LET start == [list |-> s.list, prev |-> s.list.head,
                  cur |-> s.list.nx[s.list.head], changed |-> FALSE]
        after[i \in 0 .. nTasks - 1] == IF i = 0 THEN start ELSE Compare(after[i - 1])
    IN  IF s.changed THEN after[nTasks - 1] ELSE s

Unsorted == [list |-> [head |-> ready_queue, nx |-> next],
             prev |-> ready_queue, cur |-> NULL, changed |-> TRUE]

sjf_arrange_OnePass == Pass(Unsorted).list                             \* mutant
sjf_arrange ==
    LET after[a \in 0 .. nTasks] == IF a = 0 THEN Unsorted ELSE Pass(after[a - 1])
    IN  after[nTasks].list

-----------------------------------------------------------------------------
(* task.c: the switch.                                                     *)

\* Resume t.  A directory of 0 means to stay in the current one.
Resume(t, tasks) ==
    /\ current_task' = t
    /\ current_directory' = IF t # NULL /\ tasks[t].pd # NULL THEN tasks[t].pd
                            ELSE current_directory
    /\ wild' = (t = NULL \/ tasks[t].eip = "none")

\* The task after the running one, the first one after the last.
Following_Stuck(nx, head) == IF nx[current_task] # NULL                \* mutant
                             THEN nx[current_task] ELSE current_task
Following(nx, head) == IF nx[current_task] # NULL THEN nx[current_task] ELSE head

Saved_Nothing(tasks) == tasks                                          \* mutant
Saved(tasks) == [tasks EXCEPT ![current_task].eip = "switch"]

set_current_task(t, tasks) == task' = Saved(tasks) /\ Resume(t, tasks)

\* switch_task, with the list as it is linked then.
switch_task(l) == task' = Saved(task) /\ Resume(Following(l.nx, l.head), Saved(task))

-----------------------------------------------------------------------------
(* task.c: the calls.                                                      *)

\* initialise_tasking.
Init ==
    /\ \E s \in Slots, d \in Dirs :
         /\ live = {s} /\ dirs = {d}
         /\ task = [t \in Slots |->
                      IF t = s THEN [Blank EXCEPT !.id = 1, !.pd = d] ELSE Blank]
         /\ current_task = s /\ ready_queue = s /\ current_directory = d
    /\ next = [t \in Slots |-> NULL]
    /\ next_pid = 2 /\ nTasks = 1 /\ algorithm = 1
    /\ wild = FALSE

\* The running task makes a call.  One that has taken itself out of the list
\* with kill_task, or jumped into the void, is followed no further.
Running(op) == op \in Ops /\ InList /\ ~wild

\* A task structure with the next pid.
Allocate(t) ==
    /\ t \notin live /\ next_pid <= MaxPid
    /\ live' = live \cup {t}
    /\ next_pid' = next_pid + 1
    /\ nTasks' = nTasks + 1

\* start_task: an entry point, no directory of its own.
start_task(t, avg) ==
    LET tasks == [task EXCEPT ![t] =
                    [id |-> next_pid, avg |-> avg, eip |-> "func", pd |-> NULL]]
    IN  /\ Running("start")
        /\ Allocate(t)
        /\ Relink(preempt_task(t, avg))
        /\ IF Outranks(avg)
             THEN set_current_task(t, tasks)
             ELSE task' = tasks /\ UNCHANGED <<current_task, current_directory, wild>>
        /\ UNCHANGED <<algorithm, dirs>>

\* fork_task: the child gets a copy of the current directory and resumes behind
\* read_eip, which is set after preempt_task has returned to the parent.
fork_task(t, avg, d) ==
    LET child == [id |-> next_pid, avg |-> avg, eip |-> "none", pd |-> d]
        tasks == [task EXCEPT ![t] = child]
    IN  /\ Running("fork")
        /\ Outranks(avg) => "fork_above" \in Permitted
        /\ Allocate(t)
        /\ d \notin dirs /\ dirs' = dirs \cup {d}
        /\ Relink(preempt_task(t, avg))
        /\ IF Outranks(avg)
             THEN set_current_task(t, tasks)
             ELSE /\ task' = [tasks EXCEPT ![t].eip = "fork"]
                  /\ UNCHANGED <<current_task, current_directory, wild>>
        /\ UNCHANGED algorithm

\* exit_task: unlink the running task, free it with its directory, switch to
\* the next one, which the freed structure still names.  (Callers keep one task
\* alive; and the running task is always found, see ListSound.)
Unlink_KeepHead(t, head, nx) ==                                        \* mutant
    LET parent == parent_of_task(t, head, nx)
    IN  [head |-> head,
         nx |-> IF t = head THEN nx ELSE [nx EXCEPT ![parent] = nx[t]]]
Unlink(t, head, nx) ==
    LET parent == parent_of_task(t, head, nx)
    IN  IF t = head THEN [head |-> nx[t], nx |-> nx]
        ELSE [head |-> head, nx |-> [nx EXCEPT ![parent] = nx[t]]]

exit_task ==
    /\ Running("exit") /\ nTasks > 1
    /\ \E l \in {Unlink(current_task, ready_queue, next)} :
         /\ Relink([l EXCEPT !.nx[current_task] = NULL])
         /\ Resume(Following(next, l.head), task)
    /\ nTasks' = nTasks - 1
    /\ live' = live \ {current_task}
    /\ dirs' = dirs \ {task[current_task].pd}
    /\ task' = [task EXCEPT ![current_task] = Blank]
    /\ UNCHANGED <<next_pid, algorithm>>

\* kill_task: the task with that pid is looked for behind the first one only; it
\* is unlinked and freed, its stack and its directory are not.  A pid that is not
\* found changes nothing.
Victim(pid) == {t \in ToSet(Queue) : t # ready_queue /\ task[t].id = pid}

kill_task(pid) ==
    /\ Running("kill")
    /\ pid = task[current_task].id => "kill_self" \in Permitted
    /\ \E t \in Victim(pid) :
         /\ next' = [Unlink(t, ready_queue, next).nx EXCEPT ![t] = NULL]
         /\ task' = [task EXCEPT ![t] = Blank]
         /\ live' = live \ {t}
    /\ nTasks' = nTasks - 1
    /\ UNCHANGED <<current_task, ready_queue, next_pid, algorithm, spaces, wild>>

\* schedule, called by a task that gives way: at the end of the list sort it
\* first, under shortest job first; then switch_task.
schedule ==
    /\ Running("schedule")
    /\ \E l \in {IF next[current_task] = NULL /\ algorithm = 1 THEN sjf_arrange
                 ELSE [head |-> ready_queue, nx |-> next]} :
         /\ Relink(l)
         /\ switch_task(l)
    /\ UNCHANGED <<live, nTasks, next_pid, algorithm, dirs>>

\* set_scheduling_algorithm.
set_scheduling_algorithm(n) ==
    /\ Running("algorithm")
    /\ n \notin {0, 1} => "algorithm_2" \in Permitted
    /\ algorithm' = n
    /\ UNCHANGED <<live, task, list, current_task, next_pid, spaces, wild>>

Next ==
    \/ \E t \in Slots, avg \in Priorities :
         start_task(t, avg) \/ \E d \in Dirs : fork_task(t, avg, d)
    \/ exit_task
    \/ \E pid \in 1 .. MaxPid : kill_task(pid)
    \/ schedule
    \/ \E n \in 0 .. 2 : set_scheduling_algorithm(n)

Spec == Init /\ [][Next]_vars

\* A running task gives way in the end while there is another one: the code only
\* switches when tasks do.  (Weak fairness of schedule, its ENABLED spelt out.)
CanGiveWay == Running("schedule") /\ nTasks > 1
Cooperative == Spec /\ ([]<>~CanGiveWay \/ []<><<schedule>>_vars)

-----------------------------------------------------------------------------
(* Properties. *)

TypeOK ==
    /\ live \subseteq Slots /\ task \in [Slots -> Task]
    /\ next \in [Slots -> Slots \cup {NULL}] /\ ready_queue \in Slots \cup {NULL}
    /\ nTasks \in Nat /\ current_task \in Slots
    /\ next_pid \in Nat /\ algorithm \in 0 .. 2
    /\ current_directory \in Dirs /\ dirs \subseteq Dirs
    /\ wild \in BOOLEAN

\* Every call of the interface leaves a list that ends, holds each live task once
\* and nothing freed, the running task among them, and that nTasks counts:
\* sjf_arrange bounds its passes by nTasks and walks the pointers unchecked.
ListSound ==
    /\ TypeOK
    /\ IsInjective(Queue) /\ ToSet(Queue) = live
    /\ nTasks = Len(Queue)
    /\ current_task \in live

\* fork_task links its child in front of the caller and only then sets its eip.
\* When the child has the higher priority, preempt_task switches to it in
\* between: the running task is the newest, with a directory of its own, right
\* before a lower one, and nobody has set its eip.
SwitchedTooEarly ==
    /\ task[current_task].eip = "none" /\ task[current_task].pd # NULL
    /\ task[current_task].id = next_pid - 1
    /\ algorithm = 1 /\ next[current_task] # NULL
    /\ task[current_task].avg > task[next[current_task]].avg

\* Whatever the order of forks, starts and switches, a task that does not run
\* has a place to resume at, and each task has a pid of its own.  There is one
\* way only to switch to an eip that nobody has set: a fork above the caller's
\* own priority, as in __test__ (task.c).
ResumeSound ==
    /\ wild => SwitchedTooEarly
    /\ \A t \in live \ {current_task} : task[t].eip # "none"
    /\ \A s, t \in live : task[s].id = task[t].id => s = t

\* Under shortest job first a new task never waits behind a running one of
\* lower priority, and one of no higher priority never interrupts it.
PreemptsByPriority ==
    [][\A t \in live' \ live : algorithm = 1 =>
          /\ task'[t].avg <= task'[current_task'].avg
          /\ current_task' # current_task =>
                current_task' = t /\ task'[t].avg > task'[current_task].avg]_vars

\* The bubble sort on the linked list sorts: the tasks are the same, those of
\* higher priority first, when the last one of the list gives way.
Descending(q, tasks) ==
    \A i, j \in DOMAIN q : i < j => tasks[q[i]].avg >= tasks[q[j]].avg
ArrangeSorts ==
    [][schedule /\ next[current_task] = NULL /\ algorithm = 1 =>
          Descending(Queue', task) /\ ToSet(Queue') = ToSet(Queue)]_vars

\* The pids of the list, as RunQueue sees them.
Abstract == INSTANCE RunQueue WITH
    queue <- [i \in DOMAIN Queue |-> task[Queue[i]].id],
    running <- task[current_task].id,
    issued <- next_pid - 1

\* The linked list implements the abstract run queue.
ImplementsRunQueue == Abstract!Spec

\* With tasks that give way, and once no more tasks are started, every task in
\* the list runs again unless it is killed first, whatever is ended, killed and
\* re-sorted meanwhile.  Starts that never end can starve a task: one of higher
\* priority that starts the next one and ends always comes before it.
EveryTaskRuns ==
    <>[][next_pid' = next_pid]_vars =>
        \A t \in Slots : t \in live ~> current_task = t \/ t \notin live

\* "By convention return 0" to the child (task.c): the first switch to a forked
\* child resumes in fork_task, not at an eip nobody has set.
ForkedChildReturns == ~wild

\* "Make sure the memory manager knows we've changed page directory." (task.c):
\* the directory the memory manager works on is an allocated one.
CurrentDirectoryLive == current_directory \in dirs

=============================================================================
