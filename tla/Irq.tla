-------------------------------- MODULE Irq --------------------------------
(***************************************************************************)
(* Hardware interrupts in the OGOS kernel: two cascaded 8259 controllers   *)
(* (external), the stubs of irq.S, irq_handler and irq_register_handler    *)
(* (irq.c).                                                                *)
(*                                                                         *)
(* irq_handler sends the EOI before it calls the handler and enables       *)
(* interrupts before it returns, so that interrupts nest in its tail.  The *)
(* processor is a stack of interrupted handlers above kmain, one frame per *)
(* interrupt taken and not yet returned from.                              *)
(***************************************************************************)
EXTENDS Integers

CONSTANTS
    Lines,      \* the interrupt lines with a device; 2 is the cascade
    MaxDepth    \* bound: frames on the kernel stack

ASSUME LinesAssumption == Lines \subseteq (0 .. 15) \ {2}
ASSUME MaxDepthAssumption == MaxDepth \in Nat \ {0}

Cascade == 2
MasterBits == 0 .. 7
SlaveBits == 8 .. 15

VARIABLES
    irr,        \* lines whose request is latched
    isrM,       \* in-service bits of the master controller
    isrS,       \* in-service bits of the slave controller
    intr,       \* the processor's interrupt flag IF
    depth,      \* how many frames are on the stack
    frame,      \* the frames, the running one at depth
    handlers,   \* lines with an entry in irq_handlers
    registering,\* the line irq_register_handler is working on, or -1
    voidEoi     \* history: an EOI went to a controller with nothing in service

pic == <<irr, isrM, isrS>>
cpu == <<intr, depth, frame>>
vars == <<pic, cpu, handlers, registering, voidEoi>>

\* A frame: the vector it was entered through, what it was entered by,
\* and where it is.  "entry": irq_handler has not sent the EOI; "handler": the
\* EOI is sent, the registered handler runs; "tail": on the way to iret.
Frame == [irq : 0 .. 15, by : {"device", "glitch"}, pc : {"entry", "handler", "tail"}]
NoFrame == [irq |-> 0, by |-> "device", pc |-> "tail"]

Top == frame[depth]

\* init_irq has remapped the controllers and unmasked every line.
Init ==
    /\ irr = {} /\ isrM = {} /\ isrS = {}
    /\ intr = TRUE /\ depth = 0 /\ frame = [d \in 1 .. MaxDepth |-> NoFrame]
    /\ handlers = {} /\ registering = -1 /\ voidEoi = FALSE

-----------------------------------------------------------------------------
(* The devices and the controllers (external).                             *)

Raise(l) ==
    /\ irr' = irr \cup {l}
    /\ UNCHANGED <<isrM, isrS, cpu, handlers, registering, voidEoi>>

\* The slave drives the cascade line while it has a request of higher priority
\* than everything it has in service.
SlaveRequests == {l \in irr \cap SlaveBits : \A b \in isrS : l < b}
MasterRequests ==
    {l \in (irr \cap MasterBits) \cup (IF SlaveRequests # {} THEN {Cascade} ELSE {}) :
        \A b \in isrM : l < b}

\* The vector the controllers present when the processor acknowledges.
Highest(S, l) == l \in S /\ \A k \in S : l <= k
Presents(l) ==
    IF l \in MasterBits
      THEN Highest(MasterRequests, l)
      ELSE Highest(MasterRequests, Cascade) /\ Highest(SlaveRequests, l)

\* Through an interrupt gate (0x8E): the flags are saved, IF is cleared.
Enter(l, by) ==
    /\ intr /\ depth < MaxDepth
    /\ intr' = FALSE
    /\ depth' = depth + 1
    /\ frame' = [frame EXCEPT ![depth + 1] =
                    [irq |-> l, by |-> by, pc |-> "entry"]]
    /\ UNCHANGED <<handlers, registering, voidEoi>>

Deliver(l) ==
    /\ Presents(l)
    /\ Enter(l, "device")
    /\ irr' = irr \ {l}
    /\ isrM' = isrM \cup {IF l \in MasterBits THEN l ELSE Cascade}
    /\ isrS' = IF l \in MasterBits THEN isrS ELSE isrS \cup {l}

\* A request withdrawn before the acknowledge: the controller presents its
\* lowest line and sets no bit for it.  The master does not know that the
\* slave's interrupt is spurious.
SpuriousMaster ==
    /\ Enter(7, "glitch")
    /\ UNCHANGED pic

SpuriousSlave ==
    /\ \A b \in isrM : Cascade < b
    /\ Enter(15, "glitch")
    /\ isrM' = isrM \cup {Cascade}
    /\ UNCHANGED <<irr, isrS>>

-----------------------------------------------------------------------------
(* irq_handler.                                                            *)

\* A non-specific EOI clears the in-service bit of highest priority.
EOI(isr) == {b \in isr : \E a \in isr : a < b}

\* irq_send_eoi: the slave first when the line is its own, then the master.
irq_send_eoi_MasterOnly(irq) ==                                     \* mutant
    /\ isrM' = EOI(isrM) /\ isrS' = isrS
    /\ voidEoi' = IF isrM = {} THEN TRUE ELSE voidEoi
irq_send_eoi(irq) ==
    /\ isrM' = EOI(isrM)
    /\ isrS' = IF irq > 7 THEN EOI(isrS) ELSE isrS
    /\ voidEoi' = IF isrM = {} \/ (irq > 7 /\ isrS = {}) THEN TRUE ELSE voidEoi

\* The lines a controller presents for a withdrawn request, told from real ones
\* by their in-service bit.
IsSpurious_NoCheck(irq) == FALSE                                     \* mutant
IsSpurious(irq) ==
    /\ irq \in {7, 15}
    /\ irq \notin isrM \cup isrS

\* irq_handler up to the EOI, on a spurious interrupt up to its return.  The
\* master has the cascade in service for a spurious interrupt of the slave.
SpuriousReturn_NoEoi ==                                              \* mutant
    /\ UNCHANGED <<isrM, isrS, voidEoi>>
SpuriousReturn ==
    IF Top.irq = 15 THEN irq_send_eoi(0) ELSE UNCHANGED <<isrM, isrS, voidEoi>>

Acknowledge_EarlySti ==                                              \* mutant
    /\ depth > 0 /\ Top.pc = "entry"
    /\ IF IsSpurious(Top.irq)
         THEN /\ SpuriousReturn
              /\ frame' = [frame EXCEPT ![depth].pc = "tail"]
         ELSE /\ irq_send_eoi(Top.irq)
              /\ frame' = [frame EXCEPT ![depth].pc = "handler"]
    /\ intr' = TRUE
    /\ UNCHANGED <<irr, depth, handlers, registering>>
Acknowledge ==
    /\ depth > 0 /\ Top.pc = "entry"
    /\ IF IsSpurious(Top.irq)
         THEN /\ SpuriousReturn
              /\ frame' = [frame EXCEPT ![depth].pc = "tail"]
         ELSE /\ irq_send_eoi(Top.irq)
              /\ frame' = [frame EXCEPT ![depth].pc = "handler"]
    /\ UNCHANGED <<irr, intr, depth, handlers, registering>>

\* The registered handler, or the message when there is none, and STI().
RunHandler ==
    /\ depth > 0 /\ Top.pc = "handler"
    /\ frame' = [frame EXCEPT ![depth].pc = "tail"]
    /\ intr' = TRUE
    /\ UNCHANGED <<pic, depth, handlers, registering, voidEoi>>

\* Registers are popped and iret restores the flags, IF on among them.
Return ==
    /\ depth > 0 /\ Top.pc = "tail"
    /\ depth' = depth - 1
    /\ frame' = [frame EXCEPT ![depth] = NoFrame]
    /\ intr' = TRUE
    /\ UNCHANGED <<pic, handlers, registering, voidEoi>>

-----------------------------------------------------------------------------
(* irq_register_handler, called by kmain: CLI, the table, STI.             *)

RegisterBegin(l) ==
    /\ depth = 0 /\ registering = -1
    /\ registering' = l
    /\ intr' = FALSE
    /\ UNCHANGED <<pic, depth, frame, handlers, voidEoi>>

RegisterEnd ==
    /\ depth = 0 /\ registering # -1
    /\ handlers' = handlers \cup {registering}
    /\ registering' = -1
    /\ intr' = TRUE
    /\ UNCHANGED <<pic, depth, frame, voidEoi>>

Next ==
    \/ \E l \in Lines : Raise(l) \/ Deliver(l) \/ RegisterBegin(l)
    \/ SpuriousMaster \/ SpuriousSlave
    \/ Acknowledge \/ RunHandler \/ Return
    \/ RegisterEnd

Spec == Init /\ [][Next]_vars

\* The processor executes what it is at, and takes a request it sees with
\* interrupts on again and again.  Devices and glitches owe nothing.
Fairness ==
    /\ WF_vars(Acknowledge) /\ WF_vars(RunHandler) /\ WF_vars(Return)
    /\ WF_vars(RegisterEnd)
    /\ \A l \in Lines : SF_vars(Deliver(l))

FairSpec == Spec /\ Fairness

-----------------------------------------------------------------------------
(* Properties. *)

TypeOK ==
    /\ irr \subseteq Lines /\ isrM \subseteq MasterBits /\ isrS \subseteq SlaveBits
    /\ intr \in BOOLEAN /\ depth \in 0 .. MaxDepth
    /\ frame \in [1 .. MaxDepth -> Frame]
    /\ handlers \subseteq Lines /\ registering \in Lines \cup {-1}
    /\ voidEoi \in BOOLEAN

\* Whenever interrupts are on, neither controller has anything in service, so
\* no request is held back by a handler that is still to return: every EOI has
\* been sent, to both controllers, on every path of irq_handler.
NothingInServiceWhenEnabled == intr => isrM = {} /\ isrS = {}

\* Up to its own STI a handler is never interrupted: every frame but the
\* running one is in its tail, and so is that one when interrupts are on.
HandlersAtomic ==
    \A d \in 1 .. depth : d < depth \/ intr => frame[d].pc = "tail"

\* No EOI is sent to a controller that has nothing in service, where it could
\* only end the service of a line that is still being served.
NoVoidEoi == ~voidEoi

\* The interrupt flag is off only inside an interrupt or irq_register_handler:
\* none of their paths returns to kmain with interrupts off.
EnabledInKmain == depth = 0 /\ registering = -1 => intr

\* The master serves the slave's lines in the place of its line 2.
Rank(l) == IF l \in SlaveBits THEN 16 * Cascade + l ELSE 16 * l

\* A request waits forever only because requests of higher priority keep
\* coming: no line is ever left blocked by a forgotten EOI.
NoLineWedged ==
    \A l \in Lines :
        <>[](l \in irr) => []<>(\E h \in irr : Rank(h) < Rank(l))

\* The in-service bits are those of the running frame until its EOI, and none
\* after it.
OwnService ==
    IF depth > 0 /\ Top.pc = "entry"
      THEN /\ Top.by = "device" => Top.irq # Cascade
           /\ Top.by = "glitch" => Top.irq \in {7, 15}
           /\ isrM = IF Top.irq > 7 THEN {Cascade}
                     ELSE IF Top.by = "device" THEN {Top.irq} ELSE {}
           /\ isrS = IF Top.irq > 7 /\ Top.by = "device" THEN {Top.irq} ELSE {}
      ELSE isrM = {} /\ isrS = {}

IInv ==
    /\ TypeOK /\ OwnService /\ HandlersAtomic /\ NoVoidEoi /\ EnabledInKmain
    /\ registering # -1 => depth = 0 /\ ~intr
=============================================================================
