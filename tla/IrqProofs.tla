----------------------------- MODULE IrqProofs -----------------------------
(***************************************************************************)
(* Proofs about Irq for every set of lines and every depth of nesting.     *)
(***************************************************************************)
EXTENDS Irq, TLAPS

LEMMA InitIInv == Init => IInv
<1> SUFFICES ASSUME Init PROVE IInv
    OBVIOUS
<1> USE MaxDepthAssumption DEF Init
<1>1. TypeOK
  <2>1. NoFrame \in Frame
    BY DEF NoFrame, Frame
  <2>2. frame \in [1 .. MaxDepth -> Frame] /\ depth \in 0 .. MaxDepth
    BY <2>1
  <2> QED BY <2>2 DEF TypeOK
<1>2. OwnService
  BY DEF OwnService
<1>3. HandlersAtomic
  BY DEF HandlersAtomic
<1>4. NoVoidEoi
  BY DEF NoVoidEoi
<1>5. EnabledInKmain
  BY DEF EnabledInKmain
<1> QED BY <1>1, <1>2, <1>3, <1>4, <1>5 DEF IInv

\* An EOI to a controller with one line in service, or none, leaves none.
LEMMA EoiOfOne == \A b \in 0 .. 15 : EOI({b}) = {} /\ EOI({}) = {}
BY DEF EOI

\* irq_send_eoi, sent when something is in service wherever it goes.
LEMMA SendEoi ==
    ASSUME NEW irq \in 0 .. 15, NEW m \in 0 .. 15, NEW S \in {{}, {irq}},
           irq_send_eoi(irq), isrM = {m}, isrS = S, irq > 7 <=> S # {},
           voidEoi = FALSE
    PROVE  isrM' = {} /\ isrS' = {} /\ voidEoi' = FALSE
<1>1. isrM' = EOI({m}) /\ isrS' = IF irq > 7 THEN EOI({irq}) ELSE {}
  BY DEF irq_send_eoi
<1>2. isrM # {} /\ (irq > 7 => isrS # {})
  OBVIOUS
<1>3. voidEoi' = FALSE
  BY <1>2 DEF irq_send_eoi
<1> QED BY <1>1, <1>3, EoiOfOne

\* The vector the controllers present is one with a request.
LEMMA PresentsRequest == ASSUME NEW l \in Lines, Presents(l) PROVE l \in irr
BY LinesAssumption DEF Presents, Highest, MasterRequests, SlaveRequests, MasterBits,
   SlaveBits, Cascade

\* Entering an interrupt: what the three ways to do so have in common.
Entered(l, by) ==
    /\ intr' = FALSE /\ depth' \in 1 .. MaxDepth
    /\ frame' \in [1 .. MaxDepth -> Frame]
    /\ Top' = [irq |-> l, by |-> by, pc |-> "entry"]
    /\ HandlersAtomic' /\ EnabledInKmain' /\ NoVoidEoi'
    /\ handlers' = handlers /\ registering' = -1 /\ registering = -1
    /\ isrM = {} /\ isrS = {} /\ voidEoi' \in BOOLEAN

\* Entering an interrupt keeps the types.
LEMMA TypeKept ==
    ASSUME TypeOK, irr' \subseteq irr, isrM' \subseteq MasterBits,
           isrS' \subseteq SlaveBits,
           NEW l, NEW by, Entered(l, by)
    PROVE  TypeOK'
<1>1. /\ intr' \in BOOLEAN /\ depth' \in 0 .. MaxDepth
      /\ handlers' = handlers /\ registering' = -1 /\ voidEoi' \in BOOLEAN
  <2>1. /\ intr' = FALSE /\ depth' \in 1 .. MaxDepth
        /\ handlers' = handlers /\ registering' = -1 /\ voidEoi' \in BOOLEAN
    BY DEF Entered
  <2>2. depth' \in 0 .. MaxDepth
    BY <2>1, MaxDepthAssumption
  <2> QED BY <2>1, <2>2
<1>2. frame' \in [1 .. MaxDepth -> Frame]
  BY DEF Entered
<1> QED BY <1>1, <1>2 DEF TypeOK

LEMMA EnterStep ==
    ASSUME IInv, NEW l \in 0 .. 15, NEW by \in {"device", "glitch"}, Enter(l, by)
    PROVE  Entered(l, by)
<1> USE MaxDepthAssumption
<1>1. /\ intr = TRUE /\ depth \in 0 .. MaxDepth /\ depth < MaxDepth
      /\ depth + 1 \in 1 .. MaxDepth
  BY DEF Enter, IInv, TypeOK
<1>2. /\ intr' = FALSE /\ depth' = depth + 1
      /\ UNCHANGED <<handlers, registering, voidEoi>>
  BY DEF Enter
<1>3. isrM = {} /\ isrS = {}
  BY <1>1 DEF IInv, OwnService, HandlersAtomic, Top
<1>4. [irq |-> l, by |-> by, pc |-> "entry"] \in Frame
  BY DEF Frame
<1>5. /\ frame' \in [1 .. MaxDepth -> Frame]
      /\ frame'[depth + 1] = [irq |-> l, by |-> by, pc |-> "entry"]
      /\ \A d \in 1 .. depth : frame'[d] = frame[d]
  BY <1>1, <1>4 DEF Enter, IInv, TypeOK
<1>6. \A d \in 1 .. depth : frame[d].pc = "tail"
  BY <1>1 DEF IInv, HandlersAtomic
<1>7. HandlersAtomic'
  BY <1>1, <1>2, <1>5, <1>6 DEF HandlersAtomic
<1>8. registering = -1
  BY <1>1 DEF IInv
<1> QED BY <1>1, <1>2, <1>3, <1>5, <1>7, <1>8
           DEF Entered, Top, EnabledInKmain, NoVoidEoi, IInv, TypeOK

LEMMA AcknowledgeStep == IInv /\ Acknowledge => IInv'
<1> SUFFICES ASSUME IInv, Acknowledge PROVE IInv'
    OBVIOUS
<1> USE MaxDepthAssumption
<1>1. /\ depth \in 1 .. MaxDepth /\ Top = frame[depth] /\ Top \in Frame
      /\ Top.pc = "entry" /\ intr = FALSE /\ registering = -1
  BY DEF Acknowledge, IInv, TypeOK, HandlersAtomic, Top
<1>2. UNCHANGED <<irr, intr, depth, handlers, registering>>
  BY DEF Acknowledge
<1>3. /\ frame' \in [1 .. MaxDepth -> Frame]
      /\ frame'[depth].pc \in {"handler", "tail"}
      /\ \A d \in 1 .. depth - 1 : frame'[d] = frame[d]
  <2>1. PICK pc \in {"handler", "tail"} : frame' = [frame EXCEPT ![depth].pc = pc]
    BY DEF Acknowledge
  <2>2. frame \in [1 .. MaxDepth -> Frame]
    BY DEF IInv, TypeOK
  <2>3. [frame[depth] EXCEPT !.pc = pc] \in Frame
    BY <1>1 DEF Frame
  <2>4. frame' = [frame EXCEPT ![depth] = [frame[depth] EXCEPT !.pc = pc]]
    BY <2>1
  <2>5. frame'[depth].pc = pc
    BY <1>1, <2>1, <2>2 DEF Frame
  <2> QED
    BY <1>1, <2>2, <2>3, <2>4, <2>5
<1>4. /\ isrM = IF Top.irq > 7 THEN {Cascade}
               ELSE IF Top.by = "device" THEN {Top.irq} ELSE {}
      /\ isrS = IF Top.irq > 7 /\ Top.by = "device" THEN {Top.irq} ELSE {}
      /\ Top.irq \in 0 .. 15 /\ Top.by \in {"device", "glitch"}
      /\ Top.by = "device" => Top.irq # Cascade
      /\ Top.by = "glitch" => Top.irq \in {7, 15}
  BY <1>1 DEF IInv, OwnService, Frame
<1>5. IsSpurious(Top.irq) <=> Top.by = "glitch"
  BY <1>4 DEF IsSpurious, Cascade
<1>6. isrM' = {} /\ isrS' = {} /\ voidEoi' = FALSE
  <2> voidEoi = FALSE
    BY DEF IInv, TypeOK, NoVoidEoi
  <2>1. CASE Top.by = "glitch" /\ Top.irq = 15
    <3>1. irq_send_eoi(0) /\ isrM = {2} /\ isrS = {}
      BY <1>4, <1>5, <2>1 DEF Acknowledge, SpuriousReturn, Cascade
    <3>2. 0 \in 0 .. 15 /\ 2 \in 0 .. 15 /\ ~(0 > 7)
      OBVIOUS
    <3> QED BY <3>1, <3>2, SendEoi
  <2>2. CASE Top.by = "glitch" /\ Top.irq = 7
    BY <1>4, <1>5, <2>2 DEF Acknowledge, SpuriousReturn
  <2>3. CASE Top.by = "device" /\ Top.irq > 7
    <3>1. irq_send_eoi(Top.irq) /\ isrM = {2} /\ isrS = {Top.irq}
      BY <1>4, <1>5, <2>3 DEF Acknowledge, Cascade
    <3>2. Top.irq \in 0 .. 15 /\ 2 \in 0 .. 15 /\ {Top.irq} # {}
      BY <1>4
    <3> QED BY <2>3, <3>1, <3>2, SendEoi
  <2>4. CASE Top.by = "device" /\ ~(Top.irq > 7)
    <3>1. irq_send_eoi(Top.irq) /\ isrM = {Top.irq} /\ isrS = {}
      BY <1>4, <1>5, <2>4 DEF Acknowledge
    <3> QED BY <1>4, <2>4, <3>1, SendEoi
  <2> QED BY <1>4, <2>1, <2>2, <2>3, <2>4
<1>7. TypeOK'
  BY <1>2, <1>3, <1>6 DEF IInv, TypeOK
<1>8. OwnService'
  BY <1>2, <1>3, <1>6 DEF OwnService, Top
<1>9. HandlersAtomic'
  BY <1>1, <1>2, <1>3 DEF IInv, HandlersAtomic
<1>10. NoVoidEoi' /\ EnabledInKmain'
  BY <1>1, <1>2, <1>6 DEF IInv, NoVoidEoi, EnabledInKmain
<1> QED BY <1>1, <1>2, <1>7, <1>8, <1>9, <1>10 DEF IInv

LEMMA IInvStep == IInv /\ [Next]_vars => IInv'
<1> SUFFICES ASSUME IInv, [Next]_vars PROVE IInv'
    OBVIOUS
<1> USE LinesAssumption, MaxDepthAssumption
<1>1. ASSUME NEW l \in Lines, Raise(l) PROVE IInv'
  BY <1>1 DEF Raise, cpu, IInv, TypeOK, OwnService, HandlersAtomic, NoVoidEoi,
              EnabledInKmain, Top
<1>2. ASSUME NEW l \in Lines, Deliver(l) PROVE IInv'
  <2>1. l \in 0 .. 15 /\ l # Cascade /\ l \in irr
    BY <1>2, PresentsRequest DEF Deliver, Cascade
  <2>2. Enter(l, "device")
    BY <1>2 DEF Deliver
  <2>3. /\ irr' = irr \ {l}
        /\ isrM' = isrM \cup {IF l \in MasterBits THEN l ELSE Cascade}
        /\ isrS' = IF l \in MasterBits THEN isrS ELSE isrS \cup {l}
    BY <1>2 DEF Deliver
  <2>4. Entered(l, "device")
    BY <2>1, <2>2, EnterStep
  <2>5. CASE l \in MasterBits
    <3>1. isrM' = {l} /\ isrS' = {}
      BY <2>3, <2>4, <2>5 DEF Entered
    <3>2. OwnService'
      BY <2>1, <2>4, <2>5, <3>1 DEF OwnService, Entered, MasterBits
    <3>3. TypeOK'
      <4>1. irr' \subseteq irr /\ isrM' \subseteq MasterBits /\ isrS' \subseteq SlaveBits
        BY <2>3, <2>5, <3>1
      <4>2. TypeOK
        BY DEF IInv
      <4> QED BY <2>4, <4>1, <4>2, TypeKept
    <3> QED BY <2>4, <3>2, <3>3 DEF IInv, Entered
  <2>6. CASE l \notin MasterBits
    <3>1. isrM' = {Cascade} /\ isrS' = {l} /\ l \in SlaveBits
      BY <2>1, <2>3, <2>4, <2>6 DEF Entered, MasterBits, SlaveBits
    <3>2. OwnService'
      BY <2>1, <2>4, <3>1 DEF OwnService, Entered, SlaveBits
    <3>3. TypeOK'
      <4>1. irr' \subseteq irr /\ isrM' \subseteq MasterBits /\ isrS' \subseteq SlaveBits
        BY <2>3, <3>1 DEF MasterBits, Cascade
      <4>2. TypeOK
        BY DEF IInv
      <4> QED BY <2>4, <4>1, <4>2, TypeKept
    <3> QED BY <2>4, <3>2, <3>3 DEF IInv, Entered
  <2> QED BY <2>5, <2>6
<1>3. CASE SpuriousMaster
  <2>1. Enter(7, "glitch") /\ UNCHANGED <<irr, isrM, isrS>>
    BY <1>3 DEF SpuriousMaster, pic
  <2>2. Entered(7, "glitch")
    BY <2>1, EnterStep
  <2>3. OwnService'
    BY <2>1, <2>2 DEF OwnService, Entered
  <2>4. TypeOK'
    <3>1. TypeOK /\ isrM' \subseteq MasterBits /\ isrS' \subseteq SlaveBits
      BY <2>1 DEF IInv, TypeOK
    <3>2. irr' \subseteq irr
      BY <2>1
    <3> QED BY <2>2, <3>1, <3>2, TypeKept
  <2> QED BY <2>2, <2>3, <2>4 DEF IInv, Entered
<1>4. CASE SpuriousSlave
  <2>1. /\ Enter(15, "glitch") /\ UNCHANGED <<irr, isrS>>
        /\ isrM' = isrM \cup {Cascade}
    BY <1>4 DEF SpuriousSlave
  <2>2. Entered(15, "glitch")
    BY <2>1, EnterStep
  <2>3. isrM' = {Cascade} /\ isrS' = {}
    BY <2>1, <2>2 DEF Entered
  <2>4. OwnService'
    BY <2>2, <2>3 DEF OwnService, Entered
  <2>5. TypeOK'
    <3>1. isrM' \subseteq MasterBits /\ isrS' \subseteq SlaveBits
      BY <2>3 DEF MasterBits, Cascade
    <3>2. TypeOK /\ irr' \subseteq irr
      BY <2>1 DEF IInv
    <3> QED BY <2>2, <3>1, <3>2, TypeKept
  <2> QED BY <2>2, <2>4, <2>5 DEF IInv, Entered
<1>5. CASE Acknowledge
  BY <1>5, AcknowledgeStep
<1>6. CASE RunHandler
  <2>1. /\ depth \in 1 .. MaxDepth /\ Top.pc = "handler" /\ intr' = TRUE
        /\ UNCHANGED <<irr, isrM, isrS, depth, handlers, registering, voidEoi>>
    BY <1>6 DEF RunHandler, pic, IInv, TypeOK
  <2>2. /\ frame' \in [1 .. MaxDepth -> Frame] /\ frame'[depth].pc = "tail"
        /\ \A d \in 1 .. depth - 1 : frame'[d] = frame[d]
    <3>1. frame \in [1 .. MaxDepth -> Frame] /\ frame[depth] \in Frame
      BY <2>1 DEF IInv, TypeOK
    <3>2. frame' = [frame EXCEPT ![depth].pc = "tail"]
      BY <1>6 DEF RunHandler
    <3>3. [frame[depth] EXCEPT !.pc = "tail"] \in Frame
      BY <3>1 DEF Frame
    <3>4. frame' = [frame EXCEPT ![depth] = [frame[depth] EXCEPT !.pc = "tail"]]
      BY <3>2
    <3>5. frame'[depth] = [frame[depth] EXCEPT !.pc = "tail"]
      BY <2>1, <3>1, <3>4
    <3>6. frame'[depth].pc = "tail"
      BY <3>1, <3>5 DEF Frame
    <3> QED BY <2>1, <3>1, <3>3, <3>4, <3>6
  <2>3. registering = -1 /\ isrM = {} /\ isrS = {}
    BY <2>1 DEF IInv, OwnService
  <2>4. HandlersAtomic'
    BY <2>1, <2>2 DEF IInv, HandlersAtomic
  <2> QED BY <2>1, <2>2, <2>3, <2>4
             DEF IInv, TypeOK, OwnService, NoVoidEoi, EnabledInKmain, Top
<1>7. CASE Return
  <2>1. /\ depth \in 1 .. MaxDepth /\ Top.pc = "tail" /\ intr' = TRUE
        /\ depth' = depth - 1
        /\ UNCHANGED <<irr, isrM, isrS, handlers, registering, voidEoi>>
    BY <1>7 DEF Return, pic, IInv, TypeOK
  <2>2. /\ frame' \in [1 .. MaxDepth -> Frame]
        /\ \A d \in 1 .. depth - 1 : frame'[d] = frame[d]
    BY <1>7, <2>1 DEF Return, IInv, TypeOK, Frame, NoFrame
  <2>3. registering = -1 /\ isrM = {} /\ isrS = {}
    BY <2>1 DEF IInv, OwnService
  <2>4. \A d \in 1 .. depth' : frame'[d].pc = "tail"
    BY <2>1, <2>2 DEF IInv, HandlersAtomic
  <2>5. HandlersAtomic'
    BY <2>4 DEF HandlersAtomic
  <2>6. OwnService'
    BY <2>1, <2>3, <2>4 DEF OwnService, Top
  <2> QED BY <2>1, <2>2, <2>3, <2>5, <2>6
             DEF IInv, TypeOK, NoVoidEoi, EnabledInKmain
<1>8. ASSUME NEW l \in Lines, RegisterBegin(l) PROVE IInv'
  <2>1. /\ depth = 0 /\ registering' = l /\ l # -1 /\ intr' = FALSE
        /\ UNCHANGED <<irr, isrM, isrS, depth, frame, handlers, voidEoi>>
    BY <1>8 DEF RegisterBegin, pic
  <2>2. TypeOK'
    BY <2>1 DEF IInv, TypeOK
  <2>3. OwnService'
    BY <2>1 DEF IInv, OwnService
  <2>4. HandlersAtomic' /\ EnabledInKmain' /\ NoVoidEoi'
    BY <2>1 DEF IInv, HandlersAtomic, EnabledInKmain, NoVoidEoi
  <2> QED BY <2>1, <2>2, <2>3, <2>4 DEF IInv
<1>9. CASE RegisterEnd
  BY <1>9 DEF RegisterEnd, pic, IInv, TypeOK, OwnService, HandlersAtomic, NoVoidEoi,
              EnabledInKmain, Top
<1>10. CASE UNCHANGED vars
  BY <1>10 DEF vars, pic, cpu, IInv, TypeOK, OwnService, HandlersAtomic, NoVoidEoi,
               EnabledInKmain, Top
<1> QED BY <1>1, <1>2, <1>3, <1>4, <1>5, <1>6, <1>7, <1>8, <1>9, <1>10 DEF Next

LEMMA Invariance == Spec => []IInv
BY InitIInv, IInvStep, PTL DEF Spec

\* Type correctness: in particular the stack never exceeds its bound.
THEOREM TypeCorrect == Spec => []TypeOK
<1>1. IInv => TypeOK
  BY DEF IInv
<1> QED BY <1>1, Invariance, PTL

\* No request is ever held back by a handler whose EOI is outstanding.
THEOREM NothingInService == Spec => []NothingInServiceWhenEnabled
<1>1. IInv => NothingInServiceWhenEnabled
  BY DEF IInv, TypeOK, OwnService, HandlersAtomic, NothingInServiceWhenEnabled, Top
<1> QED BY <1>1, Invariance, PTL

\* Handlers run to their own STI without being interrupted.
THEOREM AtomicHandlers == Spec => []HandlersAtomic
<1>1. IInv => HandlersAtomic
  BY DEF IInv
<1> QED BY <1>1, Invariance, PTL

\* Every EOI ends the service of the line it is sent for.
THEOREM EoisAreDue == Spec => []NoVoidEoi
<1>1. IInv => NoVoidEoi
  BY DEF IInv
<1> QED BY <1>1, Invariance, PTL

\* kmain is never left with interrupts off by a handler or a registration.
THEOREM KmainEnabled == Spec => []EnabledInKmain
<1>1. IInv => EnabledInKmain
  BY DEF IInv
<1> QED BY <1>1, Invariance, PTL
=============================================================================
