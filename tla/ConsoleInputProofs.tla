------------------------- MODULE ConsoleInputProofs -------------------------
(***************************************************************************)
(* Proofs about ConsoleInput for every buffer size, every number of        *)
(* keystrokes and every set of key kinds.                                  *)
(***************************************************************************)
EXTENDS ConsoleInput, TLAPS

LEMMA InitIInv == Init => IInv
<1> SUFFICES ASSUME Init PROVE IInv
    OBVIOUS
<1> USE SizesAssumption, KindsAssumption
<1>1. TypeOK
  <2>1. mem \in [Cells -> Byte]
    BY DEF Init, Byte
  <2>2. in_size \in 0 .. Unused + MaxKeys /\ reg \in 0 .. Unused + MaxKeys
    BY DEF Init, Unused
  <2>3. /\ last \in 0 .. KEYBOARD_BUFFER_SIZE - 1
        /\ kb_buffer \in [0 .. KEYBOARD_BUFFER_SIZE - 1 -> {NUL} \cup Chars]
    BY DEF Init
  <2>4. typed \in 0 .. MaxKeys /\ got \in Byte /\ fresh \in {NUL} \cup Chars
    BY DEF Init, Byte, NUL
  <2> QED BY <2>1, <2>2, <2>3, <2>4 DEF Init, TypeOK, PC
<1>2. Phases
  BY DEF Init, Phases, Inside, NUL
<1>3. Ordered
  BY DEF Init, Ordered, Delivered, Inside, NUL, Empty
<1>4. NewestPlace
  BY DEF Init, NewestPlace
<1>5. Reach
  BY DEF Init, Reach, Delivered, Empty, Unused, Cells
<1>6. SilentIffEarly
  BY DEF Init, SilentIffEarly
<1> QED BY <1>1, <1>2, <1>3, <1>4, <1>5, <1>6 DEF IInv

\* The newest character taken from the controller is one that was typed.
LEMMA DeliveredIsTyped == IInv => Delivered \in 0 .. typed /\ typed \in 0 .. MaxKeys
BY SizesAssumption DEF IInv, TypeOK, Ordered, Delivered

LEMMA TypeStep == IInv /\ [Next]_vars => TypeOK'
<1> SUFFICES ASSUME IInv, [Next]_vars PROVE TypeOK'
    OBVIOUS
<1> USE SizesAssumption, KindsAssumption
<1> USE DEF IInv, TypeOK, console, main, Unused
<1>1. ASSUME NEW kind \in Kinds, Press(kind) PROVE TypeOK'
  BY <1>1 DEF Press, Scancode, Empty, AllKinds, Chars, NUL
<1>2. CASE Irq1Unhandled
  BY <1>2 DEF Irq1Unhandled
<1>3. CASE keyboard_interrupt_handler
  <2>1. obf.char \in {NUL} \cup Chars
    BY DEF Scancode, Empty
  <2>2. obf' = Empty /\ irr' = FALSE
    BY <1>3 DEF keyboard_interrupt_handler, ReadPort
  <2>3. last' \in 0 .. KEYBOARD_BUFFER_SIZE - 1
    BY <1>3 DEF keyboard_interrupt_handler, NextLast
  <2>4. kb_buffer' \in [0 .. KEYBOARD_BUFFER_SIZE - 1 -> {NUL} \cup Chars]
    BY <1>3, <2>1 DEF keyboard_interrupt_handler
  <2>5. /\ mem' \in [Cells -> Byte] /\ stray' \in BOOLEAN
        /\ fresh' \in {NUL} \cup Chars
    BY <1>3, <2>1 DEF keyboard_interrupt_handler, read_kb_buff, Byte
  <2> QED BY <1>3, <2>2, <2>3, <2>4, <2>5 DEF keyboard_interrupt_handler
<1>4. CASE timer_callback
  BY <1>4 DEF timer_callback
<1>5. CASE init_keyboard
  BY <1>5 DEF init_keyboard, PC
<1>6. CASE init_stdin
  BY <1>6 DEF init_stdin, PC
<1>7. CASE ClearCell
  <2>1. mem' \in [Cells -> Byte]
    BY <1>7 DEF ClearCell, Byte
  <2>2. reg' \in 0 .. STDIO_SIZE + MaxOverrun /\ pc' \in PC
    BY <1>7 DEF ClearCell, PC, Phases, Inside
  <2> QED BY <1>7, <2>1, <2>2 DEF ClearCell
<1>8. CASE Poll
  BY <1>8 DEF Poll, PC
<1>9. CASE Load
  BY <1>9 DEF Load, PC
<1>10. CASE Store
  <2>1. reg < Unused + MaxKeys
    BY <1>10, DeliveredIsTyped DEF Store, Reach
  <2> QED BY <1>10, <2>1 DEF Store, PC
<1>11. CASE Fetch
  BY <1>11 DEF Fetch, PC, Cells
<1>12. CASE UNCHANGED vars
  BY <1>12 DEF vars
<1> QED BY <1>1, <1>2, <1>3, <1>4, <1>5, <1>6, <1>7, <1>8, <1>9, <1>10, <1>11,
           <1>12 DEF Next, Interrupt, kmain, getch

\* What in_size++ does until the buffer has been filled once.
LEMMA StoreAdvances ==
    IInv /\ Store /\ ~wrapped' =>
        /\ ~wrapped /\ in_size \in Inside
        /\ in_size' = in_size + 1 /\ in_size' \in Inside
        /\ in_size' - 1 = in_size
<1> SUFFICES ASSUME IInv, Store, ~wrapped'
             PROVE  /\ ~wrapped /\ in_size \in Inside
                    /\ in_size' = in_size + 1 /\ in_size' \in Inside
                    /\ in_size' - 1 = in_size
    OBVIOUS
<1>1. ~wrapped /\ ~(reg + 1 >= STDIO_SIZE)
  BY DEF Store
<1>2. reg = in_size /\ in_size \in Inside
  BY <1>1 DEF Store, IInv, Phases
<1> QED BY <1>1, <1>2, SizesAssumption DEF Store, Inside

LEMMA PhasesStep == IInv /\ [Next]_vars => Phases'
<1> SUFFICES ASSUME IInv, [Next]_vars PROVE Phases'
    OBVIOUS
<1> USE SizesAssumption, KindsAssumption
<1> USE DEF IInv, TypeOK, Phases, console, main, Inside, Full
<1>1. ASSUME NEW kind \in Kinds, Press(kind) PROVE Phases'
  BY <1>1 DEF Press, Empty, AllKinds
<1>2. CASE Irq1Unhandled
  BY <1>2 DEF Irq1Unhandled
<1>3. CASE keyboard_interrupt_handler
  BY <1>3 DEF keyboard_interrupt_handler, read_kb_buff, ReadPort
<1>4. CASE timer_callback
  BY <1>4 DEF timer_callback
<1>5. CASE init_keyboard
  BY <1>5 DEF init_keyboard
<1>6. CASE init_stdin
  BY <1>6 DEF init_stdin
<1>7. CASE ClearCell
  BY <1>7 DEF ClearCell
<1>8. CASE Poll
  BY <1>8 DEF Poll
<1>9. CASE Load
  BY <1>9 DEF Load
<1>10. CASE Store
  <2>1. ~wrapped' => in_size' \in Inside /\ in_size' > 0
    BY <1>10, StoreAdvances
  <2> QED BY <1>10, <2>1 DEF Store
<1>11. CASE Fetch
  BY <1>11 DEF Fetch
<1>12. CASE UNCHANGED vars
  BY <1>12 DEF vars
<1> QED BY <1>1, <1>2, <1>3, <1>4, <1>5, <1>6, <1>7, <1>8, <1>9, <1>10, <1>11,
           <1>12 DEF Next, Interrupt, kmain, getch

\* What keystrokes extend, and what nothing else does.
LEMMA ReachStep == IInv /\ [Next]_vars => Reach'
<1> SUFFICES ASSUME IInv, [Next]_vars PROVE Reach'
    OBVIOUS
<1>d. /\ Delivered \in 0 .. typed /\ typed \in 0 .. MaxKeys
      /\ in_size \in Nat /\ reg \in Nat /\ Unused \in Nat
  BY DeliveredIsTyped, SizesAssumption DEF IInv, TypeOK, Unused
<1> USE SizesAssumption, KindsAssumption
<1> USE DEF IInv, TypeOK, Phases, Reach, console, main
<1>1. ASSUME NEW kind \in Kinds, Press(kind) PROVE Reach'
  <2>1. Delivered' = Delivered
    BY <1>1 DEF Press, Delivered, Empty
  <2> QED BY <1>1, <2>1 DEF Press, Unused, Cells
<1>2. CASE Irq1Unhandled
  BY <1>2 DEF Irq1Unhandled, Delivered, Unused, Cells
<1>3. CASE keyboard_interrupt_handler
  <2>1. /\ obf' = Empty /\ UNCHANGED <<typed, in_size, pc, reg>>
        /\ Unused' = Unused /\ Cells' = Cells
    BY <1>3 DEF keyboard_interrupt_handler, ReadPort, Unused, Cells
  <2>2. Delivered' = typed
    BY <2>1 DEF Delivered, Empty
  <2>3. CASE mem' = mem
    BY <1>d, <2>1, <2>2, <2>3 DEF Cells, Unused
  <2>4. CASE mem' # mem
    <3>1. mem' = [mem EXCEPT ![in_size] = obf.char]
      BY <1>3, <2>4 DEF keyboard_interrupt_handler, read_kb_buff
    <3>2. obf.char # NUL => Delivered < typed
      BY <1>d DEF Ordered, Delivered
    <3>3. ASSUME NEW i \in Cells, i >= Unused, mem'[i] # NUL
          PROVE  i < Unused + typed
      <4>1. i = in_size => obf.char # NUL
        BY <3>1, <3>3
      <4>2. i # in_size => mem[i] # NUL
        BY <3>1, <3>3
      <4> QED BY <1>d, <3>2, <3>3, <4>1, <4>2 DEF Cells
    <3> QED BY <1>d, <2>1, <2>2, <3>3
  <2> QED BY <2>3, <2>4
<1>4. CASE timer_callback
  BY <1>d, <1>4 DEF timer_callback, Delivered, Unused, Cells
<1>5. CASE init_keyboard
  BY <1>d, <1>5 DEF init_keyboard, Delivered, Unused, Cells
<1>6. CASE init_stdin
  BY <1>6 DEF init_stdin, Delivered, Unused, Cells
<1>7. CASE ClearCell
  <2>1. \A i \in Cells : mem'[i] # NUL => mem[i] # NUL
    BY <1>7 DEF ClearCell, NUL
  <2> QED BY <1>7, <2>1 DEF ClearCell, Delivered, Unused, Cells
<1>8. CASE Poll
  <2>1. in_size < Unused + Delivered
    <3>1. CASE in_size < Unused
      BY <1>d, <3>1
    <3>2. CASE in_size >= Unused
      BY <1>d, <1>8, <3>2 DEF Poll, Cells
    <3> QED BY <1>d, <3>1, <3>2
  <2> QED BY <1>8, <2>1 DEF Poll, Delivered, Unused, Cells
<1>9. CASE Load
  BY <1>9 DEF Load, Delivered, Unused, Cells
<1>10. CASE Store
  BY <1>d, <1>10 DEF Store, Delivered, Unused, Cells
<1>11. CASE Fetch
  BY <1>11 DEF Fetch, Delivered, Unused, Cells
<1>12. CASE UNCHANGED vars
  BY <1>12 DEF vars, Delivered, Unused, Cells
<1> QED BY <1>1, <1>2, <1>3, <1>4, <1>5, <1>6, <1>7, <1>8, <1>9, <1>10, <1>11,
           <1>12 DEF Next, Interrupt, kmain, getch

\* A scancode is left behind by Irq1Unhandled alone, and that for ever.
LEMMA SilentStep == IInv /\ [Next]_vars => SilentIffEarly'
<1> SUFFICES ASSUME IInv, [Next]_vars PROVE SilentIffEarly'
    OBVIOUS
<1> USE DEF IInv, SilentIffEarly, console, main
<1>1. ASSUME NEW kind \in Kinds, Press(kind) PROVE SilentIffEarly'
  BY <1>1 DEF Press
<1>2. CASE Irq1Unhandled
  BY <1>2 DEF Irq1Unhandled, Phases
<1>3. CASE keyboard_interrupt_handler
  BY <1>3 DEF keyboard_interrupt_handler, ReadPort
<1>4. CASE timer_callback \/ init_keyboard \/ init_stdin \/ ClearCell
  BY <1>4 DEF timer_callback, init_keyboard, init_stdin, ClearCell
<1>5. CASE Poll \/ Load \/ Store \/ Fetch
  BY <1>5 DEF Poll, Load, Store, Fetch
<1>6. CASE UNCHANGED vars
  BY <1>6 DEF vars
<1> QED BY <1>1, <1>2, <1>3, <1>4, <1>5, <1>6 DEF Next, Interrupt, kmain, getch

LEMMA OrderedStep == IInv /\ [Next]_vars => Ordered'
<1> SUFFICES ASSUME IInv, [Next]_vars PROVE Ordered'
    OBVIOUS
<1> USE SizesAssumption, KindsAssumption
<1> USE DEF IInv, TypeOK, Phases, Ordered, Delivered, console, main, Inside, NUL
<1>1. ASSUME NEW kind \in Kinds, Press(kind) PROVE Ordered'
  BY <1>1 DEF Press, Empty
<1>2. CASE Irq1Unhandled
  BY <1>2 DEF Irq1Unhandled
<1>3. CASE keyboard_interrupt_handler
  <2>1. /\ obf' = Empty /\ obf # Empty
        /\ UNCHANGED <<typed, stdin, in_size, pc, reg, got, wrapped>>
    BY <1>3 DEF keyboard_interrupt_handler, ReadPort
  <2>2. Delivered' = typed /\ Delivered \in 0 .. typed
    BY <2>1 DEF Empty
  <2>3. CASE mem' = mem
    BY <2>1, <2>2, <2>3 DEF Empty
  <2>4. CASE mem' # mem
    <3>1. /\ obf.kind \in {"char", "dead"}
          /\ mem' = [mem EXCEPT ![in_size] = obf.char]
      BY <1>3, <2>1, <2>4 DEF keyboard_interrupt_handler, read_kb_buff, Scancode,
         AllKinds
    <3>2. ASSUME ~wrapped
          PROVE  /\ in_size \in Inside /\ in_size \in Cells
                 /\ mem'[in_size] = obf.char
                 /\ \A i \in Inside : i # in_size => mem'[i] = mem[i]
      BY <3>1, <3>2 DEF Cells
    <3>3. ASSUME ~wrapped
          PROVE  /\ \A i \in Inside : mem'[i] \in 0 .. typed
                 /\ \A i \in Inside : i > in_size => mem'[i] = NUL
      BY <2>2, <3>1, <3>2, <3>3
    <3>4. ASSUME ~wrapped, mem'[in_size] # NUL
          PROVE  /\ mem'[in_size] = typed /\ typed > Delivered
      BY <3>1, <3>2, <3>4
    <3>5. ASSUME ~wrapped, pc = "fetch"
          PROVE  /\ in_size - 1 \in Inside /\ mem'[in_size - 1] = mem[in_size - 1]
                 /\ mem[in_size - 1] \in 0 .. Delivered
      BY <3>2, <3>5
    <3>6. ASSUME ~wrapped, "dead" \notin Kinds PROVE mem'[in_size] # NUL
      BY <3>1, <3>2, <3>6
    <3> QED BY <2>1, <2>2, <3>2, <3>3, <3>4, <3>5, <3>6 DEF Empty
  <2> QED BY <2>3, <2>4
<1>4. CASE timer_callback
  BY <1>4 DEF timer_callback, Full
<1>5. CASE init_keyboard
  BY <1>5 DEF init_keyboard
<1>6. CASE init_stdin
  BY <1>6 DEF init_stdin
<1>7. CASE ClearCell
  BY <1>7 DEF ClearCell, Cells
<1>8. CASE Poll
  BY <1>8 DEF Poll
<1>9. CASE Load
  BY <1>9 DEF Load
<1>10. CASE Store
  <2>1. /\ UNCHANGED <<obf, typed, mem, got>> /\ pc = "store" /\ pc' = "fetch"
    BY <1>10 DEF Store
  <2>2. ASSUME ~wrapped'
        PROVE  /\ ~wrapped /\ in_size \in Inside
               /\ in_size' = in_size + 1 /\ in_size' \in Inside
               /\ in_size' - 1 = in_size
    BY <1>10, <2>2, StoreAdvances
  <2>3. ASSUME ~wrapped' PROVE mem[in_size'] = NUL
    BY <2>2, <2>3
  <2> QED BY <2>1, <2>2, <2>3
<1>11. CASE Fetch
  BY <1>11 DEF Fetch
<1>12. CASE UNCHANGED vars
  BY <1>12 DEF vars
<1> QED BY <1>1, <1>2, <1>3, <1>4, <1>5, <1>6, <1>7, <1>8, <1>9, <1>10, <1>11,
           <1>12 DEF Next, Interrupt, kmain, getch

LEMMA NewestStep == IInv /\ [Next]_vars => NewestPlace'
<1> SUFFICES ASSUME IInv, [Next]_vars PROVE NewestPlace'
    OBVIOUS
<1> USE SizesAssumption, KindsAssumption
<1> USE DEF IInv, TypeOK, Phases, NewestPlace, console, main, Inside, NUL
<1>1. ASSUME NEW kind \in Kinds, Press(kind) PROVE NewestPlace'
  BY <1>1 DEF Press
<1>2. CASE Irq1Unhandled
  BY <1>2 DEF Irq1Unhandled
<1>3. CASE keyboard_interrupt_handler
  <2>1. UNCHANGED <<stdin, in_size, pc, got, wrapped>>
    BY <1>3 DEF keyboard_interrupt_handler
  <2>2. CASE UNCHANGED <<mem, fresh>>
    BY <2>1, <2>2
  <2>3. CASE read_kb_buff(kb_buffer'[last])
    <3>1. ~wrapped => in_size \in Cells /\ in_size - 1 # in_size
      BY DEF Cells, Unused
    <3>2. CASE pc = "clear" \/ stdin = "NULL"
      BY <2>1, <2>3, <3>2 DEF read_kb_buff
    <3>3. CASE pc # "clear" /\ stdin = "inbuffer"
      <4>1. ~wrapped => mem'[in_size] = fresh'
        BY <2>3, <3>1, <3>3 DEF read_kb_buff
      <4> QED BY <2>1, <4>1
    <3> QED BY <3>2, <3>3
  <2> QED BY <1>3, <2>2, <2>3 DEF keyboard_interrupt_handler
<1>4. CASE timer_callback
  BY <1>4 DEF timer_callback, Full
<1>5. CASE init_keyboard
  BY <1>5 DEF init_keyboard
<1>6. CASE init_stdin
  BY <1>6 DEF init_stdin
<1>7. CASE ClearCell
  BY <1>7 DEF ClearCell
<1>8. CASE Poll
  BY <1>8 DEF Poll
<1>9. CASE Load
  BY <1>9 DEF Load
<1>10. CASE Store
  <2>1. UNCHANGED <<mem, got, fresh>> /\ pc = "store" /\ pc' = "fetch"
    BY <1>10 DEF Store
  <2>2. ASSUME ~wrapped'
        PROVE  ~wrapped /\ in_size' - 1 = in_size /\ mem[in_size'] = NUL
    BY <1>10, <2>2, StoreAdvances DEF Ordered
  <2> QED BY <2>1, <2>2
<1>11. CASE Fetch
  BY <1>11 DEF Fetch
<1>12. CASE UNCHANGED vars
  BY <1>12 DEF vars
<1> QED BY <1>1, <1>2, <1>3, <1>4, <1>5, <1>6, <1>7, <1>8, <1>9, <1>10, <1>11,
           <1>12 DEF Next, Interrupt, kmain, getch

LEMMA IInvStep == IInv /\ [Next]_vars => IInv'
BY TypeStep, PhasesStep, ReachStep, OrderedStep, NewestStep, SilentStep DEF IInv

LEMMA Invariance == Spec => []IInv
BY InitIInv, IInvStep, PTL DEF Spec

\* in_size stays in inbuffer until the buffer has been filled once, and behind it
\* goes no further than the bytes in use there and the keystrokes stored.
THEOREM IndicesStayBounded == Spec => []IndicesBounded
<1>1. IInv => IndicesBounded
  BY DeliveredIsTyped, SizesAssumption
     DEF IInv, TypeOK, Phases, Reach, IndicesBounded, Inside, Unused
<1> QED BY <1>1, Invariance, PTL

\* The handler only ever overwrites an unread keystroke by a newer one.
THEOREM NewestSurvives == Spec => []NewestKeySurvives
<1>1. IInv => NewestKeySurvives
  BY DEF IInv, NewestPlace, NewestKeySurvives
<1> QED BY <1>1, Invariance, PTL

\* getch() returns keystrokes in the order they were typed.
THEOREM InOrder == Spec => ReadInOrder
<1>1. IInv /\ [Next]_vars =>
        [pc = "fetch" /\ pc' = "poll" /\ ~wrapped =>
           got' > got \/ ("dead" \in Kinds /\ got' = NUL)]_vars
  <2> SUFFICES ASSUME IInv, Next, pc = "fetch", pc' = "poll", ~wrapped
               PROVE  got' > got \/ ("dead" \in Kinds /\ got' = NUL)
      OBVIOUS
  <2>1. Fetch
    BY DEF Next, Press, Interrupt, Irq1Unhandled, keyboard_interrupt_handler,
           timer_callback, kmain, getch, init_keyboard, init_stdin, ClearCell,
           Poll, Load, Store, main
  <2> QED BY <2>1 DEF Fetch, IInv, Phases, Ordered, NUL
<1> QED BY <1>1, Invariance, PTL DEF Spec, ReadInOrder

\* Only a key that was acknowledged before the handler was registered silences
\* the keyboard, and it does so for good.
THEOREM SilentOnlyIfEarly == Spec => []SilentIffEarly
<1>1. IInv => SilentIffEarly
  BY DEF IInv
<1> QED BY <1>1, Invariance, PTL
=============================================================================
