---------------------------- MODULE PagingProofs ----------------------------
(***************************************************************************)
(* Theorems about Paging, for any memory, any layout and any number of     *)
(* directories, as long as a frame is never asked for in vain.  Those about *)
(* what the directories show, and the liveness of the current one, also    *)
(* need that no task goes on in a freed directory (Supported).             *)
(***************************************************************************)
EXTENDS Paging, TLAPS

NeverFull == "full" \notin Permitted
Supported == NeverFull /\ "stay" \notin Permitted

\* The types alone: the current directory may be one that is freed.
Typed ==
    /\ frames \subseteq Frames /\ made \subseteq Tables
    /\ tables \in [Tables -> [Offsets -> Entry]]
    /\ allocated \subseteq Dirs /\ dirs \in [Dirs -> [Indices -> made \cup {NULL}]]
    /\ current_directory \in Dirs
    /\ end \in HEAP .. MAX
    /\ memory \in [Frames -> Contents]

\* Holds wherever a task exits into; IInv where each has a directory of its own.
FInv == Typed /\ FrameHasOneOwner
IInv == TypeOK /\ FrameHasOneOwner

LEMMA TypeOKIsTyped == TypeOK <=> Typed /\ current_directory \in allocated
  BY DEF TypeOK, Typed

USE DEF Frames, Tables, Offsets

-----------------------------------------------------------------------------
(* The allocator.                                                          *)

\* first_frame gives free frames, each of them once.
LEMMA FirstFrameGives ==
    ASSUME NEW pages \in SUBSET Int, NEW got \in first_frame(pages), NeverFull
    PROVE  /\ got \in [pages -> Frames \ frames]
           /\ \A p, q \in pages : got[p] = got[q] => p = q
<1>1. got \in Lowest(pages, Free)
  BY DEF first_frame, NeverFull
<1>2. got \in [pages -> Frames \ frames]
  BY <1>1 DEF Lowest, Free
<1>3. ASSUME NEW p \in pages, NEW q \in pages, got[p] = got[q] PROVE p = q
  <2>1. p < q => got[p] < got[q]
    BY <1>1 DEF Lowest
  <2>2. q < p => got[q] < got[p]
    BY <1>1 DEF Lowest
  <2>3. got[p] \in Int /\ got[q] \in Int
    BY <1>2
  <2> QED
    BY <1>3, <2>1, <2>2, <2>3
<1> QED
  BY <1>2, <1>3

\* Filling tables with such frames keeps every frame with one owner.
LEMMA FilledKeepsOwners ==
    ASSUME Typed, FrameHasOneOwner,
           NEW dir, NEW pages \in SUBSET Int,
           NEW got \in [pages -> Frames \ frames],
           \A p, q \in pages : got[p] = got[q] => p = q,
           tables' = Filled(dir, got),
           frames' = frames \cup Range(got)
    PROVE  /\ tables' \in [Tables -> [Offsets -> Entry]]
           /\ frames' \subseteq Frames
           /\ FrameHasOneOwner'
<1> DEFINE Slot(v, t, o) == v \in pages /\ dir[Index(v)] = t /\ v % TABLE = o
           Taken(t, o) == \E v \in pages : Slot(v, t, o)
           Page(t, o) == CHOOSE v \in pages : dir[Index(v)] = t /\ v % TABLE = o
<1>d. DOMAIN got = pages
  OBVIOUS
<1>1. ASSUME NEW t \in Tables, NEW o \in Offsets
      PROVE  /\ Taken(t, o) => /\ Slot(Page(t, o), t, o)
                               /\ tables'[t][o] = [present |-> 1, frame |-> got[Page(t, o)]]
             /\ ~Taken(t, o) => tables'[t][o] = tables[t][o]
  BY <1>d DEF Filled
<1>u. ASSUME NEW t \in Tables, NEW o \in Offsets, ~Taken(t, o)
      PROVE  tables'[t][o] = tables[t][o]
  <2> HIDE DEF Taken, Slot, Page
  <2> QED
    BY <1>1, <1>u
<1>2. ASSUME NEW t \in Tables, NEW o \in Offsets, Taken(t, o)
      PROVE  /\ tables'[t][o].frame = got[Page(t, o)]
             /\ tables'[t][o].frame \in Range(got)
             /\ tables'[t][o].frame \in Frames \ frames
             /\ tables'[t][o] \in Entry
  <2>1. Page(t, o) \in pages
    BY <1>1, <1>2
  <2>2. got[Page(t, o)] \in Frames \ frames
    BY <2>1
  <2>3. got[Page(t, o)] \in Range(got)
    BY <2>1, <1>d DEF Range
  <2>4. tables'[t][o] = [present |-> 1, frame |-> got[Page(t, o)]]
    BY <1>1, <1>2
  <2> HIDE DEF Page
  <2> QED
    BY <2>2, <2>3, <2>4 DEF Entry
<1>3. frames' \subseteq Frames
  <2>1. Range(got) \subseteq Frames
    BY <1>d DEF Range
  <2>2. frames \subseteq Frames
    BY DEF Typed
  <2> QED
    BY <2>1, <2>2
<1>4. tables' \in [Tables -> [Offsets -> Entry]]
  <2>1. ASSUME NEW t \in Tables, NEW o \in Offsets PROVE tables'[t][o] \in Entry
    <3>1. CASE Taken(t, o)
      BY <1>2, <3>1
    <3>2. CASE ~Taken(t, o)
      <4> HIDE DEF Taken
      <4>1. tables'[t][o] = tables[t][o]
        BY <1>u, <3>2
      <4>2. tables \in [Tables -> [Offsets -> Entry]]
        BY DEF Typed
      <4> QED
        BY <4>1, <4>2
    <3> QED
      BY <3>1, <3>2
  <2>2. tables' = [t \in Tables |-> [o \in Offsets |-> tables'[t][o]]]
    BY DEF Filled
  <2> QED
    BY <2>1, <2>2
<1>5. FrameHasOneOwner'
  <2> SUFFICES ASSUME NEW t \in Tables, NEW o \in Offsets, tables'[t][o].present = 1
               PROVE  /\ tables'[t][o].frame \in frames'
                      /\ \A u \in Tables, p \in Offsets :
                           tables'[u][p].present = 1 /\ tables'[u][p].frame = tables'[t][o].frame
                             => t = u /\ o = p
    BY DEF FrameHasOneOwner, Mapped
  <2>1. ASSUME NEW u \in Tables, NEW p \in Offsets,
               ~Taken(u, p), tables'[u][p].present = 1
        PROVE  tables'[u][p].frame \in frames /\ Mapped(u, p)
    <3> HIDE DEF Taken
    <3>1. tables'[u][p] = tables[u][p]
      BY <1>u, <2>1
    <3>2. Mapped(u, p)
      BY <2>1, <3>1 DEF Mapped
    <3> QED
      BY <3>1, <3>2 DEF FrameHasOneOwner
  <2>2. tables'[t][o].frame \in frames'
    BY <1>2, <2>1
  <2>3. ASSUME NEW u \in Tables, NEW p \in Offsets, tables'[u][p].present = 1,
               tables'[u][p].frame = tables'[t][o].frame
        PROVE  t = u /\ o = p
    <3>1. CASE Taken(t, o) /\ Taken(u, p)
      <4>1. got[Page(t, o)] = got[Page(u, p)]
        BY <1>2, <2>3, <3>1
      <4>2. Slot(Page(t, o), t, o) /\ Slot(Page(u, p), u, p)
        BY <1>1, <3>1
      <4>3. Page(t, o) = Page(u, p)
        BY <4>1, <4>2
      <4> QED
        BY <4>2, <4>3
    <3>2. CASE ~Taken(t, o) /\ ~Taken(u, p)
      <4> HIDE DEF Taken
      <4>1. tables'[t][o] = tables[t][o] /\ tables'[u][p] = tables[u][p]
        BY <1>u, <3>2
      <4>2. Mapped(t, o) /\ Mapped(u, p)
        BY <2>1, <2>3, <3>2
      <4> QED
        BY <4>1, <4>2, <2>3 DEF FrameHasOneOwner
    <3>3. CASE Taken(t, o) /\ ~Taken(u, p)
      BY <1>2, <2>1, <2>3, <3>3
    <3>4. CASE ~Taken(t, o) /\ Taken(u, p)
      BY <1>2, <2>1, <2>3, <3>4
    <3> QED
      BY <3>1, <3>2, <3>3, <3>4
  <2> QED
    BY <2>2, <2>3
<1> QED
  BY <1>3, <1>4, <1>5

\* New page tables keep the pointers to page tables well typed.
LEMMA NewTablesKeepDirs ==
    ASSUME Typed, NEW d \in Dirs, NEW indices, NEW ids \in NewTables(indices),
           NEW dir \in [Indices -> made \cup Range(ids) \cup {NULL}],
           dirs' = [dirs EXCEPT ![d] = dir],
           made' = made \cup Range(ids)
    PROVE  /\ made' \subseteq Tables
           /\ dirs' \in [Dirs -> [Indices -> made' \cup {NULL}]]
<1>1. ids \in [indices -> Tables \ made]
  BY DEF NewTables, Lowest
<1>2. Range(ids) \subseteq Tables
  BY <1>1 DEF Range
<1>3. made \subseteq Tables /\ dirs \in [Dirs -> [Indices -> made \cup {NULL}]]
  BY DEF Typed
<1>4. made' \subseteq Tables
  BY <1>2, <1>3
<1>5. ASSUME NEW e \in Dirs PROVE dirs'[e] \in [Indices -> made' \cup {NULL}]
  <2>1. [Indices -> made \cup {NULL}] \subseteq [Indices -> made' \cup {NULL}]
    <3> HIDE DEF Tables
    <3> QED
      BY Zenon
  <2>2. CASE e = d
    BY <1>3, <2>2
  <2>3. CASE e # d
    BY <1>3, <2>1, <2>3
  <2> QED
    BY <2>2, <2>3
<1>6. dirs' = [e \in Dirs |-> dirs'[e]]
  BY <1>3
<1> QED
  BY <1>4, <1>5, <1>6

\* The part of the state that allocation touches, and what it keeps of it.
Kept ==
    /\ frames \subseteq Frames /\ made \subseteq Tables
    /\ tables \in [Tables -> [Offsets -> Entry]]
    /\ dirs \in [Dirs -> [Indices -> made \cup {NULL}]]
    /\ FrameHasOneOwner

LEMMA MapPagesKeeps ==
    ASSUME Typed, FrameHasOneOwner, NeverFull,
           NEW d \in Dirs, NEW pages \in SUBSET Int, MapPages(d, pages)
    PROVE  Kept'
<1> DEFINE blank == {v \in pages : Lookup(d, v).frame = 0}
           missing == Missing(d, pages)
<1>1. PICK ids \in NewTables(missing), got \in first_frame(blank) :
        LET dir == [i \in Indices |-> IF i \in DOMAIN ids THEN ids[i] ELSE dirs[d][i]]
        IN  /\ dirs' = [dirs EXCEPT ![d] = dir]
            /\ made' = made \cup Range(ids)
            /\ tables' = Filled(dir, got)
            /\ frames' = set_frame(Range(got))
  BY Zenon DEF MapPages
<1> DEFINE dir == [i \in Indices |-> IF i \in DOMAIN ids THEN ids[i] ELSE dirs[d][i]]
<1>2. /\ dirs' = [dirs EXCEPT ![d] = dir]
      /\ made' = made \cup Range(ids)
      /\ tables' = Filled(dir, got)
      /\ frames' = frames \cup Range(got)
  BY <1>1, Zenon DEF set_frame
<1>3. dir \in [Indices -> made \cup Range(ids) \cup {NULL}]
  <2>1. dirs[d] \in [Indices -> made \cup {NULL}]
    BY DEF Typed
  <2>2. ASSUME NEW i \in Indices
        PROVE  (IF i \in DOMAIN ids THEN ids[i] ELSE dirs[d][i])
                  \in made \cup Range(ids) \cup {NULL}
    BY <2>1 DEF Range
  <2> QED
    BY <2>2
<1>4. blank \in SUBSET Int
  OBVIOUS
<1>5. /\ got \in [blank -> Frames \ frames]
      /\ \A p, q \in blank : got[p] = got[q] => p = q
  <2> HIDE DEF blank
  <2> QED
    BY <1>4, FirstFrameGives
<1> HIDE DEF blank, missing, dir
<1>6. made' \subseteq Tables /\ dirs' \in [Dirs -> [Indices -> made' \cup {NULL}]]
  BY <1>2, <1>3, NewTablesKeepDirs
<1>7. /\ tables' \in [Tables -> [Offsets -> Entry]]
      /\ frames' \subseteq Frames
      /\ FrameHasOneOwner'
  BY <1>2, <1>4, <1>5, FilledKeepsOwners
<1> QED
  BY <1>6, <1>7 DEF Kept

\* A page whose table index is in range has an entry.
LEMMA LookupType ==
    ASSUME Typed, NEW d \in Dirs, NEW v \in Int, Index(v) \in Indices
    PROVE  Lookup(d, v) \in Entry
<1>1. v % TABLE \in Offsets
  BY SizesAssumption
<1>2. dirs[d][Index(v)] \in made \cup {NULL}
  BY DEF Typed
<1>3. CASE dirs[d][Index(v)] = NULL
  BY <1>3, SizesAssumption DEF Lookup, Zero, Entry
<1>4. CASE dirs[d][Index(v)] # NULL
  <2>1. dirs[d][Index(v)] \in Tables
    BY <1>2, <1>4 DEF Typed
  <2>2. tables[dirs[d][Index(v)]][v % TABLE] \in Entry
    <3>1. tables \in [Tables -> [Offsets -> Entry]]
      BY DEF Typed
    <3> HIDE DEF Tables, Offsets
    <3> QED
      BY <1>1, <2>1, <3>1
  <2> QED
    BY <1>4, <2>2 DEF Lookup
<1> QED
  BY <1>3, <1>4

LEMMA CloneKeeps ==
    ASSUME Typed, FrameHasOneOwner, NeverFull, NEW d \in Dirs, Clone(d)
    PROVE  /\ Kept' /\ memory' \in [Frames -> Contents]
           /\ allocated' = allocated \cup {d} /\ end' = end
<1> DEFINE src == dirs[current_directory]
           private == {i \in Indices : src[i] # NULL /\ ~Shared(i)}
           used == {v \in Pages : /\ Index(v) \in private
                                  /\ Lookup(current_directory, v).frame # 0}
<1>1. PICK ids \in NewTables(private), got \in first_frame(used) :
        LET dir == [i \in Indices |-> IF i \in private THEN ids[i] ELSE src[i]]
        IN  /\ dirs' = [dirs EXCEPT ![d] = dir]
            /\ made' = made \cup Range(ids)
            /\ tables' = Filled(dir, got)
            /\ frames' = set_frame(Range(got))
            /\ memory' = Copied(got)
  BY Zenon DEF Clone
<1> DEFINE dir == [i \in Indices |-> IF i \in private THEN ids[i] ELSE src[i]]
<1>2. /\ dirs' = [dirs EXCEPT ![d] = dir]
      /\ made' = made \cup Range(ids)
      /\ tables' = Filled(dir, got)
      /\ frames' = frames \cup Range(got)
      /\ memory' = Copied(got)
  BY <1>1, Zenon DEF set_frame
<1>c. current_directory \in Dirs
  BY DEF Typed
<1>3. dir \in [Indices -> made \cup Range(ids) \cup {NULL}]
  <2>1. src \in [Indices -> made \cup {NULL}]
    BY <1>c DEF Typed
  <2>2. DOMAIN ids = private
    BY DEF NewTables, Lowest
  <2>3. ASSUME NEW i \in Indices
        PROVE  (IF i \in private THEN ids[i] ELSE src[i])
                  \in made \cup Range(ids) \cup {NULL}
    <3> HIDE DEF private, src
    <3> QED
      BY <2>1, <2>2 DEF Range
  <2> HIDE DEF private, src
  <2> QED
    BY <2>3
<1>4. used \in SUBSET Int
  BY SizesAssumption DEF Pages
<1>5. /\ got \in [used -> Frames \ frames]
      /\ \A p, q \in used : got[p] = got[q] => p = q
  <2> HIDE DEF used
  <2> QED
    BY <1>4, FirstFrameGives
<1>6. memory' \in [Frames -> Contents]
  <2>1. ASSUME NEW v \in used PROVE Reads(current_directory, v) \in Contents
    <3>1. Lookup(current_directory, v) \in Entry
      BY <1>4, <1>c, LookupType
    <3>2. Lookup(current_directory, v).frame \in Frames
      BY <3>1 DEF Entry
    <3> QED
      BY <3>2 DEF Reads, Typed
  <2> HIDE DEF used
  <2>2. ASSUME NEW f \in Frames, f \in Range(got)
        PROVE  Reads(current_directory, CHOOSE v \in DOMAIN got : got[v] = f) \in Contents
    <3>1. \E v \in DOMAIN got : got[v] = f
      BY <2>2 DEF Range
    <3>2. (CHOOSE v \in DOMAIN got : got[v] = f) \in DOMAIN got
      BY <3>1
    <3>3. DOMAIN got = used
      BY <1>5
    <3> QED
      BY <2>1, <3>2, <3>3
  <2>3. memory \in [Frames -> Contents]
    BY DEF Typed
  <2> HIDE DEF Frames
  <2>4. ASSUME NEW f \in Frames PROVE Copied(got)[f] \in Contents
    BY <2>2, <2>3 DEF Copied
  <2> QED
    BY <1>2, <2>4 DEF Copied
<1> HIDE DEF src, private, used, dir
<1>7. made' \subseteq Tables /\ dirs' \in [Dirs -> [Indices -> made' \cup {NULL}]]
  BY <1>2, <1>3, NewTablesKeepDirs
<1>8. /\ tables' \in [Tables -> [Offsets -> Entry]]
      /\ frames' \subseteq Frames
      /\ FrameHasOneOwner'
  BY <1>2, <1>4, <1>5, FilledKeepsOwners
<1>9. allocated' = allocated \cup {d} /\ end' = end
  BY DEF Clone
<1> QED
  BY <1>6, <1>7, <1>8, <1>9 DEF Kept

-----------------------------------------------------------------------------
(* The invariant.                                                          *)

LEMMA Initially == Init => IInv
<1> SUFFICES ASSUME Init PROVE IInv
  OBVIOUS
<1> DEFINE Boot(v, t, o) == BootTable[Index(v)] = t /\ v % TABLE = o
           Booted(t, o) == \E v \in BootPages : Boot(v, t, o)
           Page(t, o) == CHOOSE v \in BootPages : Boot(v, t, o)
<1>1. BootTable \in Lowest({Index(v) : v \in BootPages}, Tables)
  BY BootAssumption DEF BootTable
<1>2. BootTable \in [{Index(v) : v \in BootPages} -> Tables]
  BY <1>1 DEF Lowest
<1>3. \A v \in BootPages : BootFrame(v) \in 0 .. KERNEL + INITIAL_END - HEAP - 1
  BY SizesAssumption DEF BootPages, BootFrame
<1>4. \A v, w \in BootPages : BootFrame(v) = BootFrame(w) => v = w
  BY SizesAssumption DEF BootPages, BootFrame
<1>5. ASSUME NEW t \in Tables, NEW o \in Offsets
      PROVE  /\ Booted(t, o) => /\ Page(t, o) \in BootPages /\ Boot(Page(t, o), t, o)
                                /\ tables[t][o] = [present |-> 1,
                                                   frame |-> BootFrame(Page(t, o))]
             /\ ~Booted(t, o) => tables[t][o] = Zero
  BY DEF Init
<1> HIDE DEF Page, Boot, Booted
<1>6. made \subseteq Tables
  BY <1>2 DEF Init, Range
<1>7. frames \subseteq Frames
  BY SizesAssumption DEF Init
<1>8. tables \in [Tables -> [Offsets -> Entry]]
  <2>1. ASSUME NEW t \in Tables, NEW o \in Offsets PROVE tables[t][o] \in Entry
    <3>1. CASE Booted(t, o)
      <4>1. /\ Page(t, o) \in BootPages
            /\ tables[t][o] = [present |-> 1, frame |-> BootFrame(Page(t, o))]
        BY <1>5, <3>1
      <4>2. BootFrame(Page(t, o)) \in 0 .. KERNEL + INITIAL_END - HEAP - 1
        BY <1>3, <4>1
      <4>3. BootFrame(Page(t, o)) \in Frames
        BY <4>2, SizesAssumption
      <4> QED
        BY <4>1, <4>3 DEF Entry
    <3>2. CASE ~Booted(t, o)
      <4>1. tables[t][o] = Zero
        BY <1>5, <3>2
      <4> QED
        BY <4>1, SizesAssumption DEF Zero, Entry
    <3> QED
      BY <3>1, <3>2
  <2>2. tables = [t \in Tables |-> [o \in Offsets |-> tables[t][o]]]
    BY DEF Init
  <2> QED
    BY <2>1, <2>2
<1>9. dirs \in [Dirs -> [Indices -> made \cup {NULL}]]
  <2>1. \A i \in DOMAIN BootTable : BootTable[i] \in made
    BY DEF Init, Range
  <2> QED
    BY <2>1 DEF Init
<1>10. FrameHasOneOwner
  <2> SUFFICES ASSUME NEW t \in Tables, NEW o \in Offsets, Mapped(t, o)
               PROVE  /\ tables[t][o].frame \in frames
                      /\ \A u \in Tables, p \in Offsets :
                           Mapped(u, p) /\ tables[u][p].frame = tables[t][o].frame
                             => t = u /\ o = p
    BY DEF FrameHasOneOwner
  <2>1. ASSUME NEW u \in Tables, NEW p \in Offsets, Mapped(u, p)
        PROVE  /\ Page(u, p) \in BootPages /\ Boot(Page(u, p), u, p)
               /\ tables[u][p].frame = BootFrame(Page(u, p))
    <3>1. Booted(u, p)
      <4>1. CASE ~Booted(u, p)
        <5>1. tables[u][p] = Zero
          BY <1>5, <4>1
        <5> QED
          BY <5>1, <2>1 DEF Zero, Mapped
      <4> QED
        BY <4>1
    <3>2. tables[u][p] = [present |-> 1, frame |-> BootFrame(Page(u, p))]
      BY <1>5, <3>1
    <3>3. Page(u, p) \in BootPages /\ Boot(Page(u, p), u, p)
      BY <1>5, <3>1
    <3> QED
      BY <3>2, <3>3
  <2>2. tables[t][o].frame \in frames
    BY <2>1, <1>3 DEF Init
  <2>3. ASSUME NEW u \in Tables, NEW p \in Offsets, Mapped(u, p),
               tables[u][p].frame = tables[t][o].frame
        PROVE  t = u /\ o = p
    <3>1. Page(u, p) = Page(t, o)
      BY <1>4, <2>1, <2>3
    <3> QED
      BY <3>1, <2>1, <2>3 DEF Boot
  <2> QED
    BY <2>2, <2>3
<1>11. /\ allocated \subseteq Dirs /\ current_directory \in allocated
       /\ end \in HEAP .. MAX /\ memory \in [Frames -> Contents]
  BY DirsAssumption, SizesAssumption, ContentsAssumption DEF Init
<1> QED
  BY <1>6, <1>7, <1>8, <1>9, <1>10, <1>11 DEF IInv, TypeOK

LEMMA FPreserved == NeverFull /\ FInv /\ [Next]_vars => FInv'
<1> SUFFICES ASSUME NeverFull, FInv, [Next]_vars PROVE FInv'
  OBVIOUS
<1> USE DEF FInv
<1>k. Kept
  BY DEF Typed, Kept
<1>a. ASSUME Kept', allocated' \subseteq Dirs, current_directory' \in Dirs,
             end' \in HEAP .. MAX, memory' \in [Frames -> Contents]
      PROVE  FInv'
  BY <1>a DEF Kept, Typed
<1>t. /\ allocated \subseteq Dirs /\ current_directory \in Dirs
      /\ end \in HEAP .. MAX /\ memory \in [Frames -> Contents]
  BY DEF Typed
<1>1. ASSUME NEW d \in Dirs, initialise_paging(d) PROVE FInv'
  <2>1. Clone(d) /\ current_directory' = d
    BY <1>1 DEF initialise_paging
  <2>2. /\ Kept' /\ memory' \in [Frames -> Contents]
        /\ allocated' = allocated \cup {d} /\ end' = end
    BY <2>1, CloneKeeps
  <2> QED
    BY <1>a, <1>t, <2>1, <2>2
<1>2. ASSUME NEW d \in Dirs, clone_directory(d) PROVE FInv'
  <2>1. Clone(d) /\ current_directory' = current_directory
    BY <1>2 DEF clone_directory
  <2>2. /\ Kept' /\ memory' \in [Frames -> Contents]
        /\ allocated' = allocated \cup {d} /\ end' = end
    BY <2>1, CloneKeeps
  <2> QED
    BY <1>a, <1>t, <2>1, <2>2
<1>u. ASSUME UNCHANGED <<frames, made, tables, dirs>> PROVE Kept'
  BY <1>k, <1>u DEF Kept, FrameHasOneOwner, Mapped
<1>3. ASSUME NEW d \in Dirs, switch_page_directory(d) PROVE FInv'
  <2>1. Kept'
    BY <1>3, <1>u DEF switch_page_directory
  <2> QED
    BY <1>3, <1>a, <1>t, <2>1 DEF switch_page_directory
<1>4. ASSUME NEW d \in Dirs, NEW new \in Dirs, exit_task(d, new) PROVE FInv'
  <2>1. Kept'
    BY <1>4, <1>u DEF exit_task
  <2> QED
    BY <1>4, <1>a, <1>t, <2>1 DEF exit_task
<1>c. current_directory \in Dirs
  BY <1>t
<1>5. CASE move_stack
  <2>1. StackPages \in SUBSET Int
    BY SizesAssumption DEF StackPages
  <2>2. Kept'
    BY <1>5, <1>c, <2>1, MapPagesKeeps DEF move_stack
  <2> QED
    BY <1>5, <1>a, <1>t, <2>2 DEF move_stack
<1>6. ASSUME NEW n \in 1 .. TABLE, expand(n) PROVE FInv'
  <2>0. end \in Int /\ n \in Int /\ end + n \in HEAP .. MAX
    BY <1>6, <1>t, SizesAssumption DEF expand
  <2>1. end .. end + n - 1 \in SUBSET Int
    BY <2>0
  <2>2. MapPages(current_directory, end .. end + n - 1)
    BY <1>6 DEF expand
  <2>3. Kept'
    BY <1>c, <2>1, <2>2, MapPagesKeeps
  <2>4. /\ UNCHANGED <<allocated, current_directory, memory>> /\ end' = end + n
    BY <1>6 DEF expand
  <2> QED
    BY <1>a, <1>t, <2>0, <2>3, <2>4
<1>7. ASSUME NEW v \in Writable, NEW c \in Contents, write(v, c) PROVE FInv'
  <2>1. Kept'
    BY <1>7, <1>u DEF write
  <2>2. memory' \in [Frames -> Contents]
    BY <1>7, <1>t DEF write
  <2> QED
    BY <1>7, <1>a, <1>t, <2>1, <2>2 DEF write
<1>8. CASE UNCHANGED vars
  <2>1. Kept'
    BY <1>8, <1>u DEF vars
  <2> QED
    BY <1>8, <1>a, <1>t, <2>1 DEF vars
<1> QED
  BY <1>1, <1>2, <1>3, <1>4, <1>5, <1>6, <1>7, <1>8 DEF Next

\* The one step that may leave the processor in a freed directory: an exit after
\* which a task without a directory goes on.
StaysInFreed == "stay" \in Permitted /\ exit_task(current_directory, current_directory)
StaysAlive ==
    \/ current_directory' \in allocated'
    \/ current_directory \notin allocated /\ UNCHANGED current_directory
    \/ StaysInFreed

LEMMA DirectoryStays == [Next]_vars => StaysAlive
<1> SUFFICES ASSUME [Next]_vars, ~StaysInFreed,
                    ~(current_directory \notin allocated /\ UNCHANGED current_directory)
             PROVE  current_directory' \in allocated'
  BY DEF StaysAlive
<1>1. ASSUME NEW d \in Dirs, initialise_paging(d) PROVE current_directory' \in allocated'
  BY <1>1 DEF initialise_paging, Clone
<1>2. ASSUME NEW d \in Dirs, clone_directory(d) PROVE current_directory' \in allocated'
  BY <1>2 DEF clone_directory, Clone
<1>3. ASSUME NEW d \in Dirs, switch_page_directory(d) PROVE current_directory' \in allocated'
  BY <1>3 DEF switch_page_directory
<1>4. ASSUME NEW d \in Dirs, NEW new \in Dirs, exit_task(d, new)
      PROVE  current_directory' \in allocated'
  BY <1>4 DEF exit_task, StaysInFreed
<1>5. ASSUME UNCHANGED <<allocated, current_directory>>
      PROVE  current_directory' \in allocated'
  BY <1>5
<1>6. CASE move_stack
  BY <1>5, <1>6 DEF move_stack
<1>7. ASSUME NEW n \in 1 .. TABLE, expand(n) PROVE current_directory' \in allocated'
  BY <1>5, <1>7 DEF expand
<1>8. ASSUME NEW v \in Writable, NEW c \in Contents, write(v, c)
      PROVE  current_directory' \in allocated'
  BY <1>5, <1>8 DEF write
<1>9. CASE UNCHANGED vars
  BY <1>5, <1>9 DEF vars
<1> QED
  BY <1>1, <1>2, <1>3, <1>4, <1>6, <1>7, <1>8, <1>9 DEF Next

LEMMA Preserved == Supported /\ IInv /\ [Next]_vars => IInv'
<1> SUFFICES ASSUME Supported, IInv, [Next]_vars PROVE IInv'
  OBVIOUS
<1>1. FInv /\ current_directory \in allocated
  BY TypeOKIsTyped DEF IInv, FInv
<1>2. FInv'
  BY <1>1, FPreserved DEF Supported
<1>3. current_directory' \in allocated'
  BY <1>1, DirectoryStays DEF StaysAlive, StaysInFreed, Supported
<1> QED
  BY <1>2, <1>3 DEF IInv, FInv, TypeOK, Typed

\* Pointers, entries and the bitset keep their types wherever a task exits into.  The
\* processor gets into a freed directory only by an exit after which a task without a
\* directory of its own goes on, and out of it with the next switch; where each
\* task has one, the current directory is always live (exit_task, task.c).
THEOREM TypeCorrect ==
    ASSUME NeverFull
    PROVE  Spec => /\ []Typed
                   /\ [][StaysAlive]_vars
                   /\ ("stay" \notin Permitted => []TypeOK)
<1>1. FInv /\ [Next]_vars => FInv'
  BY FPreserved
<1>2. [Next]_vars => [StaysAlive]_vars
  BY DirectoryStays
<1>3. Init => IInv
  BY Initially
<1>4. IInv => FInv /\ TypeOK
  BY TypeOKIsTyped DEF IInv, FInv
<1>5. FInv => Typed
  BY DEF FInv
<1>6. Spec => []Typed /\ [][StaysAlive]_vars
  BY <1>1, <1>2, <1>3, <1>4, <1>5, PTL DEF Spec
<1>7. CASE "stay" \in Permitted
  BY <1>6, <1>7
<1>8. CASE "stay" \notin Permitted
  <2>1. IInv /\ [Next]_vars => IInv'
    BY <1>8, Preserved DEF Supported
  <2>2. Spec => []TypeOK
    BY <2>1, <1>3, <1>4, PTL DEF Spec
  <2> QED
    BY <1>6, <2>2
<1> QED
  BY <1>7, <1>8

\* Whatever is cloned, freed and grown in whichever directory, a freed one that a
\* task goes on in included, no frame is mapped twice (alloc_frame, clone_table,
\* paging.c).
THEOREM OneOwner ==
    ASSUME NeverFull PROVE Spec => []FrameHasOneOwner
<1>1. FInv /\ [Next]_vars => FInv'
  BY FPreserved
<1>2. Init => FInv
  BY Initially, TypeOKIsTyped DEF IInv, FInv
<1>3. FInv => FrameHasOneOwner
  BY DEF FInv
<1> QED
  BY <1>1, <1>2, <1>3, PTL DEF Spec

-----------------------------------------------------------------------------
(* All directories share the kernel's tables.                              *)

KernelPages == 0 .. KERNEL - 1 \cup HEAP .. end - 1

\* A directory has the kernel's tables, and from the heap on no others.
SharedTables ==
    \A d \in allocated, i \in Indices :
       /\ dirs[kernel_directory][i] # NULL => dirs[d][i] = dirs[kernel_directory][i]
       /\ i >= Index(HEAP) /\ dirs[d][i] # NULL => dirs[kernel_directory][i] # NULL

PresentIfFrame ==
    \A t \in Tables, o \in Offsets : tables[t][o].frame # 0 => tables[t][o].present = 1

KernelMapped == \A v \in KernelPages : Lookup(kernel_directory, v).present = 1

KInv ==
    /\ kernel_directory \in allocated
    /\ SharedTables /\ PresentIfFrame /\ KernelMapped

\* A later page has no earlier table.
LEMMA IndexMonotonic ==
    ASSUME NEW v \in Nat, NEW w \in Nat, v <= w PROVE Index(v) <= Index(w)
<1>1. TABLE \in Nat \ {0}
  BY SizesAssumption
<1>2. PICK x \in Int : x = v \div TABLE
  BY <1>1
<1>3. PICK y \in Int : y = w \div TABLE
  BY <1>1
<1>4. TABLE * x <= v /\ w < TABLE * y + TABLE
  BY <1>1, <1>2, <1>3
<1>5. ASSUME y < x PROVE FALSE
  <2>1. TABLE * (y + 1) <= TABLE * x
    BY <1>1, <1>5
  <2>2. TABLE * (y + 1) = TABLE * y + TABLE
    BY <1>1
  <2> QED
    BY <1>1, <1>4, <2>1, <2>2
<1> QED
  BY <1>2, <1>3, <1>5 DEF Index

\* Pages below MAX have an index in range, and an offset.
LEMMA PageSlot ==
    ASSUME NEW v \in Pages PROVE Index(v) \in Indices /\ v % TABLE \in Offsets
<1>1. v \in Nat /\ MAX - 1 \in Nat /\ v <= MAX - 1
  BY SizesAssumption DEF Pages
<1>2. Index(v) <= Index(MAX - 1)
  BY <1>1, IndexMonotonic
<1>3. Index(v) \in Nat /\ Index(MAX - 1) \in Nat
  BY <1>1, SizesAssumption DEF Index
<1>4. v % TABLE \in Offsets
  BY <1>1, SizesAssumption
<1> QED
  BY <1>2, <1>3, <1>4 DEF Indices

\* Filling tables makes pages present and no page absent.
LEMMA FilledPresent ==
    ASSUME NEW dir, NEW got, tables' = Filled(dir, got)
    PROVE  /\ \A t \in Tables, o \in Offsets :
                tables[t][o].present = 1 => tables'[t][o].present = 1
           /\ PresentIfFrame => PresentIfFrame'
           /\ \A v \in DOMAIN got :
                dir[Index(v)] \in Tables /\ v % TABLE \in Offsets =>
                  tables'[dir[Index(v)]][v % TABLE].present = 1
<1>1. ASSUME NEW t \in Tables, NEW o \in Offsets
      PROVE  /\ (\E v \in DOMAIN got : dir[Index(v)] = t /\ v % TABLE = o) =>
                   tables'[t][o].present = 1
             /\ \/ tables'[t][o].present = 1
                \/ tables'[t][o] = tables[t][o]
  <2> DEFINE Hit == \E v \in DOMAIN got : dir[Index(v)] = t /\ v % TABLE = o
             New == got[CHOOSE v \in DOMAIN got : dir[Index(v)] = t /\ v % TABLE = o]
  <2>1. tables'[t][o] = IF Hit THEN [present |-> 1, frame |-> New] ELSE tables[t][o]
    BY DEF Filled
  <2> HIDE DEF New
  <2> QED
    BY <2>1
<1> QED
  BY <1>1 DEF PresentIfFrame

LEMMA KInitially == Init => KInv
<1> SUFFICES ASSUME Init PROVE KInv
  OBVIOUS
<1>1. kernel_directory \in allocated
  BY DEF Init
<1>2. SharedTables
  BY DEF Init, SharedTables
<1>3. ASSUME NEW t \in Tables, NEW o \in Offsets
      PROVE  /\ (\E v \in BootPages : BootTable[Index(v)] = t /\ v % TABLE = o) =>
                   tables[t][o].present = 1
             /\ tables[t][o] = Zero \/ tables[t][o].present = 1
  <2> DEFINE Hit == \E v \in BootPages : BootTable[Index(v)] = t /\ v % TABLE = o
             New == BootFrame(CHOOSE v \in BootPages :
                                 BootTable[Index(v)] = t /\ v % TABLE = o)
  <2>1. tables[t][o] = IF Hit THEN [present |-> 1, frame |-> New] ELSE Zero
    BY DEF Init
  <2> HIDE DEF New
  <2> QED
    BY <2>1
<1>4. PresentIfFrame
  BY <1>3 DEF PresentIfFrame, Zero
<1>5. KernelMapped
  <2> SUFFICES ASSUME NEW v \in BootPages
               PROVE  Lookup(kernel_directory, v).present = 1
    BY DEF KernelMapped, KernelPages, BootPages, Init
  <2>1. BootTable \in [{Index(w) : w \in BootPages} -> Tables]
    BY BootAssumption DEF BootTable, Lowest
  <2>2. Index(v) \in DOMAIN BootTable /\ BootTable[Index(v)] \in Tables
    BY <2>1
  <2>3. v \in Pages
    BY SizesAssumption DEF BootPages, Pages
  <2>4. Index(v) \in Indices /\ v % TABLE \in Offsets
    BY <2>3, PageSlot
  <2>5. dirs[kernel_directory][Index(v)] = BootTable[Index(v)]
    BY <2>2, <2>4, DirsAssumption DEF Init
  <2>6. tables[BootTable[Index(v)]][v % TABLE].present = 1
    BY <1>3, <2>2, <2>4
  <2>7. BootTable[Index(v)] # NULL
    BY <2>2, NullAssumption
  <2> QED
    BY <2>5, <2>6, <2>7 DEF Lookup
<1> QED
  BY <1>1, <1>2, <1>4, <1>5 DEF KInv

\* The kernel's pages stay where they are when tables are only filled and the
\* kernel directory keeps its pointers.
LEMMA StaysMapped ==
    ASSUME TypeOK, KInv,
           \A t \in Tables, o \in Offsets :
              tables[t][o].present = 1 => tables'[t][o].present = 1,
           \A i \in Indices : dirs[kernel_directory][i] # NULL =>
              dirs'[kernel_directory][i] = dirs[kernel_directory][i]
    PROVE  \A v \in KernelPages : Lookup(kernel_directory, v)'.present = 1
<1> SUFFICES ASSUME NEW v \in KernelPages
             PROVE  Lookup(kernel_directory, v)'.present = 1
  OBVIOUS
<1> DEFINE t == dirs[kernel_directory][Index(v)]
<1>1. v \in Pages
  BY SizesAssumption DEF KernelPages, Pages, TypeOK
<1>2. Index(v) \in Indices /\ v % TABLE \in Offsets
  BY <1>1, PageSlot
<1>3. Lookup(kernel_directory, v).present = 1
  BY DEF KInv, KernelMapped
<1>4. t # NULL
  BY <1>3 DEF Lookup, Zero
<1>5. t \in Tables
  <2>1. made \subseteq Tables /\ dirs \in [Dirs -> [Indices -> made \cup {NULL}]]
    BY DEF TypeOK
  <2>2. t \in made \cup {NULL}
    BY <1>2, <2>1, DirsAssumption
  <2> QED
    BY <1>4, <2>1, <2>2
<1>6. tables[t][v % TABLE].present = 1
  BY <1>3, <1>4 DEF Lookup
<1>7. tables'[t][v % TABLE].present = 1
  BY <1>2, <1>5, <1>6
<1>8. dirs'[kernel_directory][Index(v)] = t
  BY <1>2, <1>4
<1> HIDE DEF t
<1> QED
  BY <1>4, <1>7, <1>8 DEF Lookup

\* What move_stack and expand do to the tables and the running task's directory.
LEMMA MapPagesShape ==
    ASSUME TypeOK, PresentIfFrame, Supported,
           NEW d \in Dirs, NEW pages \in SUBSET Pages, MapPages(d, pages)
    PROVE  /\ \A t \in Tables, o \in Offsets :
                tables[t][o].present = 1 => tables'[t][o].present = 1
           /\ PresentIfFrame'
           /\ \A e \in Dirs \ {d} : dirs'[e] = dirs[e]
           /\ \A i \in Indices : i \notin Missing(d, pages) => dirs'[d][i] = dirs[d][i]
           /\ \A v \in pages : dirs[d][Index(v)] # NULL =>
                tables'[dirs[d][Index(v)]][v % TABLE].present = 1
<1> DEFINE blank == {v \in pages : Lookup(d, v).frame = 0}
           missing == Missing(d, pages)
<1>1. PICK ids \in NewTables(missing), got \in first_frame(blank) :
        LET dir == [i \in Indices |-> IF i \in DOMAIN ids THEN ids[i] ELSE dirs[d][i]]
        IN  /\ dirs' = [dirs EXCEPT ![d] = dir]
            /\ made' = made \cup Range(ids)
            /\ tables' = Filled(dir, got)
            /\ frames' = set_frame(Range(got))
  BY Zenon DEF MapPages
<1> DEFINE dir == [i \in Indices |-> IF i \in DOMAIN ids THEN ids[i] ELSE dirs[d][i]]
<1>2. dirs' = [dirs EXCEPT ![d] = dir] /\ tables' = Filled(dir, got)
  BY <1>1, Zenon
<1>3. DOMAIN ids = missing
  BY DEF NewTables, Lowest
<1>4. DOMAIN got = blank
  <2>1. blank \in SUBSET Int
    <3>1. pages \in SUBSET Int
      BY SizesAssumption DEF Pages
    <3> QED
      BY <3>1
  <2>2. got \in [blank -> Frames \ frames]
    <3> HIDE DEF blank
    <3> QED
      BY <2>1, FirstFrameGives DEF Supported
  <2> QED
    BY <2>2
<1>5. DOMAIN dirs = Dirs
  BY DEF TypeOK
<1>6. \A e \in Dirs \ {d} : dirs'[e] = dirs[e]
  BY <1>2, <1>5
<1>7. dirs'[d] = dir
  BY <1>2, <1>5
<1>8. \A i \in Indices : i \notin missing => dir[i] = dirs[d][i]
  <2> HIDE DEF missing
  <2> QED
    BY <1>3
<1>9. \A i \in Indices : i \notin missing => dirs'[d][i] = dirs[d][i]
  BY <1>7, <1>8
<1> HIDE DEF dir
<1>10. /\ \A t \in Tables, o \in Offsets :
            tables[t][o].present = 1 => tables'[t][o].present = 1
       /\ PresentIfFrame'
  BY <1>2, FilledPresent
<1>11. ASSUME NEW v \in pages, dirs[d][Index(v)] # NULL
       PROVE  tables'[dirs[d][Index(v)]][v % TABLE].present = 1
  <2>1. Index(v) \in Indices /\ v % TABLE \in Offsets
    BY PageSlot
  <2>2. dirs[d][Index(v)] \in Tables
    <3>1. dirs \in [Dirs -> [Indices -> made \cup {NULL}]] /\ made \subseteq Tables
      BY DEF TypeOK
    <3>2. dirs[d][Index(v)] \in made
      BY <1>11, <2>1, <3>1
    <3> QED
      BY <3>1, <3>2
  <2>3. CASE v \in blank
    <3>1. Index(v) \notin missing
      BY <1>11 DEF Missing
    <3>2. dir[Index(v)] = dirs[d][Index(v)]
      BY <1>8, <2>1, <3>1
    <3> HIDE DEF blank
    <3> QED
      BY <1>2, <1>4, <2>1, <2>2, <2>3, <3>2, FilledPresent
  <2>4. CASE v \notin blank
    <3>1. Lookup(d, v).frame # 0
      BY <2>4
    <3>2. tables[dirs[d][Index(v)]][v % TABLE].frame # 0
      BY <1>11, <3>1 DEF Lookup
    <3>3. tables[dirs[d][Index(v)]][v % TABLE].present = 1
      BY <2>1, <2>2, <3>2 DEF PresentIfFrame
    <3> QED
      BY <1>10, <2>1, <2>2, <3>3
  <2> QED
    BY <2>3, <2>4
<1> QED
  BY <1>6, <1>9, <1>10, <1>11

LEMMA StackKeepsKernel ==
    ASSUME TypeOK, KInv, Supported, move_stack PROVE KInv'
<1> DEFINE c == current_directory
<1>1. StackPages \in SUBSET Pages /\ \A v \in StackPages : v \in Nat /\ v <= STACK
  BY SizesAssumption DEF StackPages, Pages
<1>2. c \in Dirs /\ c \in allocated /\ c # kernel_directory
  BY DEF TypeOK, move_stack
<1>3. MapPages(c, StackPages) /\ allocated' = allocated /\ end' = end
  BY DEF move_stack
<1>4. PresentIfFrame
  BY DEF KInv
<1>5. /\ \A t \in Tables, o \in Offsets :
           tables[t][o].present = 1 => tables'[t][o].present = 1
      /\ PresentIfFrame'
      /\ \A e \in Dirs \ {c} : dirs'[e] = dirs[e]
      /\ \A i \in Indices : i \notin Missing(c, StackPages) => dirs'[c][i] = dirs[c][i]
  BY <1>1, <1>2, <1>3, <1>4, MapPagesShape
<1>6. dirs'[kernel_directory] = dirs[kernel_directory]
  BY <1>2, <1>5, DirsAssumption
<1>7. \A i \in Missing(c, StackPages) : dirs[c][i] = NULL /\ i < Index(HEAP)
  <2>1. ASSUME NEW v \in StackPages PROVE Index(v) < Index(HEAP)
    <3>1. Index(v) <= Index(STACK)
      BY <1>1, SizesAssumption, IndexMonotonic
    <3>2. Index(v) \in Int /\ Index(STACK) \in Int /\ Index(HEAP) \in Int
      BY <1>1, SizesAssumption DEF Index
    <3> QED
      BY <3>1, <3>2, LayoutAssumption
  <2> QED
    BY <2>1 DEF Missing
<1>8. SharedTables'
  <2> SUFFICES ASSUME NEW d \in allocated, NEW i \in Indices
               PROVE  /\ dirs[kernel_directory][i] # NULL =>
                           dirs'[d][i] = dirs[kernel_directory][i]
                      /\ i >= Index(HEAP) /\ dirs'[d][i] # NULL =>
                           dirs[kernel_directory][i] # NULL
    BY <1>3, <1>6 DEF SharedTables
  <2>1. /\ dirs[kernel_directory][i] # NULL => dirs[d][i] = dirs[kernel_directory][i]
        /\ i >= Index(HEAP) /\ dirs[d][i] # NULL => dirs[kernel_directory][i] # NULL
    BY DEF KInv, SharedTables
  <2>2. CASE dirs'[d][i] = dirs[d][i]
    BY <2>1, <2>2
  <2>3. CASE dirs'[d][i] # dirs[d][i]
    <3>1. d = c
      BY <1>5, <2>3 DEF TypeOK
    <3>2. i \in Missing(c, StackPages)
      BY <1>5, <2>3, <3>1
    <3>3. dirs[d][i] = NULL /\ i < Index(HEAP)
      BY <1>7, <3>1, <3>2
    <3>4. ~(i >= Index(HEAP))
      BY <3>3, SizesAssumption DEF Indices, Index
    <3> QED
      BY <2>1, <3>3, <3>4
  <2> QED
    BY <2>2, <2>3
<1>9. \A v \in KernelPages : Lookup(kernel_directory, v)'.present = 1
  BY <1>5, <1>6, StaysMapped
<1>10. KernelMapped'
  BY <1>3, <1>9 DEF KernelMapped, KernelPages, Lookup
<1> QED
  BY <1>3, <1>5, <1>8, <1>10 DEF KInv

LEMMA ExpandKeepsKernel ==
    ASSUME TypeOK, KInv, Supported, "new_table" \notin Permitted,
           NEW n \in 1 .. TABLE, expand(n)
    PROVE  KInv'
<1> DEFINE c == current_directory
           pages == end .. end + n - 1
<1>0. /\ end \in Nat /\ n \in Nat /\ end + n <= MAX /\ end >= HEAP
      /\ HEAP \in Nat /\ TABLE \in Nat /\ MAX \in Nat
  BY SizesAssumption DEF TypeOK, expand
<1>1. pages \in SUBSET Pages
  BY <1>0 DEF Pages
<1>2. c \in Dirs /\ c \in allocated
  BY DEF TypeOK
<1>3. /\ MapPages(c, pages) /\ Missing(c, pages) = {}
      /\ allocated' = allocated /\ end' = end + n
  BY DEF expand
<1>4. PresentIfFrame
  BY DEF KInv
<1> HIDE DEF pages
<1>5. /\ \A t \in Tables, o \in Offsets :
           tables[t][o].present = 1 => tables'[t][o].present = 1
      /\ PresentIfFrame'
      /\ \A e \in Dirs \ {c} : dirs'[e] = dirs[e]
      /\ \A i \in Indices : i \notin Missing(c, pages) => dirs'[c][i] = dirs[c][i]
      /\ \A v \in pages : dirs[c][Index(v)] # NULL =>
           tables'[dirs[c][Index(v)]][v % TABLE].present = 1
  BY <1>1, <1>2, <1>3, <1>4, MapPagesShape
<1>6. \A d \in Dirs, i \in Indices : dirs'[d][i] = dirs[d][i]
  BY <1>3, <1>5
<1>7. SharedTables'
  BY <1>3, <1>6, DirsAssumption DEF KInv, SharedTables, TypeOK
<1>8. \A v \in KernelPages : Lookup(kernel_directory, v)'.present = 1
  BY <1>5, <1>6, StaysMapped, DirsAssumption
<1>9. ASSUME NEW v \in pages PROVE Lookup(kernel_directory, v)'.present = 1
  <2>1. v \in Nat /\ HEAP <= v
    BY <1>0 DEF pages
  <2>2. Index(v) \in Indices
    BY <1>1, PageSlot
  <2>3. Index(v) >= Index(HEAP)
    <3>1. Index(HEAP) <= Index(v)
      BY <1>0, <2>1, IndexMonotonic
    <3>2. Index(v) \in Int /\ Index(HEAP) \in Int
      BY <2>1, SizesAssumption DEF Index
    <3> QED
      BY <3>1, <3>2
  <2>4. dirs[c][Index(v)] # NULL
    BY <1>3 DEF Missing
  <2>5. dirs[kernel_directory][Index(v)] = dirs[c][Index(v)]
    BY <1>2, <2>2, <2>3, <2>4 DEF KInv, SharedTables
  <2>6. dirs'[kernel_directory][Index(v)] = dirs[c][Index(v)]
    BY <1>6, <2>2, <2>5, DirsAssumption
  <2>7. tables'[dirs[c][Index(v)]][v % TABLE].present = 1
    BY <1>5, <2>4
  <2> QED
    BY <2>4, <2>6, <2>7 DEF Lookup
<1>10. KernelMapped'
  <2>1. KernelPages' \subseteq KernelPages \cup pages
    BY <1>0, <1>3, SizesAssumption DEF KernelPages, pages
  <2>2. ASSUME NEW v \in KernelPages' PROVE Lookup(kernel_directory, v)'.present = 1
    BY <1>8, <1>9, <2>1
  <2> QED
    BY <2>2 DEF KernelMapped
<1> QED
  BY <1>3, <1>5, <1>7, <1>10 DEF KInv

LEMMA CloneKeepsKernel ==
    ASSUME TypeOK, KInv, Supported, NEW d \in Dirs, Clone(d) PROVE KInv'
<1> DEFINE src == dirs[current_directory]
           private == {i \in Indices : src[i] # NULL /\ ~Shared(i)}
           used == {v \in Pages : /\ Index(v) \in private
                                  /\ Lookup(current_directory, v).frame # 0}
<1>1. PICK ids \in NewTables(private), got \in first_frame(used) :
        LET dir == [i \in Indices |-> IF i \in private THEN ids[i] ELSE src[i]]
        IN  /\ dirs' = [dirs EXCEPT ![d] = dir]
            /\ made' = made \cup Range(ids)
            /\ tables' = Filled(dir, got)
            /\ frames' = set_frame(Range(got))
            /\ memory' = Copied(got)
  BY Zenon DEF Clone
<1> DEFINE dir == [i \in Indices |-> IF i \in private THEN ids[i] ELSE src[i]]
<1>2. dirs' = [dirs EXCEPT ![d] = dir] /\ tables' = Filled(dir, got)
  BY <1>1, Zenon
<1>3. /\ d \notin allocated /\ allocated' = allocated \cup {d} /\ end' = end
      /\ d # kernel_directory
  BY DEF Clone, KInv
<1>4. /\ \A e \in Dirs \ {d} : dirs'[e] = dirs[e]
      /\ dirs'[d] = dir
  BY <1>2 DEF TypeOK
<1>5. current_directory \in allocated /\ allocated \subseteq Dirs
  BY DEF TypeOK
<1>6. \A i \in private : dirs[kernel_directory][i] = NULL /\ ~(i >= Index(HEAP))
  BY <1>5 DEF KInv, SharedTables, Shared
<1>7. SharedTables'
  <2>1. dirs'[kernel_directory] = dirs[kernel_directory]
    BY <1>3, <1>4, DirsAssumption
  <2>2. ASSUME NEW e \in allocated', NEW i \in Indices
        PROVE  /\ dirs[kernel_directory][i] # NULL =>
                    dirs'[e][i] = dirs[kernel_directory][i]
               /\ i >= Index(HEAP) /\ dirs'[e][i] # NULL =>
                    dirs[kernel_directory][i] # NULL
    <3>1. CASE e # d
      <4>1. e \in allocated /\ dirs'[e] = dirs[e]
        BY <1>3, <1>4, <1>5, <2>2, <3>1
      <4> QED
        BY <4>1 DEF KInv, SharedTables
    <3>2. CASE e = d /\ i \in private
      BY <1>6, <3>2
    <3>3. CASE e = d /\ i \notin private
      <4>1. dirs'[d][i] = src[i]
        BY <1>4, <3>3
      <4>2. /\ dirs[kernel_directory][i] # NULL => src[i] = dirs[kernel_directory][i]
            /\ i >= Index(HEAP) /\ src[i] # NULL => dirs[kernel_directory][i] # NULL
        BY <1>5 DEF KInv, SharedTables
      <4> HIDE DEF src, private
      <4> QED
        BY <3>3, <4>1, <4>2
    <3> QED
      BY <3>1, <3>2, <3>3
  <2> QED
    BY <2>1, <2>2 DEF SharedTables
<1> HIDE DEF dir
<1>8. /\ \A t \in Tables, o \in Offsets :
           tables[t][o].present = 1 => tables'[t][o].present = 1
      /\ PresentIfFrame'
  BY <1>2, FilledPresent DEF KInv
<1>9. \A v \in KernelPages : Lookup(kernel_directory, v)'.present = 1
  BY <1>3, <1>4, <1>8, StaysMapped, DirsAssumption
<1>10. KernelMapped'
  BY <1>3, <1>9 DEF KernelMapped, KernelPages, Lookup
<1> QED
  BY <1>3, <1>7, <1>8, <1>10 DEF KInv

LEMMA KPreserved ==
    ASSUME Supported, "new_table" \notin Permitted, IInv, KInv, [Next]_vars
    PROVE  KInv'
<1> USE DEF IInv
<1>u. ASSUME UNCHANGED <<tables, dirs, end>>, allocated' \subseteq allocated,
             kernel_directory \in allocated'
      PROVE  KInv'
  <2>1. SharedTables' /\ PresentIfFrame'
    BY <1>u DEF KInv, SharedTables, PresentIfFrame
  <2>2. KernelMapped'
    BY <1>u DEF KInv, KernelMapped, KernelPages, Lookup
  <2> QED
    BY <1>u, <2>1, <2>2 DEF KInv
<1>1. ASSUME NEW d \in Dirs, initialise_paging(d) PROVE KInv'
  BY <1>1, CloneKeepsKernel DEF initialise_paging
<1>2. ASSUME NEW d \in Dirs, clone_directory(d) PROVE KInv'
  BY <1>2, CloneKeepsKernel DEF clone_directory
<1>3. ASSUME NEW d \in Dirs, switch_page_directory(d) PROVE KInv'
  BY <1>3, <1>u DEF switch_page_directory, KInv
<1>4. ASSUME NEW d \in Dirs, NEW new \in Dirs, exit_task(d, new) PROVE KInv'
  BY <1>4, <1>u DEF exit_task, KInv
<1>5. CASE move_stack
  BY <1>5, StackKeepsKernel
<1>6. ASSUME NEW n \in 1 .. TABLE, expand(n) PROVE KInv'
  BY <1>6, ExpandKeepsKernel
<1>7. ASSUME NEW v \in Writable, NEW c \in Contents, write(v, c) PROVE KInv'
  BY <1>7, <1>u DEF write, KInv
<1>8. CASE UNCHANGED vars
  BY <1>8, <1>u DEF vars, KInv
<1> QED
  BY <1>1, <1>2, <1>3, <1>4, <1>5, <1>6, <1>7, <1>8 DEF Next

\* Whichever task is running when the heap grows inside its page tables, every
\* directory shows all of it, and the kernel (expand, clone_directory).
THEOREM KernelShared ==
    ASSUME Supported, "new_table" \notin Permitted
    PROVE  Spec => []KernelIsShared
<1>1. IInv /\ KInv /\ [Next]_vars => IInv' /\ KInv'
  BY Preserved, KPreserved
<1>2. Init => IInv /\ KInv
  BY Initially, KInitially
<1>3. IInv /\ KInv => KernelIsShared
  <2> SUFFICES ASSUME IInv, KInv, NEW d \in allocated, NEW v \in KernelPages
               PROVE  /\ Lookup(d, v).present = 1
                      /\ Lookup(d, v) = Lookup(kernel_directory, v)
    BY DEF KernelIsShared, KernelPages
  <2>1. Lookup(kernel_directory, v).present = 1
    BY DEF KInv, KernelMapped
  <2>2. dirs[kernel_directory][Index(v)] # NULL
    BY <2>1 DEF Lookup, Zero
  <2>3. v \in Pages
    BY SizesAssumption DEF KernelPages, Pages, IInv, TypeOK
  <2>4. dirs[d][Index(v)] = dirs[kernel_directory][Index(v)]
    BY <2>2, <2>3, PageSlot DEF KInv, SharedTables
  <2> QED
    BY <2>1, <2>4 DEF Lookup
<1> QED
  BY <1>1, <1>2, <1>3, PTL DEF Spec

-----------------------------------------------------------------------------
(* A clone is a copy, and stacks are private.                              *)

StackIndices == {Index(v) : v \in StackPages}

\* A table that is not allocated is empty (kmalloc_ap and memset in get_page).
UnmadeEmpty == \A t \in Tables \ made, o \in Offsets : tables[t][o] = Zero

\* Frame 0, which an entry without a frame seems to name, is the kernel's.
FirstTable == dirs[kernel_directory][Index(0)]
ZeroMapped ==
    /\ 0 \in frames
    /\ FirstTable # NULL
    /\ \A d \in allocated : dirs[d][Index(0)] = FirstTable
    /\ \A t \in Tables, o \in Offsets :
         Mapped(t, o) /\ tables[t][o].frame = 0 => t = FirstTable

\* A table stands at the same place in every directory that has it.
OneIndex ==
    \A d, e \in allocated, i, j \in Indices :
       dirs[d][i] # NULL /\ dirs[d][i] = dirs[e][j] => i = j

\* No two directories have a table for the stack in common, the kernel's has none,
\* and a directory without one for its top has none for the rest.
OwnStacks ==
    /\ \A j \in StackIndices : dirs[kernel_directory][j] = NULL
    /\ \A d, e \in allocated, j \in StackIndices :
         dirs[d][j] # NULL /\ dirs[d][j] = dirs[e][j] => d = e
    /\ \A d \in allocated, j \in StackIndices :
         dirs[d][Index(STACK)] = NULL => dirs[d][j] = NULL

Private ==
    /\ kernel_directory \in allocated
    /\ PresentIfFrame /\ UnmadeEmpty /\ ZeroMapped /\ OneIndex /\ OwnStacks

\* What MapPages and Clone have in common: directory d gets the current one's
\* tables, but new ones at the indices "new", and the pages get the frames.
Allocates(d, new, ids, pages, got) ==
    /\ new \subseteq Indices \ {Index(0)} /\ pages \subseteq Pages
    /\ ids \in [new -> Tables \ made]
    /\ \A i, j \in new : ids[i] = ids[j] => i = j
    /\ got \in [pages -> Frames \ frames]
    /\ \A v, w \in pages : got[v] = got[w] => v = w
    /\ \A e \in Dirs \ {d} : dirs'[e] = dirs[e]
    /\ \A i \in new : dirs'[d][i] = ids[i]
    /\ \A i \in Indices \ new : dirs'[d][i] = dirs[current_directory][i]
    /\ made' = made \cup Range(ids)
    /\ tables' = Filled(dirs'[d], got)
    /\ frames' = frames \cup Range(got)

LEMMA ZeroIsAnIndex == 0 \in Pages /\ Index(0) \in Indices
<1>1. 0 \in Pages
  BY SizesAssumption DEF Pages
<1> QED
  BY <1>1, PageSlot

\* kmalloc_ap gives tables that were not in use, each of them once.
LEMMA NewTablesGive ==
    ASSUME NEW indices \in SUBSET Int, NEW ids \in NewTables(indices)
    PROVE  /\ ids \in [indices -> Tables \ made]
           /\ \A i, j \in indices : ids[i] = ids[j] => i = j
<1>1. ids \in [indices -> Tables \ made]
  BY DEF NewTables, Lowest
<1>2. \A i, j \in indices : i < j => ids[i] < ids[j]
  BY DEF NewTables, Lowest
<1>3. ASSUME NEW i \in indices, NEW j \in indices, ids[i] = ids[j] PROVE i = j
  <2>1. ids[i] \in Int /\ ids[j] \in Int /\ i \in Int /\ j \in Int
    BY <1>1
  <2>2. (i < j => ids[i] < ids[j]) /\ (j < i => ids[j] < ids[i])
    BY <1>2
  <2> QED
    BY <1>3, <2>1, <2>2
<1> QED
  BY <1>1, <1>3

\* The tables that a directory names are allocated.
LEMMA PointersMade ==
    ASSUME TypeOK, NEW d \in Dirs, NEW i \in Indices
    PROVE  /\ dirs[d][i] \in made \cup {NULL} /\ made \subseteq Tables
           /\ dirs[d][i] # NULL => dirs[d][i] \in Tables
BY DEF TypeOK

\* move_stack and expand (get_page, alloc_frame).
LEMMA MapPagesAllocates ==
    ASSUME TypeOK, Private, Supported,
           NEW pages \in SUBSET Pages, MapPages(current_directory, pages)
    PROVE  \E ids, got :
             Allocates(current_directory, Missing(current_directory, pages), ids,
                       {v \in pages : Lookup(current_directory, v).frame = 0}, got)
<1> DEFINE c == current_directory
           blank == {v \in pages : Lookup(c, v).frame = 0}
           missing == Missing(c, pages)
<1>1. PICK ids \in NewTables(missing), got \in first_frame(blank) :
        LET dir == [i \in Indices |-> IF i \in DOMAIN ids THEN ids[i] ELSE dirs[c][i]]
        IN  /\ dirs' = [dirs EXCEPT ![c] = dir]
            /\ made' = made \cup Range(ids)
            /\ tables' = Filled(dir, got)
            /\ frames' = set_frame(Range(got))
  BY Zenon DEF MapPages
<1> DEFINE dir == [i \in Indices |-> IF i \in DOMAIN ids THEN ids[i] ELSE dirs[c][i]]
<1>2. /\ dirs' = [dirs EXCEPT ![c] = dir]
      /\ made' = made \cup Range(ids)
      /\ tables' = Filled(dir, got)
      /\ frames' = frames \cup Range(got)
  BY <1>1, Zenon DEF set_frame
<1>3. Pages \subseteq Int /\ Indices \subseteq Int
  BY SizesAssumption DEF Pages, Indices, Index
<1>4. missing \subseteq Indices \ {Index(0)}
  <2>1. missing \subseteq Indices
    BY PageSlot DEF Missing
  <2>2. dirs[c][Index(0)] # NULL
    BY DEF Private, ZeroMapped, TypeOK
  <2> QED
    BY <2>1, <2>2 DEF Missing
<1>5. blank \subseteq Pages
  OBVIOUS
<1>6. /\ got \in [blank -> Frames \ frames]
      /\ \A v, w \in blank : got[v] = got[w] => v = w
  <2> HIDE DEF blank
  <2>1. blank \in SUBSET Int
    BY <1>3, <1>5
  <2> QED
    BY <2>1, FirstFrameGives DEF Supported
<1>7. /\ ids \in [missing -> Tables \ made]
      /\ \A i, j \in missing : ids[i] = ids[j] => i = j
  <2> HIDE DEF missing
  <2>1. missing \in SUBSET Int
    BY <1>3, <1>4
  <2> QED
    BY <2>1, NewTablesGive
<1>8. DOMAIN dirs = Dirs /\ c \in Dirs
  BY DEF TypeOK
<1>9. dirs'[c] = dir /\ \A e \in Dirs \ {c} : dirs'[e] = dirs[e]
  BY <1>2, <1>8
<1>10. /\ \A i \in missing : dirs'[c][i] = ids[i]
       /\ \A i \in Indices \ missing : dirs'[c][i] = dirs[c][i]
  <2>1. DOMAIN ids = missing
    BY <1>7
  <2> HIDE DEF missing
  <2> QED
    BY <1>4, <1>9, <2>1
<1> HIDE DEF dir, blank, missing
<1>11. tables' = Filled(dirs'[c], got)
  BY <1>2, <1>9
<1>12. Allocates(c, missing, ids, blank, got)
  BY <1>2, <1>4, <1>5, <1>6, <1>7, <1>9, <1>10, <1>11, Zenon DEF Allocates
<1> QED
  BY <1>12 DEF missing, blank

\* What clone_directory copies.
PrivateIndices ==
    {i \in Indices : dirs[current_directory][i] # NULL /\ ~Shared(i)}
PrivatePages ==
    {v \in Pages : /\ Index(v) \in PrivateIndices
                   /\ Lookup(current_directory, v).frame # 0}

LEMMA CloneAllocates ==
    ASSUME TypeOK, Private, Supported, NEW d \in Dirs, Clone(d)
    PROVE  \E ids, got : /\ Allocates(d, PrivateIndices, ids, PrivatePages, got)
                         /\ memory' = Copied(got)
<1> DEFINE c == current_directory
           dir(ids) == [i \in Indices |-> IF i \in PrivateIndices THEN ids[i] ELSE dirs[c][i]]
<1>1. PICK ids \in NewTables(PrivateIndices), got \in first_frame(PrivatePages) :
        /\ dirs' = [dirs EXCEPT ![d] = dir(ids)]
        /\ made' = made \cup Range(ids)
        /\ tables' = Filled(dir(ids), got)
        /\ frames' = set_frame(Range(got))
        /\ memory' = Copied(got)
  BY Zenon DEF Clone, PrivateIndices, PrivatePages
<1>2. frames' = frames \cup Range(got)
  BY <1>1 DEF set_frame
<1>3. Pages \subseteq Int /\ Indices \subseteq Int
  BY SizesAssumption DEF Pages, Indices, Index
<1>4. PrivateIndices \subseteq Indices \ {Index(0)}
  BY DEF PrivateIndices, Shared, Private, ZeroMapped, TypeOK, FirstTable
<1>5. PrivatePages \subseteq Pages
  BY DEF PrivatePages
<1>6. /\ got \in [PrivatePages -> Frames \ frames]
      /\ \A v, w \in PrivatePages : got[v] = got[w] => v = w
  <2>1. PrivatePages \in SUBSET Int
    BY <1>3, <1>5
  <2> QED
    BY <2>1, FirstFrameGives DEF Supported
<1>7. /\ ids \in [PrivateIndices -> Tables \ made]
      /\ \A i, j \in PrivateIndices : ids[i] = ids[j] => i = j
  <2>1. PrivateIndices \in SUBSET Int
    BY <1>3, <1>4
  <2> QED
    BY <2>1, NewTablesGive
<1>8. DOMAIN dirs = Dirs
  BY DEF TypeOK
<1>9. dirs'[d] = dir(ids) /\ \A e \in Dirs \ {d} : dirs'[e] = dirs[e]
  BY <1>1, <1>8
<1>10. /\ \A i \in PrivateIndices : dirs'[d][i] = ids[i]
       /\ \A i \in Indices \ PrivateIndices : dirs'[d][i] = dirs[c][i]
  BY <1>4, <1>9
<1> HIDE DEF dir
<1>11. tables' = Filled(dirs'[d], got)
  BY <1>1, <1>9
<1>12. Allocates(d, PrivateIndices, ids, PrivatePages, got)
  BY <1>1, <1>2, <1>4, <1>5, <1>6, <1>7, <1>9, <1>10, <1>11, Zenon DEF Allocates
<1> QED
  BY <1>1, <1>12

\* An entry is filled by one of the pages, or stays.
LEMMA FilledEntry ==
    ASSUME NEW dir, NEW got, tables' = Filled(dir, got)
    PROVE  \A t \in Tables, o \in Offsets :
             \/ /\ tables'[t][o] = tables[t][o]
                /\ \A v \in DOMAIN got : ~(dir[Index(v)] = t /\ v % TABLE = o)
             \/ \E v \in DOMAIN got :
                  /\ dir[Index(v)] = t /\ v % TABLE = o
                  /\ tables'[t][o] = [present |-> 1, frame |-> got[v]]
<1> SUFFICES ASSUME NEW t \in Tables, NEW o \in Offsets
             PROVE  \/ /\ tables'[t][o] = tables[t][o]
                       /\ \A v \in DOMAIN got : ~(dir[Index(v)] = t /\ v % TABLE = o)
                    \/ \E v \in DOMAIN got :
                         /\ dir[Index(v)] = t /\ v % TABLE = o
                         /\ tables'[t][o] = [present |-> 1, frame |-> got[v]]
  OBVIOUS
<1> DEFINE Slot(v) == dir[Index(v)] = t /\ v % TABLE = o
           Page == CHOOSE v \in DOMAIN got : dir[Index(v)] = t /\ v % TABLE = o
<1>1. tables'[t][o] = IF \E v \in DOMAIN got : Slot(v)
                        THEN [present |-> 1, frame |-> got[Page]] ELSE tables[t][o]
  BY DEF Filled
<1>2. (\E v \in DOMAIN got : Slot(v)) => Page \in DOMAIN got /\ Slot(Page)
  OBVIOUS
<1> HIDE DEF Page, Slot
<1>3. \/ /\ tables'[t][o] = tables[t][o]
         /\ \A v \in DOMAIN got : ~Slot(v)
      \/ \E v \in DOMAIN got :
           Slot(v) /\ tables'[t][o] = [present |-> 1, frame |-> got[v]]
  BY <1>1, <1>2
<1> QED
  BY <1>3 DEF Slot

\* The pointers after an allocation: those of before and the new tables.
LEMMA AllocatedPointers ==
    ASSUME TypeOK, Private, NEW d \in Dirs, d = current_directory \/ d \notin allocated,
           NEW new, NEW ids, NEW pages, NEW got, Allocates(d, new, ids, pages, got),
           allocated' \subseteq allocated \cup {d},
           NEW e \in allocated', NEW i \in Indices
    PROVE  \/ /\ e = d /\ i \in new /\ dirs'[e][i] = ids[i]
              /\ ids[i] \in Tables \ made /\ ids[i] \in made'
           \/ \E f \in allocated : /\ dirs'[e][i] = dirs[f][i]
                                   /\ e \in allocated => f = e
                                   /\ e \notin allocated => f = current_directory
<1>1. /\ new \subseteq Indices \ {Index(0)}
      /\ ids \in [new -> Tables \ made]
      /\ \A f \in Dirs \ {d} : dirs'[f] = dirs[f]
      /\ \A j \in new : dirs'[d][j] = ids[j]
      /\ \A j \in Indices \ new : dirs'[d][j] = dirs[current_directory][j]
      /\ made' = made \cup Range(ids)
  BY DEF Allocates
<1>2. current_directory \in allocated /\ allocated \subseteq Dirs
  BY DEF TypeOK
<1>3. CASE e # d
  BY <1>1, <1>2, <1>3
<1>4. CASE e = d /\ i \in new
  <2>1. ids[i] \in Range(ids) /\ ids[i] \in Tables \ made
    BY <1>1, <1>4 DEF Range
  <2> QED
    BY <1>1, <1>4, <2>1
<1>5. CASE e = d /\ i \notin new
  BY <1>1, <1>2, <1>5
<1> QED
  BY <1>3, <1>4, <1>5

LEMMA AllocatesKeeps ==
    ASSUME TypeOK, Private, NEW d \in Dirs, d = current_directory \/ d \notin allocated,
           NEW new, NEW ids, NEW pages, NEW got, Allocates(d, new, ids, pages, got),
           allocated' \subseteq allocated \cup {d}, kernel_directory \in allocated'
    PROVE  PresentIfFrame' /\ UnmadeEmpty' /\ ZeroMapped' /\ OneIndex'
<1>1. /\ new \subseteq Indices \ {Index(0)} /\ pages \subseteq Pages
      /\ ids \in [new -> Tables \ made]
      /\ \A i, j \in new : ids[i] = ids[j] => i = j
      /\ got \in [pages -> Frames \ frames]
      /\ made' = made \cup Range(ids)
      /\ tables' = Filled(dirs'[d], got)
      /\ frames' = frames \cup Range(got)
  BY DEF Allocates
<1>2. current_directory \in allocated /\ allocated \subseteq Dirs /\ made \subseteq Tables
  BY DEF TypeOK
<1>3. DOMAIN got = pages
  BY <1>1
<1>p. /\ PresentIfFrame /\ UnmadeEmpty /\ ZeroMapped /\ OneIndex
      /\ kernel_directory \in allocated
  BY DEF Private
<1>f. ASSUME NEW t \in Tables, NEW o \in Offsets
      PROVE  \/ tables'[t][o] = tables[t][o]
             \/ \E v \in pages : /\ dirs'[d][Index(v)] = t
                                /\ tables'[t][o] = [present |-> 1, frame |-> got[v]]
  <2>1. tables' = Filled(dirs'[d], got)
    BY <1>1
  <2>2. \/ tables'[t][o] = tables[t][o]
        \/ \E v \in DOMAIN got :
             /\ dirs'[d][Index(v)] = t /\ v % TABLE = o
             /\ tables'[t][o] = [present |-> 1, frame |-> got[v]]
    BY <2>1, FilledEntry
  <2> QED
    BY <1>3, <2>2
<1>4. PresentIfFrame'
  BY <1>1, <1>p, FilledPresent
<1>5. UnmadeEmpty'
  <2> SUFFICES ASSUME NEW t \in Tables, t \notin made', NEW o \in Offsets
               PROVE  tables'[t][o] = Zero
    BY DEF UnmadeEmpty, Zero
  <2>1. t \notin made
    BY <1>1
  <2>2. tables[t][o] = Zero
    BY <1>p, <2>1 DEF UnmadeEmpty
  <2>3. ASSUME NEW v \in pages PROVE dirs'[d][Index(v)] # t
    <3>1. Index(v) \in Indices
      BY <1>1, PageSlot
    <3>2. CASE Index(v) \in new
      <4>1. dirs'[d][Index(v)] = ids[Index(v)]
        BY <3>2 DEF Allocates
      <4>2. ids[Index(v)] \in made'
        BY <1>1, <3>2 DEF Range
      <4> QED
        BY <4>1, <4>2
    <3>3. CASE Index(v) \notin new
      <4>1. dirs'[d][Index(v)] = dirs[current_directory][Index(v)]
        BY <3>1, <3>3 DEF Allocates
      <4>2. dirs[current_directory][Index(v)] \in made \cup {NULL}
        BY <1>2, <3>1, PointersMade
      <4> QED
        BY <2>1, <4>1, <4>2, NullAssumption
    <3> QED
      BY <3>2, <3>3
  <2> QED
    BY <1>f, <2>2, <2>3
<1>6. FirstTable' = FirstTable /\ FirstTable # NULL
  <2>1. Index(0) \in Indices /\ Index(0) \notin new
    BY <1>1, ZeroIsAnIndex
  <2>2. PICK f \in allocated : dirs'[kernel_directory][Index(0)] = dirs[f][Index(0)]
    BY <2>1, AllocatedPointers
  <2> QED
    BY <1>p, <2>2 DEF ZeroMapped, FirstTable
<1>7. ZeroMapped'
  <2>1. 0 \in frames'
    BY <1>1, <1>p DEF ZeroMapped
  <2>2. ASSUME NEW e \in allocated' PROVE dirs'[e][Index(0)] = FirstTable'
    <3>1. Index(0) \in Indices /\ Index(0) \notin new
      BY <1>1, ZeroIsAnIndex
    <3>2. PICK f \in allocated : dirs'[e][Index(0)] = dirs[f][Index(0)]
      BY <3>1, AllocatedPointers
    <3> QED
      BY <1>6, <1>p, <3>2 DEF ZeroMapped
  <2>3. ASSUME NEW t \in Tables, NEW o \in Offsets, tables'[t][o].present = 1,
               tables'[t][o].frame = 0
        PROVE  t = FirstTable'
    <3>1. CASE tables'[t][o] = tables[t][o]
      BY <1>6, <1>p, <2>3, <3>1 DEF ZeroMapped, Mapped
    <3>2. CASE \E v \in pages : tables'[t][o] = [present |-> 1, frame |-> got[v]]
      <4>1. PICK v \in pages : tables'[t][o] = [present |-> 1, frame |-> got[v]]
        BY <3>2
      <4>2. got[v] \notin frames
        BY <1>1
      <4>3. tables'[t][o].frame = got[v]
        BY <4>1
      <4> QED
        BY <1>p, <2>3, <4>2, <4>3 DEF ZeroMapped
    <3> QED
      BY <1>f, <3>1, <3>2
  <2> QED
    BY <1>6, <2>1, <2>2, <2>3 DEF ZeroMapped, Mapped
<1>8. OneIndex'
  <2> SUFFICES ASSUME NEW e \in allocated', NEW f \in allocated',
                      NEW i \in Indices, NEW j \in Indices,
                      dirs'[e][i] # NULL, dirs'[e][i] = dirs'[f][j]
               PROVE  i = j
    BY DEF OneIndex
  <2>1. \/ i \in new /\ dirs'[e][i] = ids[i] /\ ids[i] \notin made
        \/ \E x \in allocated : dirs'[e][i] = dirs[x][i]
    BY AllocatedPointers
  <2>2. \/ j \in new /\ dirs'[f][j] = ids[j] /\ ids[j] \notin made
        \/ \E y \in allocated : dirs'[f][j] = dirs[y][j]
    BY AllocatedPointers
  <2>3. ASSUME NEW x \in allocated, NEW k \in Indices, dirs[x][k] # NULL
        PROVE  dirs[x][k] \in made
    BY <1>2, <2>3, PointersMade
  <2> QED
    BY <1>1, <1>p, <2>1, <2>2, <2>3 DEF OneIndex
<1> QED
  BY <1>4, <1>5, <1>7, <1>8

\* The stack's tables stand between the kernel's and the heap's.
LEMMA StackLayout ==
    /\ StackPages \subseteq Pages /\ Index(STACK) \in StackIndices
    /\ \A j \in StackIndices : /\ j \in Indices /\ j \in Int
                               /\ Index(KERNEL - 1) < j /\ j < Index(HEAP)
<1>1. /\ STACK \in Nat /\ STACK_SIZE \in Nat /\ HEAP \in Nat /\ MAX \in Nat
      /\ KERNEL \in Nat /\ TABLE \in Nat \ {0} /\ KERNEL >= 1 /\ STACK < MAX
      /\ STACK - STACK_SIZE \in Nat /\ KERNEL - 1 \in Nat
  BY SizesAssumption
<1>2. StackPages \subseteq Pages /\ STACK \in StackPages
  BY <1>1 DEF StackPages, Pages
<1>3. ASSUME NEW v \in StackPages
      PROVE  /\ Index(v) \in Indices /\ Index(v) \in Int
             /\ Index(KERNEL - 1) < Index(v) /\ Index(v) < Index(HEAP)
  <2>1. v \in Nat /\ STACK - STACK_SIZE <= v /\ v <= STACK
    BY <1>1 DEF StackPages
  <2>2. Index(STACK - STACK_SIZE) <= Index(v) /\ Index(v) <= Index(STACK)
    BY <1>1, <2>1, IndexMonotonic
  <2>3. /\ Index(v) \in Int /\ Index(STACK) \in Int /\ Index(STACK - STACK_SIZE) \in Int
        /\ Index(HEAP) \in Int /\ Index(KERNEL - 1) \in Int
    BY <1>1, <2>1 DEF Index
  <2>4. Index(v) \in Indices
    BY <1>2, PageSlot
  <2> QED
    BY <2>2, <2>3, <2>4, LayoutAssumption
<1> QED
  BY <1>2, <1>3 DEF StackIndices

LEMMA CloneKeepsPrivate ==
    ASSUME TypeOK, Private, Supported, NEW d \in Dirs, Clone(d) PROVE Private'
<1> DEFINE c == current_directory
<1>1. PICK ids, got : /\ Allocates(d, PrivateIndices, ids, PrivatePages, got)
                      /\ memory' = Copied(got)
  BY CloneAllocates
<1>2. /\ d \notin allocated /\ allocated' = allocated \cup {d}
      /\ kernel_directory \in allocated /\ c \in allocated /\ allocated \subseteq Dirs
  BY DEF Clone, Private, TypeOK
<1>3. PresentIfFrame' /\ UnmadeEmpty' /\ ZeroMapped' /\ OneIndex'
  BY <1>1, <1>2, AllocatesKeeps
<1>4. OwnStacks
  BY DEF Private
<1>5. ASSUME NEW j \in StackIndices
      PROVE  /\ j \in Indices
             /\ dirs[kernel_directory][j] = NULL
             /\ \A e \in allocated : /\ dirs'[e][j] = dirs[e][j]
                                     /\ dirs[e][j] \in made \cup {NULL}
             /\ dirs[c][j] = NULL => dirs'[d][j] = NULL
             /\ dirs[c][j] # NULL => /\ dirs'[d][j] # NULL
                                     /\ dirs'[d][j] \notin made
  <2>1. j \in Indices /\ dirs[kernel_directory][j] = NULL
    BY <1>4, StackLayout DEF OwnStacks
  <2>2. \A e \in allocated : dirs'[e][j] = dirs[e][j] /\ dirs[e][j] \in made \cup {NULL}
    BY <1>1, <1>2, <2>1, PointersMade DEF Allocates
  <2>3. CASE dirs[c][j] = NULL
    <3>1. j \notin PrivateIndices
      BY <2>3 DEF PrivateIndices
    <3> QED
      BY <1>1, <2>1, <2>2, <2>3, <3>1 DEF Allocates
  <2>4. CASE dirs[c][j] # NULL
    <3>1. j \in PrivateIndices
      BY <2>1, <2>4 DEF PrivateIndices, Shared
    <3>2. dirs'[d][j] = ids[j] /\ ids[j] \in Tables \ made
      BY <1>1, <3>1 DEF Allocates
    <3> QED
      BY <2>1, <2>2, <2>4, <3>2, NullAssumption
  <2> QED
    BY <2>1, <2>2, <2>3, <2>4
<1>6. OwnStacks'
  <2>1. \A j \in StackIndices : dirs'[kernel_directory][j] = NULL
    BY <1>2, <1>5
  <2>2. ASSUME NEW e \in allocated', NEW f \in allocated', NEW j \in StackIndices,
               dirs'[e][j] # NULL, dirs'[e][j] = dirs'[f][j]
        PROVE  e = f
    <3>1. CASE e \in allocated /\ f \in allocated
      BY <1>4, <1>5, <2>2, <3>1 DEF OwnStacks
    <3>2. CASE e = d /\ f = d
      BY <3>2
    <3>3. CASE (e = d /\ f \in allocated) \/ (e \in allocated /\ f = d)
      BY <1>5, <2>2, <3>3
    <3> QED
      BY <1>2, <3>1, <3>2, <3>3
  <2>3. ASSUME NEW e \in allocated', NEW j \in StackIndices, dirs'[e][Index(STACK)] = NULL
        PROVE  dirs'[e][j] = NULL
    <3>1. Index(STACK) \in StackIndices
      BY StackLayout
    <3>2. CASE e \in allocated
      BY <1>4, <1>5, <2>3, <3>1, <3>2 DEF OwnStacks
    <3>3. CASE e = d
      <4>1. dirs[c][Index(STACK)] = NULL
        BY <1>5, <2>3, <3>1, <3>3
      <4>2. dirs[c][j] = NULL
        BY <1>2, <1>4, <4>1 DEF OwnStacks
      <4> QED
        BY <1>5, <3>3, <4>2
    <3> QED
      BY <1>2, <3>2, <3>3
  <2>4. StackIndices' = StackIndices
    BY DEF StackIndices
  <2> QED
    BY <2>1, <2>2, <2>3, <2>4 DEF OwnStacks
<1> QED
  BY <1>2, <1>3, <1>6 DEF Private

LEMMA StackKeepsPrivate ==
    ASSUME TypeOK, Private, Supported, move_stack PROVE Private'
<1> DEFINE c == current_directory
           new == Missing(c, StackPages)
           pages == {v \in StackPages : Lookup(c, v).frame = 0}
<1>1. PICK ids, got : Allocates(c, new, ids, pages, got)
  <2>1. StackPages \in SUBSET Pages
    BY StackLayout
  <2> QED
    BY <2>1, MapPagesAllocates DEF move_stack
<1>2. /\ allocated' = allocated /\ c # kernel_directory
      /\ kernel_directory \in allocated /\ c \in allocated /\ allocated \subseteq Dirs
      /\ \A e \in allocated : dirs[e][Index(STACK)] = NULL
  BY DEF move_stack, Private, TypeOK
<1>3. PresentIfFrame' /\ UnmadeEmpty' /\ ZeroMapped' /\ OneIndex'
  BY <1>1, <1>2, AllocatesKeeps
<1>4. OwnStacks
  BY DEF Private
<1>5. ASSUME NEW j \in StackIndices
      PROVE  /\ dirs'[c][j] # NULL
             /\ \A e \in allocated \ {c} : dirs'[e][j] = NULL
  <2>1. \A e \in allocated : dirs[e][j] = NULL
    BY <1>2, <1>4 DEF OwnStacks
  <2>2. j \in new
    BY <1>2, <2>1 DEF Missing, StackIndices
  <2> HIDE DEF new, pages
  <2>3. dirs'[c][j] = ids[j] /\ ids[j] \in Tables
    BY <1>1, <2>2 DEF Allocates
  <2>4. \A e \in allocated \ {c} : dirs'[e] = dirs[e]
    BY <1>1, <1>2 DEF Allocates
  <2> QED
    BY <2>1, <2>3, <2>4, NullAssumption
<1>6. OwnStacks'
  <2>1. StackIndices' = StackIndices /\ Index(STACK) \in StackIndices
    BY StackLayout DEF StackIndices
  <2> QED
    BY <1>2, <1>5, <2>1 DEF OwnStacks
<1> QED
  BY <1>2, <1>3, <1>6 DEF Private

\* The pages that the heap grows by.
LEMMA HeapPages ==
    ASSUME TypeOK, NEW n \in 1 .. TABLE, end + n <= MAX
    PROVE  /\ end .. end + n - 1 \in SUBSET Pages
           /\ \A v \in end .. end + n - 1 : Index(v) \in Int /\ Index(HEAP) <= Index(v)
<1>1. /\ end \in Nat /\ n \in Nat /\ end >= HEAP
      /\ HEAP \in Nat /\ TABLE \in Nat \ {0} /\ MAX \in Nat
  BY SizesAssumption DEF TypeOK
<1>2. ASSUME NEW v \in end .. end + n - 1
      PROVE  Index(v) \in Int /\ Index(HEAP) <= Index(v)
  <2>1. v \in Nat /\ HEAP <= v
    BY <1>1
  <2> QED
    BY <1>1, <2>1, IndexMonotonic DEF Index
<1>3. end .. end + n - 1 \in SUBSET Pages
  BY <1>1 DEF Pages
<1> QED
  BY <1>2, <1>3

LEMMA ExpandKeepsPrivate ==
    ASSUME TypeOK, Private, Supported, NEW n \in 1 .. TABLE, expand(n)
    PROVE  Private'
<1> DEFINE c == current_directory
           heap == end .. end + n - 1
           new == Missing(c, heap)
           pages == {v \in heap : Lookup(c, v).frame = 0}
<1>0. end + n <= MAX
  BY DEF expand
<1>1. PICK ids, got : Allocates(c, new, ids, pages, got)
  <2>1. heap \in SUBSET Pages
    BY <1>0, HeapPages
  <2>2. MapPages(c, heap)
    BY DEF expand
  <2> HIDE DEF heap
  <2> QED
    BY <2>1, <2>2, MapPagesAllocates
<1>2. /\ allocated' = allocated
      /\ kernel_directory \in allocated /\ c \in allocated /\ allocated \subseteq Dirs
  BY DEF expand, Private, TypeOK
<1>3. PresentIfFrame' /\ UnmadeEmpty' /\ ZeroMapped' /\ OneIndex'
  BY <1>1, <1>2, AllocatesKeeps
<1>4. ASSUME NEW j \in StackIndices, NEW e \in allocated PROVE dirs'[e][j] = dirs[e][j]
  <2>1. j \in Indices /\ j \in Int /\ j < Index(HEAP)
    BY StackLayout
  <2>2. Index(HEAP) \in Int
    BY SizesAssumption DEF Index
  <2>3. ASSUME NEW i \in new PROVE i \in Int /\ Index(HEAP) <= i
    BY <1>0, HeapPages DEF Missing
  <2>4. j \notin new
    <3> HIDE DEF new
    <3> QED
      BY <2>1, <2>2, <2>3
  <2> HIDE DEF new, pages
  <2> QED
    BY <1>1, <1>2, <2>1, <2>4 DEF Allocates
<1>5. OwnStacks'
  <2>1. StackIndices' = StackIndices /\ Index(STACK) \in StackIndices
    BY StackLayout DEF StackIndices
  <2>2. OwnStacks
    BY DEF Private
  <2> QED
    BY <1>2, <1>4, <2>1, <2>2 DEF OwnStacks
<1> QED
  BY <1>2, <1>3, <1>5 DEF Private

LEMMA PInitially == Init => Private
<1> SUFFICES ASSUME Init PROVE Private
  OBVIOUS
<1>1. /\ KERNEL \in Nat /\ KERNEL >= 1 /\ HEAP \in Nat /\ INITIAL_END \in Nat
      /\ HEAP < INITIAL_END /\ TABLE \in Nat \ {0}
  BY SizesAssumption
<1>2. /\ kernel_directory \in allocated /\ PresentIfFrame
      /\ allocated = {kernel_directory}
  BY KInitially DEF KInv, Init
<1>3. BootTable \in Lowest({Index(v) : v \in BootPages}, Tables)
  BY BootAssumption DEF BootTable
<1>4. BootTable \in [{Index(v) : v \in BootPages} -> Tables]
  BY <1>3 DEF Lowest
<1>5. \A i, j \in DOMAIN BootTable : BootTable[i] = BootTable[j] => i = j
  <2>1. \A v \in BootPages : Index(v) \in Int
    BY <1>1 DEF BootPages, Index
  <2>2. \A i \in DOMAIN BootTable : i \in Int /\ BootTable[i] \in Int
    BY <1>4, <2>1
  <2>3. \A i, j \in DOMAIN BootTable : i < j => BootTable[i] < BootTable[j]
    BY <1>3, <1>4 DEF Lowest
  <2>4. ASSUME NEW i \in DOMAIN BootTable, NEW j \in DOMAIN BootTable,
               BootTable[i] = BootTable[j]
        PROVE  i = j
    <3>1. i \in Int /\ j \in Int /\ BootTable[i] \in Int
      BY <2>2
    <3>2. ~(i < j) /\ ~(j < i)
      BY <2>3, <2>4, <3>1
    <3> QED
      BY <3>1, <3>2
  <2> QED
    BY <2>4
<1>6. ASSUME NEW i \in Indices
      PROVE  dirs[kernel_directory][i] = IF i \in DOMAIN BootTable THEN BootTable[i] ELSE NULL
  BY DirsAssumption DEF Init
<1>7. ASSUME NEW t \in Tables, NEW o \in Offsets
      PROVE  \/ tables[t][o] = Zero
             \/ \E v \in BootPages : /\ BootTable[Index(v)] = t
                                     /\ tables[t][o].frame = BootFrame(v)
  <2> DEFINE Slot(v) == BootTable[Index(v)] = t /\ v % TABLE = o
             Page == CHOOSE v \in BootPages : BootTable[Index(v)] = t /\ v % TABLE = o
  <2>1. tables[t][o] = IF \E v \in BootPages : Slot(v)
                         THEN [present |-> 1, frame |-> BootFrame(Page)] ELSE Zero
    BY DEF Init
  <2>2. (\E v \in BootPages : Slot(v)) => Page \in BootPages /\ Slot(Page)
    OBVIOUS
  <2> HIDE DEF Page
  <2> QED
    BY <2>1, <2>2
<1>8. UnmadeEmpty
  <2> SUFFICES ASSUME NEW t \in Tables, t \notin made, NEW o \in Offsets
               PROVE  tables[t][o] = Zero
    BY DEF UnmadeEmpty
  <2>1. ASSUME NEW v \in BootPages PROVE BootTable[Index(v)] # t
    <3>1. BootTable[Index(v)] \in made
      BY <1>4 DEF Init, Range
    <3> QED
      BY <3>1
  <2> QED
    BY <1>7, <2>1
<1>9. ZeroMapped
  <2>1. 0 \in BootPages /\ Index(0) \in DOMAIN BootTable
    BY <1>1, <1>4 DEF BootPages
  <2>2. FirstTable = BootTable[Index(0)]
    BY <1>6, <2>1, ZeroIsAnIndex DEF FirstTable
  <2>3. FirstTable # NULL
    BY <1>4, <2>1, <2>2, NullAssumption
  <2>4. \A v \in BootPages : BootFrame(v) = 0 => v = 0
    BY <1>1 DEF BootPages, BootFrame
  <2>5. \A t \in Tables, o \in Offsets :
          Mapped(t, o) /\ tables[t][o].frame = 0 => t = FirstTable
    BY <1>7, <2>2, <2>4 DEF Mapped, Zero
  <2>6. 0 \in frames
    BY <1>1 DEF Init
  <2> QED
    BY <1>2, <2>3, <2>5, <2>6 DEF ZeroMapped, FirstTable
<1>10. OneIndex
  BY <1>2, <1>5, <1>6 DEF OneIndex
<1>11. OwnStacks
  <2>1. ASSUME NEW j \in StackIndices PROVE dirs[kernel_directory][j] = NULL
    <3>1. j \in Indices /\ j \in Int /\ Index(KERNEL - 1) < j /\ j < Index(HEAP)
      BY StackLayout
    <3>2. ASSUME NEW v \in BootPages PROVE Index(v) # j
      <4>1. v \in Nat /\ (v <= KERNEL - 1 \/ HEAP <= v) /\ KERNEL - 1 \in Nat
        BY <1>1 DEF BootPages
      <4>2. Index(v) <= Index(KERNEL - 1) \/ Index(HEAP) <= Index(v)
        BY <1>1, <4>1, IndexMonotonic
      <4>3. Index(v) \in Int /\ Index(KERNEL - 1) \in Int /\ Index(HEAP) \in Int
        BY <1>1, <4>1 DEF Index
      <4> QED
        BY <3>1, <4>2, <4>3
    <3>3. j \notin DOMAIN BootTable
      BY <1>4, <3>2
    <3> QED
      BY <1>6, <3>1, <3>3
  <2> QED
    BY <1>2, <2>1 DEF OwnStacks
<1> QED
  BY <1>2, <1>8, <1>9, <1>10, <1>11 DEF Private

LEMMA PPreserved ==
    ASSUME Supported, IInv, Private, [Next]_vars PROVE Private'
<1> USE DEF IInv
<1>u. ASSUME UNCHANGED <<frames, made, tables, dirs>>, allocated' \subseteq allocated,
             kernel_directory \in allocated'
      PROVE  Private'
  <2>1. PresentIfFrame' /\ UnmadeEmpty' /\ ZeroMapped' /\ OneIndex'
    BY <1>u DEF Private, PresentIfFrame, UnmadeEmpty, ZeroMapped, OneIndex, FirstTable, Mapped
  <2>2. OwnStacks'
    BY <1>u DEF Private, OwnStacks, StackIndices
  <2> QED
    BY <1>u, <2>1, <2>2 DEF Private
<1>1. ASSUME NEW d \in Dirs, initialise_paging(d) PROVE Private'
  BY <1>1, CloneKeepsPrivate DEF initialise_paging
<1>2. ASSUME NEW d \in Dirs, clone_directory(d) PROVE Private'
  BY <1>2, CloneKeepsPrivate DEF clone_directory
<1>3. ASSUME NEW d \in Dirs, switch_page_directory(d) PROVE Private'
  BY <1>3, <1>u DEF switch_page_directory, Private
<1>4. ASSUME NEW d \in Dirs, NEW new \in Dirs, exit_task(d, new) PROVE Private'
  BY <1>4, <1>u DEF exit_task, Private
<1>5. CASE move_stack
  BY <1>5, StackKeepsPrivate
<1>6. ASSUME NEW n \in 1 .. TABLE, expand(n) PROVE Private'
  BY <1>6, ExpandKeepsPrivate
<1>7. ASSUME NEW v \in Writable, NEW c \in Contents, write(v, c) PROVE Private'
  BY <1>7, <1>u DEF write, Private
<1>8. CASE UNCHANGED vars
  BY <1>8, <1>u DEF vars, Private
<1> QED
  BY <1>1, <1>2, <1>3, <1>4, <1>5, <1>6, <1>7, <1>8 DEF Next

\* What an entry names is in use: frame 0, where there is none, is the kernel's.
LEMMA InUse ==
    ASSUME TypeOK, FrameHasOneOwner, Private, NEW d \in allocated, NEW v \in Pages
    PROVE  /\ Lookup(d, v) \in Entry /\ Lookup(d, v).frame \in frames
           /\ dirs[d][Index(v)] # NULL /\ tables[dirs[d][Index(v)]][v % TABLE].frame # 0
              => Mapped(dirs[d][Index(v)], v % TABLE)
<1>1. Index(v) \in Indices /\ v % TABLE \in Offsets /\ v \in Int
  BY PageSlot DEF Pages
<1>2. d \in Dirs
  BY DEF TypeOK
<1>3. Lookup(d, v) \in Entry
  BY <1>1, <1>2, LookupType, TypeOKIsTyped
<1>4. 0 \in frames
  BY DEF Private, ZeroMapped
<1>5. CASE dirs[d][Index(v)] = NULL
  BY <1>3, <1>4, <1>5 DEF Lookup, Zero
<1>6. CASE dirs[d][Index(v)] # NULL
  <2> DEFINE t == dirs[d][Index(v)]
  <2>1. t \in Tables
    BY <1>1, <1>2, <1>6, PointersMade
  <2>2. Lookup(d, v) = tables[t][v % TABLE]
    BY <1>6 DEF Lookup
  <2> HIDE DEF t
  <2>3. tables[t][v % TABLE].frame # 0 => Mapped(t, v % TABLE)
    BY <1>1, <2>1 DEF Private, PresentIfFrame, Mapped
  <2>4. Mapped(t, v % TABLE) => tables[t][v % TABLE].frame \in frames
    BY <1>1, <2>1 DEF FrameHasOneOwner
  <2> QED
    BY <1>3, <1>4, <2>2, <2>3, <2>4 DEF t
<1> QED
  BY <1>5, <1>6

\* clone_directory changes nothing that an existing directory shows.
LEMMA CloneKeepsReads ==
    ASSUME TypeOK, FrameHasOneOwner, Private, Supported, NEW d \in Dirs, Clone(d),
           NEW e \in allocated, NEW v \in Pages
    PROVE  Lookup(e, v)' = Lookup(e, v) /\ Reads(e, v)' = Reads(e, v)
<1> DEFINE t == dirs[e][Index(v)]
<1>1. PICK ids, got : /\ Allocates(d, PrivateIndices, ids, PrivatePages, got)
                      /\ memory' = Copied(got)
  BY CloneAllocates
<1>2. /\ d \notin allocated /\ allocated' = allocated \cup {d}
      /\ e \in Dirs /\ current_directory \in allocated
  BY DEF Clone, TypeOK
<1>3. OneIndex'
  BY <1>1, <1>2, AllocatesKeeps DEF Private
<1>4. Index(v) \in Indices /\ v % TABLE \in Offsets
  BY PageSlot
<1>5. dirs'[e] = dirs[e]
  BY <1>1, <1>2 DEF Allocates
<1>6. got \in [PrivatePages -> Frames \ frames] /\ tables' = Filled(dirs'[d], got)
  BY <1>1 DEF Allocates
<1>7. ASSUME t # NULL PROVE tables'[t][v % TABLE] = tables[t][v % TABLE]
  <2>1. t \in Tables /\ t \in made
    BY <1>2, <1>4, <1>7, PointersMade
  <2>2. ASSUME NEW w \in PrivatePages PROVE dirs'[d][Index(w)] # t
    <3>1. Index(w) \in PrivateIndices
      BY DEF PrivatePages
    <3>2. dirs'[d][Index(w)] = ids[Index(w)] /\ ids[Index(w)] \notin made
      BY <1>1, <3>1 DEF Allocates
    <3> QED
      BY <2>1, <3>2
  <2>3. DOMAIN got = PrivatePages
    BY <1>6
  <2>4. PICK u \in Tables, o \in Offsets : u = t /\ o = v % TABLE
    BY <1>4, <2>1
  <2>5. \/ tables'[u][o] = tables[u][o]
        \/ \E w \in DOMAIN got : dirs'[d][Index(w)] = u
    <3>1. tables' = Filled(dirs'[d], got)
      BY <1>6
    <3>2. \/ /\ tables'[u][o] = tables[u][o]
             /\ \A w \in DOMAIN got : ~(dirs'[d][Index(w)] = u /\ w % TABLE = o)
          \/ \E w \in DOMAIN got :
               /\ dirs'[d][Index(w)] = u /\ w % TABLE = o
               /\ tables'[u][o] = [present |-> 1, frame |-> got[w]]
      BY <3>1, FilledEntry
    <3> QED
      BY <3>2
  <2> HIDE DEF t
  <2> QED
    BY <2>2, <2>3, <2>4, <2>5
<1>8. Lookup(e, v)' = Lookup(e, v)
  BY <1>5, <1>7 DEF Lookup
<1>9. memory'[Lookup(e, v).frame] = memory[Lookup(e, v).frame]
  <2>1. Lookup(e, v).frame \in Frames /\ Lookup(e, v).frame \in frames
    BY InUse DEF TypeOK
  <2>2. Lookup(e, v).frame \notin Range(got)
    BY <1>6, <2>1 DEF Range
  <2> HIDE DEF Frames
  <2> QED
    BY <1>1, <2>1, <2>2 DEF Copied
<1> QED
  BY <1>8, <1>9 DEF Reads

\* Two pages with the same entry are one page.
LEMMA SamePage ==
    ASSUME NEW v \in Pages, NEW w \in Pages, Index(v) = Index(w), v % TABLE = w % TABLE
    PROVE  v = w
<1>1. v \in Nat /\ w \in Nat /\ TABLE \in Nat \ {0}
  BY SizesAssumption DEF Pages
<1>2. PICK x \in Int : x = v \div TABLE
  BY <1>1
<1>3. PICK y \in Int : y = w \div TABLE
  BY <1>1
<1>4. v = TABLE * x + (v % TABLE) /\ w = TABLE * y + (w % TABLE)
  BY <1>1, <1>2, <1>3
<1> QED
  BY <1>2, <1>3, <1>4 DEF Index

\* A new directory shows what the running task's shows (clone_table).
LEMMA CloneCopies ==
    ASSUME TypeOK, FrameHasOneOwner, Private, Supported, NEW d \in Dirs, Clone(d),
           NEW v \in Pages
    PROVE  /\ Lookup(d, v)'.present = Lookup(current_directory, v).present
           /\ Reads(d, v)' = Reads(current_directory, v)
<1>1. PICK ids, got : /\ Allocates(d, PrivateIndices, ids, PrivatePages, got)
                      /\ memory' = Copied(got)
  BY CloneAllocates
<1>2. PICK c \in allocated : c = current_directory
  BY DEF TypeOK
<1>3. PICK i \in Indices, o \in Offsets : i = Index(v) /\ o = v % TABLE
  BY PageSlot
<1>4. c \in Dirs /\ d \notin allocated
  BY DEF Clone, TypeOK
<1>5. CASE i \notin PrivateIndices
  <2>1. dirs'[d][i] = dirs[c][i] /\ dirs'[c] = dirs[c]
    BY <1>1, <1>2, <1>4, <1>5 DEF Allocates
  <2>2. Lookup(d, v)' = Lookup(c, v)'
    BY <1>3, <2>1 DEF Lookup
  <2>3. Lookup(c, v)' = Lookup(c, v) /\ Reads(c, v)' = Reads(c, v)
    BY CloneKeepsReads
  <2> QED
    BY <1>2, <2>2, <2>3 DEF Reads
<1>6. CASE i \in PrivateIndices
  <2>1. /\ got \in [PrivatePages -> Frames \ frames] /\ DOMAIN got = PrivatePages
        /\ \A w, x \in PrivatePages : got[w] = got[x] => w = x
        /\ ids \in [PrivateIndices -> Tables \ made]
        /\ \A j, k \in PrivateIndices : ids[j] = ids[k] => j = k
        /\ \A j \in PrivateIndices : dirs'[d][j] = ids[j]
        /\ tables' = Filled(dirs'[d], got)
        /\ PrivateIndices \subseteq Indices \ {Index(0)}
    BY <1>1 DEF Allocates
  <2>2. PICK t \in Tables \ made : t = ids[i]
    BY <1>6, <2>1
  <2>f. \/ /\ tables'[t][o] = tables[t][o]
           /\ \A w \in DOMAIN got : ~(dirs'[d][Index(w)] = t /\ w % TABLE = o)
        \/ \E w \in DOMAIN got :
             /\ dirs'[d][Index(w)] = t /\ w % TABLE = o
             /\ tables'[t][o] = [present |-> 1, frame |-> got[w]]
    <3>1. tables' = Filled(dirs'[d], got)
      BY <2>1
    <3> QED
      BY <3>1, FilledEntry
  <2>g. \A w \in PrivatePages :
          w \in Pages /\ (dirs'[d][Index(w)] = t => Index(w) = i)
    <3>1. \A w \in PrivatePages : w \in Pages /\ Index(w) \in PrivateIndices
      BY DEF PrivatePages
    <3>2. \A j \in PrivateIndices : dirs'[d][j] = t => j = i
      BY <1>6, <2>1, <2>2
    <3> QED
      BY <3>1, <3>2
  <2>h. dirs'[d][Index(v)] = t /\ v % TABLE = o
    BY <1>3, <1>6, <2>1, <2>2
  <2>3. Lookup(d, v)' = tables'[t][o]
    <3>1. dirs'[d][i] = t /\ t # NULL
      BY <1>6, <2>1, <2>2, NullAssumption
    <3> QED
      BY <1>3, <3>1 DEF Lookup
  <2>4. Lookup(c, v) = tables[dirs[c][i]][o] /\ dirs[c][i] # NULL /\ dirs[c][i] \in Tables
    <3>1. dirs[c][i] # NULL
      BY <1>2, <1>6 DEF PrivateIndices
    <3>2. dirs[c][i] \in Tables
      BY <1>4, <3>1, PointersMade
    <3> QED
      BY <1>3, <3>1, <3>2 DEF Lookup
  <2>5. /\ Lookup(c, v) \in Entry
        /\ Lookup(c, v).frame # 0 => Lookup(c, v).present = 1
    BY <1>3, <2>4, InUse DEF Mapped
  <2>6. v \in PrivatePages <=> Lookup(c, v).frame # 0
    BY <1>2, <1>3, <1>6 DEF PrivatePages
  <2>7. CASE v \in PrivatePages
    <3>1. PICK w \in PrivatePages : /\ Index(w) = i /\ w % TABLE = o
                                    /\ tables'[t][o] = [present |-> 1, frame |-> got[w]]
      <4>1. DOMAIN got = PrivatePages
        BY <2>1
      <4>2. v \in DOMAIN got
        BY <2>7, <4>1
      <4>3. PICK w \in DOMAIN got :
              /\ dirs'[d][Index(w)] = t /\ w % TABLE = o
              /\ tables'[t][o] = [present |-> 1, frame |-> got[w]]
        BY <2>f, <2>h, <4>2
      <4> QED
        BY <2>g, <4>1, <4>3
    <3>2. w = v
      BY <1>3, <3>1, SamePage DEF PrivatePages
    <3>3. got[v] \in Frames /\ got[v] \in Range(got)
      BY <2>1, <2>7 DEF Range
    <3>4. (CHOOSE x \in DOMAIN got : got[x] = got[v]) = v
      BY <2>1, <2>7
    <3>5. memory'[got[v]] = Reads(c, v)
      <4> HIDE DEF Frames
      <4> QED
        BY <1>1, <1>2, <3>3, <3>4 DEF Copied
    <3>6. Lookup(d, v)'.present = 1 /\ Lookup(d, v)'.frame = got[v]
      BY <2>3, <3>1, <3>2
    <3> QED
      BY <1>2, <2>5, <2>6, <2>7, <3>5, <3>6 DEF Reads
  <2>8. CASE v \notin PrivatePages
    <3>1. \A w \in PrivatePages : ~(dirs'[d][Index(w)] = t /\ w % TABLE = o)
      <4> SUFFICES ASSUME NEW w \in PrivatePages, dirs'[d][Index(w)] = t, w % TABLE = o
                   PROVE  FALSE
        OBVIOUS
      <4>2. Index(w) = i /\ w \in Pages
        BY <2>g
      <4>3. w = v
        BY <1>3, <4>2, SamePage
      <4> QED
        BY <2>8, <4>3
    <3>2. tables'[t][o] = tables[t][o]
      <4>1. DOMAIN got = PrivatePages
        BY <2>1
      <4> QED
        BY <2>f, <3>1, <4>1
    <3>3. Lookup(d, v)' = Zero
      BY <2>3, <3>2 DEF Private, UnmadeEmpty
    <3>4. Lookup(c, v).frame = 0
      BY <2>6, <2>8
    <3>5. Lookup(c, v).present = 0
      <4>1. CASE Lookup(c, v).present = 1
        <5>1. dirs[c][i] = FirstTable
          BY <2>4, <3>4, <4>1 DEF Private, ZeroMapped, Mapped
        <5>2. dirs[c][Index(0)] = FirstTable
          BY DEF Private, ZeroMapped
        <5>3. i = Index(0)
          BY <2>4, <5>1, <5>2, ZeroIsAnIndex DEF Private, OneIndex
        <5> QED
          BY <1>6, <2>1, <5>3
      <4> QED
        BY <2>5, <4>1 DEF Entry
    <3>6. memory'[0] = memory[0]
      <4>1. 0 \in frames /\ 0 \in Frames
        BY DEF Private, ZeroMapped, TypeOK
      <4>2. 0 \notin Range(got)
        BY <2>1, <4>1 DEF Range
      <4> HIDE DEF Frames
      <4> QED
        BY <1>1, <4>1, <4>2 DEF Copied
    <3> QED
      BY <1>2, <3>3, <3>4, <3>5, <3>6 DEF Reads, Zero
  <2> QED
    BY <2>7, <2>8
<1> QED
  BY <1>5, <1>6

\* A forked child finds in its memory what its parent has in its own: every page
\* that the parent has is present, and reads the same (clone_directory, clone_table,
\* copy_page_physical).
THEOREM ClonesAreCopies ==
    ASSUME Supported PROVE Spec => CloneIsCopy
<1> DEFINE Copy == \A d \in allocated' \ allocated, v \in Pages :
                      /\ Lookup(d, v)'.present = Lookup(current_directory, v).present
                      /\ Reads(d, v)' = Reads(current_directory, v)
<1>1. IInv /\ Private /\ [Next]_vars => IInv' /\ Private'
  BY Preserved, PPreserved
<1>2. Init => IInv /\ Private
  BY Initially, PInitially
<1>3. IInv /\ Private /\ [Next]_vars => [Copy]_vars
  <2> SUFFICES ASSUME IInv, Private, [Next]_vars,
                      NEW d \in allocated' \ allocated, NEW v \in Pages
               PROVE  /\ Lookup(d, v)'.present = Lookup(current_directory, v).present
                      /\ Reads(d, v)' = Reads(current_directory, v)
    OBVIOUS
  <2>1. ASSUME NEW e \in Dirs, Clone(e)
        PROVE  /\ Lookup(d, v)'.present = Lookup(current_directory, v).present
               /\ Reads(d, v)' = Reads(current_directory, v)
    <3>1. d = e
      BY <2>1 DEF Clone
    <3>2. Clone(d) /\ d \in Dirs
      BY <2>1, <3>1
    <3> QED
      BY <3>2, CloneCopies DEF IInv
  <2>2. CASE \E e \in Dirs : initialise_paging(e)
    BY <2>1, <2>2 DEF initialise_paging
  <2>3. CASE \E e \in Dirs : clone_directory(e)
    BY <2>1, <2>3 DEF clone_directory
  <2>4. allocated' \subseteq allocated \/ (\E e \in Dirs : initialise_paging(e) \/ clone_directory(e))
    BY DEF Next, switch_page_directory, exit_task, move_stack, expand, write, vars
  <2> QED
    BY <2>2, <2>3, <2>4
<1>4. Spec => [][Copy]_vars
  BY <1>1, <1>2, <1>3, PTL DEF Spec
<1> QED
  BY <1>4 DEF CloneIsCopy

\* What the other tasks' stacks show, each call of the running task leaves.
StacksKept ==
    \A d \in allocated \cap allocated', v \in StackPages :
       d # current_directory =>
         /\ Lookup(d, v)' = Lookup(d, v)
         /\ Lookup(d, v).present = 1 => Reads(d, v)' = Reads(d, v)

LEMMA MoveStackKeepsStacks ==
    ASSUME TypeOK, FrameHasOneOwner, Private, Supported, move_stack PROVE StacksKept
<1> SUFFICES ASSUME NEW d \in allocated, NEW v \in StackPages, d # current_directory
             PROVE  Lookup(d, v)' = Lookup(d, v) /\ Lookup(d, v) = Zero
  BY DEF StacksKept, Zero
<1>1. dirs[d][Index(STACK)] = NULL
  BY DEF move_stack
<1>2. dirs[d][Index(v)] = NULL
  BY <1>1 DEF Private, OwnStacks, StackIndices
<1>3. PICK ids, got :
        Allocates(current_directory, Missing(current_directory, StackPages), ids,
                  {w \in StackPages : Lookup(current_directory, w).frame = 0}, got)
  <2>1. StackPages \in SUBSET Pages
    BY StackLayout
  <2> QED
    BY <2>1, MapPagesAllocates DEF move_stack
<1>4. dirs'[d] = dirs[d]
  BY <1>3 DEF Allocates, TypeOK
<1> QED
  BY <1>2, <1>4 DEF Lookup, Zero

LEMMA ExpandKeepsStacks ==
    ASSUME TypeOK, FrameHasOneOwner, Private, Supported, NEW n \in 1 .. TABLE, expand(n)
    PROVE  StacksKept
<1> SUFFICES ASSUME NEW d \in allocated, NEW v \in StackPages, d # current_directory
             PROVE  Lookup(d, v)' = Lookup(d, v) /\ Reads(d, v)' = Reads(d, v)
  BY DEF StacksKept
<1> DEFINE heap == end .. end + n - 1
           pages == {w \in heap : Lookup(current_directory, w).frame = 0}
<1>0. heap \in SUBSET Pages /\ \A w \in heap : Index(w) \in Int /\ Index(HEAP) <= Index(w)
  <2>1. end + n <= MAX
    BY DEF expand
  <2> QED
    BY <2>1, HeapPages
<1>1. PICK ids, got :
        Allocates(current_directory, Missing(current_directory, heap), ids, pages, got)
  <2>1. MapPages(current_directory, heap)
    BY DEF expand
  <2> HIDE DEF heap
  <2> QED
    BY <1>0, <2>1, MapPagesAllocates
<1>2. /\ d \in Dirs /\ current_directory \in allocated /\ current_directory \in Dirs
      /\ allocated' = allocated /\ memory' = memory
      /\ kernel_directory \in allocated
  BY DEF TypeOK, expand, Private
<1>3. OneIndex'
  BY <1>1, <1>2, AllocatesKeeps
<1>4. PICK j \in Indices, o \in Offsets : /\ j = Index(v) /\ o = v % TABLE
                                          /\ j \in Int /\ j < Index(HEAP)
  <2>1. v \in Pages /\ Index(v) \in StackIndices
    BY StackLayout DEF StackIndices
  <2> QED
    BY <2>1, PageSlot, StackLayout
<1>5. dirs'[d] = dirs[d]
  BY <1>1, <1>2 DEF Allocates
<1>6. tables' = Filled(dirs'[current_directory], got) /\ DOMAIN got = pages
  BY <1>1 DEF Allocates
<1>7. ASSUME dirs[d][j] # NULL PROVE tables'[dirs[d][j]][o] = tables[dirs[d][j]][o]
  <2>1. PICK t \in Tables : t = dirs[d][j]
    BY <1>2, <1>7, PointersMade
  <2>2. ASSUME NEW w \in heap PROVE dirs'[current_directory][Index(w)] # t
    <3>1. Index(w) \in Indices
      BY <1>0, PageSlot
    <3>2. Index(w) # j
      BY <1>0, <1>4, SizesAssumption DEF Index
    <3>3. PICK c \in allocated : c = current_directory
      BY <1>2
    <3>4. dirs'[d][j] = t /\ t # NULL
      BY <1>5, <1>7, <2>1
    <3> QED
      BY <1>2, <1>3, <3>1, <3>2, <3>3, <3>4 DEF OneIndex
  <2>3. tables' = Filled(dirs'[current_directory], got)
    BY <1>6
  <2>4. \/ /\ tables'[t][o] = tables[t][o]
           /\ \A w \in DOMAIN got :
                ~(dirs'[current_directory][Index(w)] = t /\ w % TABLE = o)
        \/ \E w \in DOMAIN got :
             /\ dirs'[current_directory][Index(w)] = t /\ w % TABLE = o
             /\ tables'[t][o] = [present |-> 1, frame |-> got[w]]
    BY <2>3, FilledEntry
  <2> QED
    BY <1>6, <2>1, <2>2, <2>4
<1>8. Lookup(d, v)' = Lookup(d, v)
  BY <1>4, <1>5, <1>7 DEF Lookup
<1> QED
  BY <1>2, <1>8 DEF Reads

\* A write to a page of the running task reaches no page of another's stack.
LEMMA WriteKeepsStacks ==
    ASSUME TypeOK, FrameHasOneOwner, Private,
           NEW w \in Writable, NEW x \in Contents, write(w, x)
    PROVE  StacksKept
<1> SUFFICES ASSUME NEW d \in allocated, NEW v \in StackPages, d # current_directory
             PROVE  /\ Lookup(d, v)' = Lookup(d, v)
                    /\ Lookup(d, v).present = 1 => Reads(d, v)' = Reads(d, v)
  BY DEF StacksKept
<1>1. PICK c \in allocated : c = current_directory
  BY DEF TypeOK
<1>2. /\ dirs' = dirs /\ tables' = tables /\ Lookup(c, w).present = 1
      /\ memory' = [memory EXCEPT ![Lookup(c, w).frame] = x]
  BY <1>1 DEF write
<1>3. Lookup(d, v)' = Lookup(d, v)
  BY <1>2 DEF Lookup
<1>4. ASSUME Lookup(d, v).present = 1 PROVE Lookup(d, v).frame # Lookup(c, w).frame
  <2>1. v \in Pages /\ w \in Pages /\ Index(v) \in StackIndices
    BY StackLayout, WritableAssumption DEF StackIndices, Pages
  <2>2. /\ Index(v) \in Indices /\ v % TABLE \in Offsets
        /\ Index(w) \in Indices /\ w % TABLE \in Offsets /\ d \in Dirs /\ c \in Dirs
    BY <2>1, PageSlot DEF TypeOK
  <2>3. dirs[d][Index(v)] # NULL /\ dirs[c][Index(w)] # NULL
    BY <1>2, <1>4 DEF Lookup, Zero
  <2>4. PICK t \in Tables, u \in Tables : t = dirs[d][Index(v)] /\ u = dirs[c][Index(w)]
    BY <2>2, <2>3, PointersMade
  <2>5. Lookup(d, v) = tables[t][v % TABLE] /\ Lookup(c, w) = tables[u][w % TABLE]
    BY <2>3, <2>4 DEF Lookup
  <2>6. ASSUME t = u PROVE FALSE
    <3>1. Index(v) = Index(w)
      <4>1. OneIndex
        BY DEF Private
      <4>2. dirs[d][Index(v)] # NULL /\ dirs[d][Index(v)] = dirs[c][Index(w)]
        BY <2>3, <2>4, <2>6
      <4>3. PICK i \in Indices, j \in Indices : i = Index(v) /\ j = Index(w)
        BY <2>2
      <4>4. dirs[d][i] # NULL /\ dirs[d][i] = dirs[c][j]
        BY <4>2, <4>3
      <4> QED
        BY <4>1, <4>3, <4>4 DEF OneIndex
    <3>2. d = c
      <4>1. OwnStacks
        BY DEF Private
      <4>2. PICK j \in StackIndices : j = Index(v)
        BY <2>1
      <4>3. dirs[d][j] # NULL /\ dirs[d][j] = dirs[c][j]
        BY <2>3, <2>4, <2>6, <3>1, <4>2
      <4> QED
        BY <4>1, <4>3 DEF OwnStacks
    <3> QED
      BY <1>1, <3>2
  <2> QED
    BY <1>2, <1>4, <2>2, <2>5, <2>6 DEF FrameHasOneOwner, Mapped
<1>5. ASSUME Lookup(d, v).present = 1 PROVE Reads(d, v)' = Reads(d, v)
  BY <1>2, <1>3, <1>4, <1>5 DEF Reads, TypeOK
<1> QED
  BY <1>3, <1>5

\* What a task does to its stack, no other task sees, whether it writes, forks,
\* grows the heap or ends (clone_directory, move_stack).
THEOREM StacksStayPrivate ==
    ASSUME Supported PROVE Spec => StacksArePrivate
<1>1. IInv /\ Private /\ [Next]_vars => IInv' /\ Private'
  BY Preserved, PPreserved
<1>2. Init => IInv /\ Private
  BY Initially, PInitially
<1>3. IInv /\ Private /\ [Next]_vars => [StacksKept]_vars
  <2> SUFFICES ASSUME IInv, Private, Next PROVE StacksKept
    BY DEF vars
  <2> USE DEF IInv
  <2>1. ASSUME NEW e \in Dirs, Clone(e) PROVE StacksKept
    BY <2>1, CloneKeepsReads, StackLayout DEF StacksKept
  <2>2. ASSUME UNCHANGED <<dirs, tables, memory>> PROVE StacksKept
    BY <2>2 DEF StacksKept, Lookup, Reads
  <2>3. CASE \E e \in Dirs : initialise_paging(e) \/ clone_directory(e)
    BY <2>1, <2>3 DEF initialise_paging, clone_directory
  <2>4. CASE \E e \in Dirs : switch_page_directory(e) \/ \E new \in Dirs : exit_task(e, new)
    BY <2>2, <2>4 DEF switch_page_directory, exit_task
  <2>5. CASE move_stack
    BY <2>5, MoveStackKeepsStacks
  <2>6. CASE \E n \in 1 .. TABLE : expand(n)
    BY <2>6, ExpandKeepsStacks
  <2>7. CASE \E w \in Writable, x \in Contents : write(w, x)
    BY <2>7, WriteKeepsStacks
  <2> QED
    BY <2>3, <2>4, <2>5, <2>6, <2>7 DEF Next
<1>4. Spec => [][StacksKept]_vars
  BY <1>1, <1>2, <1>3, PTL DEF Spec
<1> QED
  BY <1>4 DEF StacksArePrivate, StacksKept

=============================================================================
