------------------------------ MODULE Ramdisk ------------------------------
(***************************************************************************)
(* The initial ramdisk: the tar archive that the boot loader leaves in     *)
(* memory, the parser that lists its files (tar.c), the nodes made of them *)
(* (initrd.c), the calls of the VFS (vfs.c) and the walk by which kmain    *)
(* prints the files and their contents (vfs_print_content).                *)
(*                                                                         *)
(* An archive is chosen at the beginning and laid out in blocks by the     *)
(* rules of the format; the code sees only the bytes.  A byte of a file is *)
(* the pair of the file's number and the byte's place in it.               *)
(***************************************************************************)
EXTENDS Integers, Sequences

CONSTANTS
    BLOCK,          \* bytes of a block of the archive, 512
    DIGITS,         \* octal digits of a size, 11
    W,              \* 2^width of uint32_t
    LIMIT,          \* bytes that vfs_print_content reads of a file, 1024
    Names,          \* names of files
    FileSizes,      \* sizes of files
    MaxFiles,
    Offsets,        \* offsets and
    Lengths,        \* sizes that vfs_read is called with
    Permitted       \* situations the code does not handle; see AllSituations

\* "dev_file": a file has the name of the directory /dev.  "same_name": two files
\* have one name.  "wraps": offset + size of a read exceeds the width.
AllSituations == {"dev_file", "same_name", "wraps"}

ASSUME FormatAssumption ==
    /\ BLOCK \in Nat \ {0} /\ DIGITS \in Nat \ {0} /\ W \in Nat /\ LIMIT \in Nat /\ LIMIT < W
    /\ FileSizes \subseteq 0 .. W - 1 /\ \A n \in FileSizes : n < 8 ^ DIGITS
    /\ Offsets \cup Lengths \subseteq 0 .. W - 1
    /\ MaxFiles \in Nat /\ Permitted \subseteq AllSituations

VARIABLES
    archive,        \* history: the files in the archive
    pc,             \* "parse", "readdir", "show", "idle"
    p,              \* tar_parse_mem: the address of the next header
    tar_files,      \* the tail queue and its elements
    root_nodes,     \* the nodes of the files
    dirent,         \* the one directory entry that readdir fills
    index,          \* the walk's index
    shown,          \* history: what the walk has printed
    answer          \* history: the last read

vars == <<archive, pc, p, tar_files, root_nodes, dirent, index, shown, answer>>

-----------------------------------------------------------------------------
(* The archive in memory, external: after each header the data in whole    *)
(* blocks, behind the last file a block of zeros.                          *)

Blocks(n) == (n + BLOCK - 1) \div BLOCK
HeaderOf ==
    LET at[k \in 1 .. Len(archive) + 1] ==
            IF k = 1 THEN 0 ELSE at[k - 1] + BLOCK * (1 + Blocks(archive[k - 1].size))
    IN  at
DataOf(k) == HeaderOf[k] + BLOCK
Octal(n) == [d \in 1 .. DIGITS |-> (n \div 8 ^ (DIGITS - d)) % 8]

Files == 1 .. Len(archive)
IsHeader(a) == \E k \in Files : HeaderOf[k] = a
FileAt(a) == CHOOSE k \in Files : HeaderOf[k] = a
\* A byte: of a file, or of a header or a padding.
Byte(a) ==
    IF \E k \in Files : a \in DataOf(k) .. DataOf(k) + archive[k].size - 1
      THEN LET k == CHOOSE k \in Files : a \in DataOf(k) .. DataOf(k) + archive[k].size - 1
           IN  <<k, a - DataOf(k)>>
      ELSE <<0, 0>>
Bytes(a, n) == [i \in 1 .. n |-> Byte(a + i - 1)]

-----------------------------------------------------------------------------
(* The tail queue of queue.h: last names the field that the next insertion *)
(* writes, the first pointer of the head or the next pointer of an element.*)

NULL == 0
HEAD == -1

TAILQ_INIT == [first |-> NULL, last |-> HEAD, next |-> <<>>, tf |-> <<>>]
TAILQ_INSERT_TAIL(q, tf) ==
    LET elm == Len(q.tf) + 1
        next == Append(q.next, NULL)
    IN  [first |-> IF q.last = HEAD THEN elm ELSE q.first,
         last |-> elm,
         next |-> IF q.last = HEAD THEN next ELSE [next EXCEPT ![q.last] = elm],
         tf |-> Append(q.tf, tf)]

\* TAILQ_FOREACH: the elements in the order of the pointers.
Elements(q) ==
    LET from[k \in 0 .. Len(q.tf)] ==
            IF k = 0 THEN <<>>
            ELSE LET before == from[k - 1]
                     e == IF before = <<>> THEN q.first ELSE q.next[before[Len(before)]]
                 IN  IF Len(before) < k - 1 \/ e = NULL THEN before ELSE Append(before, e)
    IN  from[Len(q.tf)]

-----------------------------------------------------------------------------
(* tar_parse_mem and init_initrd.                                          *)

\* The octal digits, from the last one on.
getsize(in) ==
    LET size[j \in 0 .. DIGITS] ==
            IF j = 0 THEN 0 ELSE (size[j - 1] + in[DIGITS + 1 - j] * 8 ^ (j - 1)) % W
    IN  size[DIGITS]

\* One iteration: a header in front of p.
Parse ==
    /\ pc = "parse" /\ IsHeader(p)
    /\ LET header == archive[FileAt(p)]
           siz == getsize(Octal(header.size))
       IN  /\ tar_files' = TAILQ_INSERT_TAIL(tar_files,
                             [filename |-> header.name, datasiz |-> siz, data |-> p + BLOCK])
           /\ p' = p + (siz \div BLOCK + 1) * BLOCK + (IF siz % BLOCK # 0 THEN BLOCK ELSE 0)
    /\ UNCHANGED <<archive, pc, root_nodes, dirent, index, shown, answer>>

\* The empty name: the end of the archive.  init_initrd makes a node of each file,
\* and kmain begins to print them.
init_initrd ==
    /\ pc = "parse" /\ ~IsHeader(p)
    /\ LET es == Elements(tar_files)
       IN  root_nodes' = [k \in 1 .. Len(es) |-> [name |-> tar_files.tf[es[k]].filename,
                                                  length |-> tar_files.tf[es[k]].datasiz,
                                                  inode |-> k - 1]]
    /\ pc' = "readdir" /\ index' = 0
    /\ UNCHANGED <<archive, p, tar_files, dirent, shown, answer>>

-----------------------------------------------------------------------------
(* The nodes.  A file's node is its place in root_nodes.                   *)

ROOT == -1
DEV == -2
IsDirectory(node) == node \in {ROOT, DEV}
\* The callbacks that init_initrd gives a node.
Callbacks(node) == IF IsDirectory(node) THEN {"readdir", "finddir"} ELSE {"read"}
NoEntry == [name |-> "", inode |-> -1]

\* initrd_readdir, through vfs_readdir: the entry, NoEntry for none.  Index 0 wraps
\* in every directory but the root.
initrd_readdir_NoMinusOne(node, i) ==                                  \* mutant
    LET k == i % W
    IN  IF node = ROOT /\ i = 0 THEN [name |-> "dev", inode |-> 0]
        ELSE IF k >= Len(root_nodes) THEN NoEntry
        ELSE [name |-> root_nodes[k + 1].name, inode |-> root_nodes[k + 1].inode]
initrd_readdir(node, i) ==
    LET k == (i - 1) % W
    IN  IF node = ROOT /\ i = 0 THEN [name |-> "dev", inode |-> 0]
        ELSE IF k >= Len(root_nodes) THEN NoEntry
        ELSE [name |-> root_nodes[k + 1].name, inode |-> root_nodes[k + 1].inode]
vfs_readdir(node, i) ==
    IF IsDirectory(node) /\ "readdir" \in Callbacks(node) THEN initrd_readdir(node, i) ELSE NoEntry

\* initrd_finddir, through vfs_finddir: /dev in the root, else the first file of
\* that name.
initrd_finddir(node, name) ==
    LET found == {k \in DOMAIN root_nodes : root_nodes[k].name = name}
    IN  IF node = ROOT /\ name = "dev" THEN DEV
        ELSE IF found = {} THEN NULL
        ELSE CHOOSE k \in found : \A j \in found : k <= j
vfs_finddir(node, name) ==
    IF IsDirectory(node) /\ "finddir" \in Callbacks(node) THEN initrd_finddir(node, name) ELSE NULL

\* initrd_read, through vfs_read: the file is looked up by its name again.
initrd_read_NotClipped(node, offset, size) ==                          \* mutant
    LET es == Elements(tar_files)
        same == {k \in DOMAIN es : tar_files.tf[es[k]].filename = root_nodes[node].name}
        tf == tar_files.tf[es[CHOOSE k \in same : \A j \in same : k <= j]]
        n == IF (offset + size) % W > tf.datasiz THEN (tf.datasiz - offset) % W ELSE size
    IN  IF same = {} \/ offset > tf.datasiz THEN <<>> ELSE Bytes(tf.data + offset, size)
initrd_read(node, offset, size) ==
    LET es == Elements(tar_files)
        same == {k \in DOMAIN es : tar_files.tf[es[k]].filename = root_nodes[node].name}
        tf == tar_files.tf[es[CHOOSE k \in same : \A j \in same : k <= j]]
        n == IF (offset + size) % W > tf.datasiz THEN (tf.datasiz - offset) % W ELSE size
    IN  IF same = {} \/ offset > tf.datasiz THEN <<>> ELSE Bytes(tf.data + offset, n)
vfs_read(node, offset, size) ==
    IF "read" \in Callbacks(node) THEN initrd_read(node, offset, size) ELSE <<>>

-----------------------------------------------------------------------------
(* vfs_print_content.                                                      *)

Readdir ==
    /\ pc = "readdir"
    /\ LET entry == vfs_readdir(ROOT, index)
       IN  IF entry = NoEntry THEN pc' = "idle" /\ UNCHANGED dirent
           ELSE pc' = "show" /\ dirent' = entry
    /\ UNCHANGED <<archive, p, tar_files, root_nodes, index, shown, answer>>

\* A directory is named, of a file the first bytes are printed.
Show ==
    /\ pc = "show"
    /\ LET fsnode == vfs_finddir(ROOT, dirent.name)
       IN  shown' = Append(shown, [name |-> dirent.name, directory |-> IsDirectory(fsnode),
                                   text |-> vfs_read(fsnode, 0, LIMIT)])
    /\ index' = index + 1 /\ pc' = "readdir"
    /\ UNCHANGED <<archive, p, tar_files, root_nodes, dirent, answer>>

NoAnswer == [node |-> NULL, offset |-> 0, size |-> 0, bytes |-> <<>>]

\* A call of the interface, for any node and any part of it.
Read(node, offset, size) ==
    /\ pc = "idle"
    /\ offset + size >= W => "wraps" \in Permitted
    /\ answer' = [node |-> node, offset |-> offset, size |-> size,
                  bytes |-> vfs_read(node, offset, size)]
    /\ UNCHANGED <<archive, pc, p, tar_files, root_nodes, dirent, index, shown>>

\* No node has a callback for these: they return 0 and do nothing.
vfs_write(node) == "write" \notin Callbacks(node)
vfs_open(node) == "open" \notin Callbacks(node)
vfs_close(node) == "close" \notin Callbacks(node)
WriteOpenClose(node) ==
    /\ pc = "idle"
    /\ vfs_write(node) \/ vfs_open(node) \/ vfs_close(node)
    /\ answer' = NoAnswer
    /\ UNCHANGED <<archive, pc, p, tar_files, root_nodes, dirent, index, shown>>

-----------------------------------------------------------------------------

Archives ==
    {a \in UNION {[1 .. n -> [name : Names, size : FileSizes]] : n \in 0 .. MaxFiles} :
        /\ \/ "same_name" \in Permitted
           \/ \A j, k \in DOMAIN a : j # k => a[j].name # a[k].name
        /\ \/ "dev_file" \in Permitted
           \/ \A k \in DOMAIN a : a[k].name # "dev"}

Init ==
    /\ archive \in Archives
    /\ pc = "parse" /\ p = 0
    /\ tar_files = TAILQ_INIT
    /\ root_nodes = <<>> /\ dirent = NoEntry /\ index = 0
    /\ shown = <<>> /\ answer = NoAnswer

Next ==
    \/ Parse
    \/ init_initrd
    \/ Readdir
    \/ Show
    \/ \E node \in {ROOT} \cup DOMAIN root_nodes, offset \in Offsets, size \in Lengths :
         Read(node, offset, size)
    \/ \E node \in {ROOT} \cup DOMAIN root_nodes : WriteOpenClose(node)

Spec == Init /\ [][Next]_vars

-----------------------------------------------------------------------------
(* Properties.                                                             *)

\* The bytes of a file from place offset on, n at most.
Part(k, offset, n) ==
    LET len == archive[k].size
        m == IF offset >= len THEN 0 ELSE IF offset + n > len THEN len - offset ELSE n
    IN  [i \in 1 .. m |-> <<k, offset + i - 1>>]

TypeOK ==
    /\ archive \in Archives /\ pc \in {"parse", "readdir", "show", "idle"}
    /\ p \in 0 .. HeaderOf[Len(archive) + 1]
    /\ tar_files.first \in {NULL} \cup Files /\ tar_files.last \in {HEAD} \cup Files
    /\ \A k \in DOMAIN root_nodes : root_nodes[k].length < W

\* tar_parse_mem finds the files of the archive whatever their sizes: the walk prints
\* /dev and then each file under its own name with its own bytes, as many as the buffer
\* takes.
WalkShowsEveryFile ==
    /\ TypeOK
    /\ pc = "idle" =>
        shown = <<[name |-> "dev", directory |-> TRUE, text |-> <<>>]>>
                \o [k \in Files |-> [name |-> archive[k].name, directory |-> FALSE,
                                     text |-> Part(k, 0, LIMIT)]]

\* A read gives the bytes of its file that the range has, none behind its end and no
\* more than the caller asked for.
ReadsAreExact ==
    answer # NoAnswer =>
        answer.bytes = IF answer.node = ROOT THEN <<>>
                       ELSE Part(answer.node, answer.offset, answer.size)
=============================================================================
