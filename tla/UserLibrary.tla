---------------------------- MODULE UserLibrary ----------------------------
(***************************************************************************)
(* The part of the C library for OGOS programs that keeps state between    *)
(* calls or needs several system calls for one of its own: the start of a  *)
(* program (crt0, pre_main), the password file (pwent.c and getlogin),     *)
(* directories, the search for a command, and signal handlers.             *)
(*                                                                         *)
(* The kernel behind the system calls is external, and so are the other    *)
(* processes, which create, remove and chmod files between two system      *)
(* calls of this one.  The parts share no state in the library; a program  *)
(* here uses one of them.                                                  *)
(***************************************************************************)
EXTENDS Integers, Sequences, FiniteSetsExt, SequencesExt

CONSTANTS
    NULL,
    Parts,          \* parts of the library that programs use
    Passwords,      \* contents of /etc/passwd: sequences of lines
    Users, Uids,    \* names and numbers to look up
    Directories,
    DEFAULT_PATH,   \* the search path without a PATH, a sequence of directories
    PATH,           \* the one in the environment
    Entries,        \* names of files in directories
    MaxEntries,     \* bound on the entries of a directory
    Streams,        \* variables of type DIR * in the program
    OpenFiles,      \* bound on the descriptors, from 3 on
    Handlers,       \* handlers that the program installs
    Threads,        \* threads of the program
    Permitted       \* situations the code does not handle; see AllSituations

\* "unknown_uid": the program runs under a uid without an account.
\* "unlink_while_reading": an entry of a directory is removed while a stream is open
\* on it.
AllSituations == {"unknown_uid", "unlink_while_reading"}
AllParts == {"accounts", "directories", "commands", "signals"}

\* The calls of answers, the words of arguments and environments, a line of the password
\* file, a DIR and a search of execvp.
Calls == {"getpwent", "getpwnam", "getpwuid", "setpwent", "endpwent", "getlogin", "setuid",
          "execvp"}
Words == {"a", "HOME", "PATH"}
Account == [name : Users, uid : Uids, fields : Nat]
Stream == [fd : Nat, cur_entry : Int]
Search == [file : Entries, i : Nat, found : BOOLEAN, steady : SUBSET Directories]

ASSUME LibraryAssumption ==
    /\ Parts \subseteq AllParts /\ Permitted \subseteq AllSituations
    /\ MaxEntries \in Nat /\ OpenFiles \in Nat \ {0}
    /\ \A f \in Passwords : f \in Seq(Account)
    /\ DEFAULT_PATH \in Seq(Directories) /\ PATH \in Seq(Directories)
    /\ Directories \cap {"ENOENT", "failed"} = {}

\* The null pointer is none of the things it stands beside.
ASSUME NullAssumption ==
    /\ NULL \notin Handlers \cup Directories \cup Entries \cup Calls \cup Words
    /\ NULL \notin Nat \cup Threads \cup Account \cup Stream \cup Search
    /\ NULL \notin Seq(Handlers \cup {NULL}) \cup Seq(Words)

VARIABLES
    part,           \* the part this program uses
    env,            \* the environment it is started with
    environ,        \* what the library takes for it; NULL before pre_main
    passwd,         \* the lines of /etc/passwd
    uid,            \* the kernel's number of the user
    pwdb,           \* the open file: number of the next line, NULL if it is closed
    pw_ent,         \* the entry: NULL before it is allocated
    _username,      \* getlogin's buffer
    fs,             \* the entries of each directory, in the kernel's order
    executable,     \* the files <<directory, name>> with an executable bit
    fds,            \* the directory each descriptor is open on, NULL if free
    dirs,           \* the DIR of each stream, NULL if there is none
    seen,           \* history: what readdir has returned on a stream
    steady,         \* history: entries that the stream's directory has had since opendir
    search,         \* execvp: the file, the place in the path, whether stat has found it,
                    \*   history: the directories that have had it since the call; or NULL
    handler,        \* the kernel's handler, NULL for the default
    installed,      \* history: the handler the program wants
    querying,       \* per thread: what sigaction got and has to set again, or NULL
    answer          \* history: the last call and what it returned

accounts == <<passwd, uid, pwdb, pw_ent, _username>>
directories == <<fds, dirs, seen>>
signals == <<handler, installed, querying>>
vars == <<part, env, environ, accounts, fs, executable, directories, steady, search,
          signals, answer>>

NoAnswer == [call |-> NULL, arg |-> NULL, value |-> NULL]
Returns(call, arg, value) == answer' = [call |-> call, arg |-> arg, value |-> value]
NoQuery == [t \in Threads |-> NULL]
Started == environ # NULL

Init ==
    /\ part \in Parts
    /\ env \in {<<>>, <<"HOME">>, <<"HOME", "PATH">>}
    /\ environ = NULL
    /\ passwd \in IF part = "accounts" THEN Passwords ELSE {<<>>}
    /\ uid \in IF part = "accounts" THEN Uids ELSE {0}
    /\ pwdb = NULL /\ pw_ent = NULL /\ _username = NULL
    /\ fs = [d \in Directories |-> <<>>] /\ executable = {}
    /\ fds = [d \in 3 .. 2 + OpenFiles |-> NULL]
    /\ dirs = [s \in Streams |-> NULL] /\ seen = [s \in Streams |-> <<>>]
    /\ steady = [s \in Streams |-> {}]
    /\ search = NULL
    /\ handler = NULL /\ installed = NULL /\ querying = NoQuery
    /\ answer = NoAnswer

-----------------------------------------------------------------------------
(* The start: the kernel leaves the arguments, a null, the environment and *)
(* a null on the stack; the library finds the environment behind the first *)
(* null and keeps its own empty one if there is nothing.                   *)

Vector(argv) == argv \o <<NULL>> \o env \o <<NULL>>
Environment(v) ==
    LET nulls == {x \in DOMAIN v : v[x] = NULL}
        x == Min(nulls) + 1
    IN  IF v[x] = NULL THEN <<>> ELSE SubSeq(v, x, Min(nulls \ {x - 1}) - 1)

pre_main ==
    /\ environ = NULL
    /\ \E argv \in {<<>>, <<"PATH">>, <<"a", "PATH">>} : environ' = Environment(Vector(argv))
    /\ UNCHANGED <<part, env, accounts, fs, executable, directories, steady, search, signals, answer>>

-----------------------------------------------------------------------------
(* The password file.  A line with fewer than eight fields that are not    *)
(* empty gives NULL, as the end of the file does; then the buffer that the *)
(* entry points into has been overwritten.                                 *)

FIELDS == 8
BLANK == "blank"
fgetpwent(line) ==
    IF line \in DOMAIN passwd /\ passwd[line].fields >= FIELDS THEN passwd[line] ELSE NULL
Next_(line) == IF line \in DOMAIN passwd THEN line + 1 ELSE line
Kept(p) == IF p = NULL THEN BLANK ELSE p

Opened == IF pwdb = NULL THEN 1 ELSE pwdb
setpwent_Nothing == pwdb                                               \* mutant
setpwent == IF pwdb = NULL THEN NULL ELSE 1

getpwent ==
    LET p == fgetpwent(Opened)
    IN  /\ pwdb' = Next_(Opened) /\ pw_ent' = Kept(p)
        /\ Returns("getpwent", Opened, p)
        /\ UNCHANGED <<passwd, uid, _username>>

\* The loop of getpwnam and getpwuid: from where setpwent leaves the file up to the
\* first entry that matches or the first NULL.
Lookup(call, arg, matches) ==
    LET from == IF setpwent = NULL THEN 1 ELSE setpwent
        line == Min({l \in from .. Len(passwd) + 1 : fgetpwent(l) = NULL \/ l \in matches})
    IN  /\ pwdb' = Next_(line) /\ pw_ent' = Kept(fgetpwent(line))
        /\ Returns(call, arg, fgetpwent(line))
        /\ UNCHANGED <<passwd, uid, _username>>
getpwnam(name) == Lookup("getpwnam", name, {l \in DOMAIN passwd : passwd[l].name = name})
getpwuid(u) == Lookup("getpwuid", u, {l \in DOMAIN passwd : passwd[l].uid = u})

rewind == pwdb' = setpwent /\ Returns("setpwent", NULL, NULL) /\ UNCHANGED <<passwd, uid, pw_ent, _username>>
endpwent ==
    /\ pwdb' = NULL /\ pw_ent' = NULL
    /\ Returns("endpwent", NULL, NULL) /\ UNCHANGED <<passwd, uid, _username>>

\* Reads the file for itself, and every line whatever its fields; without a match the
\* buffer keeps what it has.
getlogin ==
    LET lines == {l \in DOMAIN passwd : passwd[l].uid = uid}
        name == IF lines = {} THEN _username ELSE passwd[Min(lines)].name
    IN  _username' = name /\ Returns("getlogin", uid, name) /\ UNCHANGED <<passwd, uid, pwdb, pw_ent>>

Known(u) == \E l \in DOMAIN passwd : passwd[l].uid = u
setuid(u) ==
    /\ Known(u) \/ "unknown_uid" \in Permitted
    /\ uid' = u /\ Returns("setuid", u, 0) /\ UNCHANGED <<passwd, pwdb, pw_ent, _username>>

Accounts ==
    /\ Started /\ part = "accounts"
    /\ \/ getpwent \/ rewind \/ endpwent
       \/ \E n \in Users : getpwnam(n)
       \/ \E u \in Uids : getpwuid(u) \/ setuid(u)
       \/ (Known(uid) \/ "unknown_uid" \in Permitted) /\ getlogin
    /\ UNCHANGED <<part, env, environ, fs, executable, directories, steady, search, signals>>

-----------------------------------------------------------------------------
(* Directories.  The kernel gives the lowest free descriptor and an entry  *)
(* by its number; the stream counts.                                       *)

open_(d) ==
    LET free == {k \in DOMAIN fds : fds[k] = NULL} IN IF free = {} THEN -1 ELSE Min(free)

DIR_AtZero(fd) == [fd |-> fd, cur_entry |-> 0]                         \* mutant
DIR(fd) == [fd |-> fd, cur_entry |-> -1]

opendir(s, d) ==
    /\ dirs[s] = NULL
    /\ IF open_(d) = -1
         THEN UNCHANGED <<fds, dirs, seen, steady>>
         ELSE /\ fds' = [fds EXCEPT ![open_(d)] = d]
              /\ dirs' = [dirs EXCEPT ![s] = DIR(open_(d))]
              /\ seen' = [seen EXCEPT ![s] = <<>>]
              /\ steady' = [steady EXCEPT ![s] = Range(fs[d])]

syscall_readdir(fd, entry) == IF entry < Len(fs[fds[fd]]) THEN fs[fds[fd]][entry + 1] ELSE NULL

readdir(s) ==
    /\ dirs[s] # NULL /\ dirs[s].cur_entry <= MaxEntries
    /\ LET entry == dirs[s].cur_entry + 1
       IN  /\ dirs' = [dirs EXCEPT ![s].cur_entry = entry]
           /\ seen' = [seen EXCEPT ![s] = Append(@, syscall_readdir(dirs[s].fd, entry))]
    /\ UNCHANGED <<fds, steady>>

\* The structure is not freed, nor its descriptor reset; the program forgets it.
closedir(s) ==
    /\ dirs[s] # NULL
    /\ fds' = [fds EXCEPT ![dirs[s].fd] = NULL]
    /\ dirs' = [dirs EXCEPT ![s] = NULL]
    /\ seen' = [seen EXCEPT ![s] = <<>>] /\ steady' = [steady EXCEPT ![s] = {}]

ReadDirectories ==
    /\ Started /\ part = "directories"
    /\ \E s \in Streams : (\E d \in Directories : opendir(s, d)) \/ readdir(s) \/ closedir(s)
    /\ UNCHANGED <<part, env, environ, accounts, fs, executable, search, signals, answer>>

-----------------------------------------------------------------------------
(* The search for a command: a stat in each directory of the path, then    *)
(* execve of the first one that is executable.                             *)

Path == IF "PATH" \in Range(environ) THEN PATH ELSE DEFAULT_PATH
stat(d, file) ==
    IF file \in Range(fs[d]) THEN [r |-> 0, x |-> <<d, file>> \in executable]
    ELSE [r |-> -1, x |-> FALSE]
Runs(d, file) == stat(d, file).r = 0 /\ stat(d, file).x

execvp(file) ==
    /\ search = NULL
    /\ search' = [file |-> file, i |-> 1, found |-> FALSE,
                  steady |-> {d \in Range(Path) : Runs(d, file)}]
    /\ UNCHANGED <<env, environ, answer>>

Stat_StopsAtFirst ==                                                   \* mutant
    /\ search # NULL /\ ~search.found /\ search.i <= Len(Path)
    /\ search' = IF Runs(Path[search.i], search.file) THEN [search EXCEPT !.found = TRUE]
                 ELSE [search EXCEPT !.i = Len(Path) + 1]
    /\ UNCHANGED <<env, environ, answer>>
Stat ==
    /\ search # NULL /\ ~search.found /\ search.i <= Len(Path)
    /\ search' = IF Runs(Path[search.i], search.file) THEN [search EXCEPT !.found = TRUE]
                 ELSE [search EXCEPT !.i = @ + 1]
    /\ UNCHANGED <<env, environ, answer>>

Searched == [had |-> search.steady, path |-> Path, i |-> search.i]
NotFound ==
    /\ search # NULL /\ search.i > Len(Path)
    /\ search' = NULL /\ Returns("execvp", Searched, "ENOENT")
    /\ UNCHANGED <<env, environ>>

\* The kernel replaces the program, which starts with the environment of this one, or
\* fails: then execvp returns what execve returned.
execve ==
    /\ search # NULL /\ search.found
    /\ search' = NULL
    /\ IF Runs(Path[search.i], search.file)
         THEN /\ Returns("execvp", Searched, Path[search.i])
              /\ env' = environ /\ environ' = NULL
         ELSE /\ Returns("execvp", Searched, "failed")
              /\ UNCHANGED <<env, environ>>

\* Without a search, for a name that has its directory.
execv(d, file) ==
    /\ search = NULL /\ Runs(d, file)
    /\ env' = environ /\ environ' = NULL /\ answer' = NoAnswer
    /\ UNCHANGED search

Commands ==
    /\ Started /\ part = "commands"
    /\ \/ \E file \in Entries : execvp(file) \/ \E d \in Directories : execv(d, file)
       \/ Stat \/ NotFound \/ execve
    /\ UNCHANGED <<part, accounts, fs, executable, directories, steady, signals>>

-----------------------------------------------------------------------------
(* Other processes.                                                        *)

Create(d, n) ==
    /\ n \notin Range(fs[d]) /\ Len(fs[d]) < MaxEntries
    /\ fs' = [fs EXCEPT ![d] = Append(@, n)]
    /\ UNCHANGED <<executable, steady, search>>

Loses(d, n) ==
    search' = IF search # NULL /\ search.file = n THEN [search EXCEPT !.steady = @ \ {d}] ELSE search

Unlink(d, n) ==
    /\ n \in Range(fs[d])
    /\ Loses(d, n)
    /\ d \in Range(fds) => "unlink_while_reading" \in Permitted
    /\ \E i \in DOMAIN fs[d] : fs[d][i] = n /\ fs' = [fs EXCEPT ![d] = RemoveAt(@, i)]
    /\ executable' = executable \ {<<d, n>>}
    /\ steady' = [s \in Streams |-> IF dirs[s] # NULL /\ fds[dirs[s].fd] = d
                                      THEN steady[s] \ {n} ELSE steady[s]]

chmod(d, n) ==
    /\ n \in Range(fs[d])
    /\ IF <<d, n>> \in executable
         THEN executable' = executable \ {<<d, n>>} /\ Loses(d, n)
         ELSE executable' = executable \cup {<<d, n>>} /\ UNCHANGED search
    /\ UNCHANGED <<fs, steady>>

Others ==
    /\ part \in {"directories", "commands"}
    /\ \E d \in Directories, n \in Entries :
        Create(d, n) \/ Unlink(d, n) \/ (part = "commands" /\ chmod(d, n))
    /\ UNCHANGED <<part, env, environ, accounts, directories, signals, answer>>

-----------------------------------------------------------------------------
(* One signal of the program.  The kernel can set a handler and return the *)
(* one before, so that a query is two calls, between which other threads   *)
(* run.                                                                    *)

signal(t, h) ==
    /\ querying[t] = NULL
    /\ handler' = h /\ installed' = h
    /\ UNCHANGED querying

QueryTakes(t) ==
    /\ querying[t] = NULL
    /\ querying' = [querying EXCEPT ![t] = <<handler>>]
    /\ handler' = NULL
    /\ UNCHANGED installed
QueryRestores(t) ==
    /\ querying[t] # NULL
    /\ handler' = querying[t][1]
    /\ querying' = [querying EXCEPT ![t] = NULL]
    /\ UNCHANGED installed

Signals ==
    /\ Started /\ part = "signals"
    /\ \E t \in Threads : (\E h \in Handlers : signal(t, h)) \/ QueryTakes(t) \/ QueryRestores(t)
    /\ UNCHANGED <<part, env, environ, accounts, fs, executable, directories, steady, search, answer>>

-----------------------------------------------------------------------------
Next == pre_main \/ Accounts \/ ReadDirectories \/ Commands \/ Others \/ Signals

Spec == Init /\ [][Next]_vars

-----------------------------------------------------------------------------
\* An account is found by its name, by its number and by getlogin whatever has been
\* read, closed or looked up before: the first one in the file, and NULL if there is
\* none (pwent.c, getlogin).
First(lines) == IF lines = {} THEN NULL ELSE passwd[Min(lines)]
Named(name) == {l \in DOMAIN passwd : passwd[l].name = name}
Numbered(u) == {l \in DOMAIN passwd : passwd[l].uid = u}
AccountsFound ==
    /\ answer.call = "getpwnam" => answer.value = First(Named(answer.arg))
    /\ answer.call = "getpwuid" => answer.value = First(Numbered(answer.arg))
    /\ answer.call = "getlogin" =>
        LET p == First(Numbered(answer.arg))
        IN  answer.value = IF p = NULL THEN NULL ELSE p.name

\* However the streams of a program and the creation of files interleave, a stream gives
\* no entry twice, and all that the directory has had since opendir before its end.
EachEntryOnce ==
    \A s \in Streams : dirs[s] # NULL =>
        /\ \A i, j \in DOMAIN seen[s] : seen[s][i] = seen[s][j] /\ seen[s][i] # NULL => i = j
        /\ NULL \in Range(seen[s]) => steady[s] \subseteq Range(seen[s])

\* A program has the environment it was given.  execvp runs a command from a directory
\* that none before it in the path has surpassed during the whole call, and returns
\* ENOENT only if no directory has had the command all the time.  Where execve fails,
\* because others have taken the command away since stat has found it, that directory
\* and those before it have not had it all the time either; those behind are not tried.
CommandIsFound ==
    /\ Started => environ = env
    /\ answer.call = "execvp" =>
        LET s == answer.arg
        IN  /\ \A j \in 1 .. s.i - 1 : s.path[j] \notin s.had
            /\ answer.value \in Directories => s.i \in DOMAIN s.path /\ answer.value = s.path[s.i]
            /\ answer.value = "ENOENT" => s.had = {}
            /\ answer.value = "failed" => s.path[s.i] \notin s.had

\* sigaction says of a query that it sets the handler "back to whatever it was"
\* (ogos/syscalls.c:663): while no query is under way, the handler is the one that the
\* program has installed last.
QuerySetsBack == querying = NoQuery => handler = installed
=============================================================================
