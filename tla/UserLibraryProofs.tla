------------------------- MODULE UserLibraryProofs -------------------------
(***************************************************************************)
(* What the library keeps between system calls, for any password file,     *)
(* directories and path: the invariants of UserLibrary, outside the        *)
(* situations of AllSituations.                                            *)
(***************************************************************************)
EXTENDS UserLibrary, TLAPS, SequenceTheorems, WellFoundedInduction

\* Every line of the password file has its fields, as the one of the ramdisk has.
Complete == \A f \in Passwords : \A l \in DOMAIN f : f[l].fields >= FIELDS

-----------------------------------------------------------------------------
(* The least number of a set.                                              *)

LEMMA LeastNumber ==
    ASSUME NEW S \in SUBSET Nat, S # {}
    PROVE  \E m \in S : \A k \in S : m <= k
<1>1. PICK R : R = OpToRel(<, Nat)
  OBVIOUS
<1>2. IsWellFoundedOn(R, Nat)
  BY <1>1, NatLessThanWellFounded
<1>3. PICK m \in S : \A k \in S : ~(<<k, m>> \in R)
  BY <1>2, WFMin
<1>4. \A i, j \in Nat : i < j => <<i, j>> \in R
  BY <1>1 DEF OpToRel
<1>5. \A k \in S : ~(k < m)
  BY <1>3, <1>4
<1> QED BY <1>5

LEMMA MinIsLeast ==
    ASSUME NEW S \in SUBSET Nat, S # {}
    PROVE  Min(S) \in S /\ \A k \in S : Min(S) <= k
BY LeastNumber DEF Min

LEMMA MinIs ==
    ASSUME NEW S \in SUBSET Nat, NEW m \in S, \A k \in S : m <= k
    PROVE  Min(S) = m
<1>1. Min(S) \in Nat /\ m \in Nat /\ Min(S) <= m /\ m <= Min(S)
  BY MinIsLeast
<1> QED BY <1>1

-----------------------------------------------------------------------------
(* Which calls the parts of the library answer.                            *)

LEMMA AccountsAnswer ==
    ASSUME Accounts
    PROVE  answer'.call \in {"getpwent", "setpwent", "endpwent", "getpwnam", "getpwuid",
                             "setuid", "getlogin"}
<1>1. ASSUME NEW call, NEW arg, NEW matches, Lookup(call, arg, matches)
      PROVE  answer'.call = call
  BY <1>1 DEF Lookup, Returns
<1>2. ASSUME NEW n \in Users, getpwnam(n) PROVE answer'.call = "getpwnam"
  BY <1>1, <1>2 DEF getpwnam
<1>3. ASSUME NEW u \in Uids, getpwuid(u) PROVE answer'.call = "getpwuid"
  BY <1>1, <1>3 DEF getpwuid
<1>4. ASSUME NEW u \in Uids, setuid(u) PROVE answer'.call = "setuid"
  BY <1>4 DEF setuid, Returns
<1>5. ASSUME getpwent \/ rewind \/ endpwent
      PROVE  answer'.call \in {"getpwent", "setpwent", "endpwent"}
  BY <1>5 DEF getpwent, rewind, endpwent, Returns
<1>6. ASSUME getlogin PROVE answer'.call = "getlogin"
  BY <1>6 DEF getlogin, Returns
<1> QED BY <1>2, <1>3, <1>4, <1>5, <1>6 DEF Accounts

LEMMA CommandsAnswer ==
    ASSUME Commands
    PROVE  answer' = answer \/ answer'.call \notin Calls \/ answer'.call = "execvp"
<1>1. answer' = answer \/ answer'.call \in {NULL, "execvp"}
  BY DEF Commands, execvp, execv, Stat, NotFound, execve, Returns, NoAnswer
<1>2. NULL \notin Calls
  BY NullAssumption
<1> QED BY <1>1, <1>2

-----------------------------------------------------------------------------
(* The accounts.                                                           *)

AccountsInv ==
    /\ passwd \in Seq(Account)
    /\ \A l \in DOMAIN passwd : passwd[l].fields >= FIELDS
    /\ AccountsFound

\* In a complete file the loop of getpwnam and getpwuid ends at the first match.
LEMMA FirstMatch ==
    ASSUME AccountsInv, NEW matches \in SUBSET DOMAIN passwd,
           NEW line, line = Min({l \in 1 .. Len(passwd) + 1 : fgetpwent(l) = NULL \/ l \in matches})
    PROVE  fgetpwent(line) = First(matches)
<1> DEFINE stops == {l \in 1 .. Len(passwd) + 1 : fgetpwent(l) = NULL \/ l \in matches}
<1>1. /\ Len(passwd) \in Nat /\ DOMAIN passwd = 1 .. Len(passwd)
      /\ \A l \in DOMAIN passwd : passwd[l] \in Account
  BY DEF AccountsInv
<1>2. \A l \in DOMAIN passwd : fgetpwent(l) = passwd[l] /\ passwd[l] # NULL
  BY <1>1, NullAssumption DEF fgetpwent, AccountsInv
<1>3. fgetpwent(Len(passwd) + 1) = NULL
  BY <1>1 DEF fgetpwent
<1>4. CASE matches = {}
  <2>1. stops = {Len(passwd) + 1}
    BY <1>1, <1>2, <1>3, <1>4
  <2>2. line = Len(passwd) + 1
    BY <1>1, <2>1, MinIs
  <2> QED BY <1>3, <1>4, <2>2 DEF First
<1>5. CASE matches # {}
  <2>1. matches \in SUBSET Nat
    BY <1>1
  <2>2. Min(matches) \in matches /\ \A k \in matches : Min(matches) <= k
    BY <1>5, <2>1, MinIsLeast
  <2>3. Min(matches) \in stops /\ \A k \in stops : Min(matches) <= k
    BY <1>1, <1>2, <2>2
  <2>4. line = Min(matches)
    BY <1>1, <2>3, MinIs
  <2> QED BY <1>2, <1>5, <2>2, <2>4 DEF First
<1> QED BY <1>4, <1>5

\* The calls whose answers AccountsFound speaks of.
AccountCalls == {"getpwnam", "getpwuid", "getlogin"}

LEMMA OtherAnswersKeepAccounts ==
    ASSUME AccountsInv, passwd' = passwd, answer' = answer \/ answer'.call \notin AccountCalls
    PROVE  AccountsInv'
BY DEF AccountsInv, AccountsFound, AccountCalls, First, Named, Numbered

LEMMA LookupKeepsAccounts ==
    ASSUME AccountsInv, NEW call \in {"getpwnam", "getpwuid"}, NEW arg,
           Lookup(call, arg, IF call = "getpwnam" THEN Named(arg) ELSE Numbered(arg))
    PROVE  AccountsInv'
<1> DEFINE matches == IF call = "getpwnam" THEN Named(arg) ELSE Numbered(arg)
           from == IF setpwent = NULL THEN 1 ELSE setpwent
           line == Min({l \in from .. Len(passwd) + 1 : fgetpwent(l) = NULL \/ l \in matches})
<1>1. from = 1
  BY NullAssumption DEF setpwent
<1>2. matches \in SUBSET DOMAIN passwd
  BY DEF Named, Numbered
<1>3. fgetpwent(line) = First(matches)
  BY <1>1, <1>2, FirstMatch
<1>4. passwd' = passwd /\ answer' = [call |-> call, arg |-> arg, value |-> First(matches)]
  BY <1>3 DEF Lookup, Returns
<1> QED BY <1>4 DEF AccountsInv, AccountsFound, First, Named, Numbered

LEMMA LoginKeepsAccounts ==
    ASSUME AccountsInv, Known(uid), getlogin
    PROVE  AccountsInv'
<1>1. Numbered(uid) # {} /\ Numbered(uid) \in SUBSET DOMAIN passwd
  BY DEF Known, Numbered
<1>2. DOMAIN passwd \in SUBSET Nat /\ \A l \in DOMAIN passwd : passwd[l] \in Account
  BY DEF AccountsInv
<1>3. Min(Numbered(uid)) \in DOMAIN passwd
  BY <1>1, <1>2, MinIsLeast
<1>4. First(Numbered(uid)) = passwd[Min(Numbered(uid))] /\ First(Numbered(uid)) # NULL
  BY <1>1, <1>2, <1>3, NullAssumption DEF First
<1>5. /\ passwd' = passwd
      /\ answer' = [call |-> "getlogin", arg |-> uid, value |-> First(Numbered(uid)).name]
  BY <1>1, <1>4 DEF getlogin, Returns, Numbered
<1> QED BY <1>4, <1>5 DEF AccountsInv, AccountsFound, First, Named, Numbered

\* Whatever is read, closed or looked up before, every step keeps what the calls
\* promise of an account.
LEMMA AccountsStep ==
    ASSUME AccountsInv, [Next]_vars, "unknown_uid" \notin Permitted
    PROVE  AccountsInv'
<1>1. CASE pre_main \/ ReadDirectories \/ Others
  BY <1>1, OtherAnswersKeepAccounts DEF pre_main, ReadDirectories, Others, accounts
<1>2. CASE Accounts
  <2>1. CASE getpwent \/ rewind \/ endpwent
    BY <2>1, OtherAnswersKeepAccounts
       DEF getpwent, rewind, endpwent, Returns, AccountCalls
  <2>2. ASSUME NEW n \in Users, getpwnam(n) PROVE AccountsInv'
    BY <2>2, LookupKeepsAccounts DEF getpwnam, Named
  <2>3. ASSUME NEW u \in Uids, getpwuid(u) PROVE AccountsInv'
    <3>1. Lookup("getpwuid", u, IF "getpwuid" = "getpwnam" THEN Named(u) ELSE Numbered(u))
      BY <2>3 DEF getpwuid, Numbered
    <3> QED BY <3>1, LookupKeepsAccounts
  <2>4. ASSUME NEW u \in Uids, setuid(u) PROVE AccountsInv'
    BY <2>4, OtherAnswersKeepAccounts DEF setuid, Returns, AccountCalls
  <2>5. CASE Known(uid) /\ getlogin
    BY <2>5, LoginKeepsAccounts
  <2> QED BY <1>2, <2>1, <2>2, <2>3, <2>4, <2>5 DEF Accounts
<1>3. CASE Commands
  <2>1. passwd' = passwd
    BY <1>3 DEF Commands, accounts
  <2> QED BY <1>3, <2>1, CommandsAnswer, OtherAnswersKeepAccounts DEF AccountCalls, Calls
<1>4. CASE Signals
  BY <1>4, OtherAnswersKeepAccounts DEF Signals, accounts
<1>5. CASE UNCHANGED vars
  BY <1>5, OtherAnswersKeepAccounts DEF vars, accounts
<1> QED BY <1>1, <1>2, <1>3, <1>4, <1>5 DEF Next

\* getpwnam, getpwuid and getlogin find the first account that matches, in any order of
\* calls (pwent.c, getlogin), for every password file whose lines have all their fields.
THEOREM AccountsAreFound ==
    Complete /\ "unknown_uid" \notin Permitted => (Spec => []AccountsFound)
<1> SUFFICES ASSUME Complete, "unknown_uid" \notin Permitted
             PROVE  Spec => []AccountsFound
  OBVIOUS
<1>1. Init => AccountsInv
  <2> SUFFICES ASSUME Init PROVE AccountsInv
    OBVIOUS
  <2>1. passwd \in Passwords \/ passwd = <<>>
    BY DEF Init
  <2>2. passwd \in Seq(Account)
    <3>1. <<>> \in Seq(Account)
      OBVIOUS
    <3>2. \A f \in Passwords : f \in Seq(Account)
      BY LibraryAssumption
    <3> QED BY <2>1, <3>1, <3>2
  <2>3. \A l \in DOMAIN passwd : passwd[l].fields >= FIELDS
    BY <2>1 DEF Complete
  <2>4. answer.call \notin AccountCalls
    BY NullAssumption DEF Init, NoAnswer, AccountCalls, Calls
  <2> QED BY <2>2, <2>3, <2>4 DEF AccountsInv, AccountsFound, AccountCalls
<1>2. AccountsInv /\ [Next]_vars => AccountsInv'
  BY AccountsStep
<1>3. AccountsInv => AccountsFound
  BY DEF AccountsInv
<1> QED BY <1>1, <1>2, <1>3, PTL DEF Spec

-----------------------------------------------------------------------------
(* The files of the directories, which other processes change.             *)

FilesInv ==
    /\ fs \in [Directories -> Seq(Entries)]
    /\ \A d \in Directories : \A i, j \in DOMAIN fs[d] : fs[d][i] = fs[d][j] => i = j

LEMMA RemovedAt ==
    ASSUME NEW S, NEW q \in Seq(S), NEW i \in DOMAIN q
    PROVE  /\ RemoveAt(q, i) \in Seq(S) /\ Len(RemoveAt(q, i)) = Len(q) - 1
           /\ \A k \in 1 .. Len(q) - 1 :
                 RemoveAt(q, i)[k] = IF k < i THEN q[k] ELSE q[k + 1]
<1> DEFINE n == Len(q)
           a == SubSeq(q, 1, i - 1)
           b == SubSeq(q, i + 1, n)
<1>1. n \in Nat /\ i \in 1 .. n /\ \A k \in 1 .. n : q[k] \in S
  OBVIOUS
<1>2. a \in Seq(S) /\ Len(a) = i - 1 /\ \A k \in 1 .. i - 1 : a[k] = q[k]
  BY <1>1
<1>3. b \in Seq(S) /\ Len(b) = n - i /\ \A k \in 1 .. n - i : b[k] = q[i + k]
  BY <1>1
<1> HIDE DEF n, a, b
<1>4. /\ a \o b \in Seq(S) /\ Len(a \o b) = n - 1
      /\ \A k \in 1 .. n - 1 : (a \o b)[k] = IF k < i THEN a[k] ELSE b[k - i + 1]
  <2>1. /\ a \o b \in Seq(S) /\ Len(a \o b) = (i - 1) + (n - i)
        /\ \A k \in 1 .. (i - 1) + (n - i) :
              (a \o b)[k] = IF k <= i - 1 THEN a[k] ELSE b[k - (i - 1)]
    <3>1. /\ a \o b \in Seq(S) /\ Len(a \o b) = Len(a) + Len(b)
          /\ \A k \in 1 .. Len(a) + Len(b) :
                (a \o b)[k] = IF k <= Len(a) THEN a[k] ELSE b[k - Len(a)]
      BY <1>2, <1>3, ConcatProperties
    <3> QED BY <1>2, <1>3, <3>1
  <2>2. (i - 1) + (n - i) = n - 1
    BY <1>1
  <2>3. \A k \in 1 .. n - 1 : (k < i <=> k <= i - 1) /\ k - (i - 1) = k - i + 1
    BY <1>1
  <2> QED BY <2>1, <2>2, <2>3
<1>5. RemoveAt(q, i) = a \o b
  BY DEF RemoveAt, n, a, b
<1>6. ASSUME NEW k \in 1 .. n - 1
      PROVE  RemoveAt(q, i)[k] = IF k < i THEN q[k] ELSE q[k + 1]
  <2>1. CASE k < i
    BY <1>1, <1>2, <1>4, <1>5, <2>1
  <2>2. CASE ~(k < i)
    <3>1. k - i + 1 \in 1 .. n - i /\ i + (k - i + 1) = k + 1
      BY <1>1, <2>2
    <3> QED BY <1>3, <1>4, <1>5, <2>2, <3>1
  <2> QED BY <2>1, <2>2
<1> QED BY <1>4, <1>5, <1>6 DEF n

\* What Unlink leaves of a directory: all but the entry, each once.
LEMMA UnlinkLeaves ==
    ASSUME FilesInv, NEW d \in Directories, NEW i \in DOMAIN fs[d]
    PROVE  LET q == RemoveAt(fs[d], i)
           IN  /\ q \in Seq(Entries)
               /\ \A k, l \in DOMAIN q : q[k] = q[l] => k = l
               /\ Range(q) = Range(fs[d]) \ {fs[d][i]}
<1> DEFINE p == fs[d]
           q == RemoveAt(p, i)
<1>1. p \in Seq(Entries) /\ Len(p) \in Nat /\ DOMAIN p = 1 .. Len(p) /\ i \in 1 .. Len(p)
  BY DEF FilesInv
<1>2. \A k, l \in DOMAIN p : p[k] = p[l] => k = l
  BY DEF FilesInv
<1> HIDE DEF p
<1>3. /\ q \in Seq(Entries) /\ DOMAIN q = 1 .. Len(p) - 1
      /\ \A k \in 1 .. Len(p) - 1 : q[k] = IF k < i THEN p[k] ELSE p[k + 1]
  <2>1. q \in Seq(Entries) /\ Len(q) = Len(p) - 1
    BY <1>1, RemovedAt
  <2>2. \A k \in 1 .. Len(p) - 1 : q[k] = IF k < i THEN p[k] ELSE p[k + 1]
    BY <1>1, RemovedAt
  <2> QED BY <2>1, <2>2
<1> HIDE DEF q
<1>4. ASSUME NEW k \in DOMAIN q, NEW l \in DOMAIN q, q[k] = q[l] PROVE k = l
  <2>1. PICK k1 \in DOMAIN p : q[k] = p[k1] /\ k1 = IF k < i THEN k ELSE k + 1
    BY <1>1, <1>3
  <2>2. PICK l1 \in DOMAIN p : q[l] = p[l1] /\ l1 = IF l < i THEN l ELSE l + 1
    BY <1>1, <1>3
  <2>3. k1 = l1
    BY <1>2, <1>4, <2>1, <2>2
  <2> QED BY <1>1, <1>3, <2>1, <2>2, <2>3
<1>5. \A k \in DOMAIN q : q[k] \in Range(p) \ {p[i]}
  BY <1>1, <1>3, <1>2 DEF Range
<1>6. ASSUME NEW k \in DOMAIN p, k # i PROVE p[k] \in Range(q)
  <2>1. CASE k < i
    BY <1>1, <1>3, <1>6, <2>1 DEF Range
  <2>2. CASE k > i
    <3>1. k - 1 \in DOMAIN q /\ q[k - 1] = p[k]
      BY <1>1, <1>3, <1>6, <2>2
    <3> QED BY <3>1 DEF Range
  <2> QED BY <1>1, <1>6, <2>1, <2>2
<1>7. Range(q) = Range(p) \ {p[i]}
  BY <1>5, <1>6 DEF Range
<1> QED BY <1>3, <1>4, <1>7 DEF p, q

LEMMA CreateLeaves ==
    ASSUME FilesInv, NEW d \in Directories, NEW n \in Entries, n \notin Range(fs[d])
    PROVE  LET q == Append(fs[d], n)
           IN  /\ q \in Seq(Entries)
               /\ \A k, l \in DOMAIN q : q[k] = q[l] => k = l
               /\ Range(q) = Range(fs[d]) \cup {n}
<1> DEFINE p == fs[d]
           q == Append(p, n)
<1>1. p \in Seq(Entries) /\ Len(p) \in Nat /\ DOMAIN p = 1 .. Len(p)
  BY DEF FilesInv
<1>2. /\ q \in Seq(Entries) /\ DOMAIN q = 1 .. Len(p) + 1 /\ q[Len(p) + 1] = n
      /\ \A k \in DOMAIN p : q[k] = p[k]
  BY <1>1
<1>3. \A k, l \in DOMAIN p : p[k] = p[l] => k = l
  BY DEF FilesInv
<1>4. \A k \in DOMAIN p : p[k] # n
  BY DEF Range
<1> HIDE DEF p, q
<1>5. \A k, l \in DOMAIN q : q[k] = q[l] => k = l
  BY <1>1, <1>2, <1>3, <1>4
<1>6. Range(q) = Range(p) \cup {n}
  <2>1. Len(p) + 1 \in DOMAIN q /\ \A k \in DOMAIN p : k \in DOMAIN q
    BY <1>1, <1>2
  <2>2. \A k \in DOMAIN q : k \in DOMAIN p \/ k = Len(p) + 1
    BY <1>1, <1>2
  <2> QED BY <1>2, <2>1, <2>2 DEF Range
<1> QED BY <1>2, <1>5, <1>6 DEF p, q

LEMMA FilesStep ==
    ASSUME FilesInv, [Next]_vars
    PROVE  FilesInv'
<1>1. CASE UNCHANGED fs
  BY <1>1 DEF FilesInv
<1>2. ASSUME NEW d \in Directories, NEW n \in Entries, Create(d, n) PROVE FilesInv'
  <2>1. fs' = [fs EXCEPT ![d] = Append(fs[d], n)] /\ n \notin Range(fs[d])
    BY <1>2 DEF Create
  <2>2. /\ Append(fs[d], n) \in Seq(Entries)
        /\ \A k, l \in DOMAIN Append(fs[d], n) : Append(fs[d], n)[k] = Append(fs[d], n)[l] => k = l
    BY <2>1, CreateLeaves
  <2> QED BY <2>1, <2>2 DEF FilesInv
<1>3. ASSUME NEW d \in Directories, NEW n \in Entries, Unlink(d, n) PROVE FilesInv'
  <2>1. PICK i \in DOMAIN fs[d] : fs[d][i] = n /\ fs' = [fs EXCEPT ![d] = RemoveAt(fs[d], i)]
    BY <1>3 DEF Unlink
  <2> DEFINE q == RemoveAt(fs[d], i)
  <2>2. q \in Seq(Entries) /\ \A k, l \in DOMAIN q : q[k] = q[l] => k = l
    BY UnlinkLeaves
  <2> HIDE DEF q
  <2>3. fs' = [fs EXCEPT ![d] = q]
    BY <2>1 DEF q
  <2> QED BY <2>2, <2>3 DEF FilesInv
<1>4. CASE \E d \in Directories, n \in Entries : chmod(d, n)
  BY <1>1, <1>4 DEF chmod
<1>5. CASE Others
  BY <1>2, <1>3, <1>4, <1>5 DEF Others
<1>6. CASE pre_main \/ Accounts \/ ReadDirectories \/ Commands \/ Signals \/ UNCHANGED vars
  BY <1>1, <1>6 DEF pre_main, Accounts, ReadDirectories, Commands, Signals, vars
<1> QED BY <1>5, <1>6 DEF Next

-----------------------------------------------------------------------------
(* The environment of a program and the search for a command.              *)

\* pre_main finds the environment behind the arguments, whatever their number.
LEMMA EnvironmentIsFound ==
    ASSUME env \in Seq(Words), NEW argv \in Seq(Words)
    PROVE  Environment(Vector(argv)) = env
<1> DEFINE a == Len(argv)
           e == Len(env)
           v == Vector(argv)
           nulls == {k \in DOMAIN v : v[k] = NULL}
           W == Words \cup {NULL}
<1>1. a \in Nat /\ e \in Nat
  OBVIOUS
<1>2. /\ argv \o <<NULL>> \in Seq(W) /\ Len(argv \o <<NULL>>) = a + 1
      /\ \A k \in 1 .. a : (argv \o <<NULL>>)[k] = argv[k]
      /\ (argv \o <<NULL>>)[a + 1] = NULL
  OBVIOUS
<1>3. /\ argv \o <<NULL>> \o env \in Seq(W) /\ Len(argv \o <<NULL>> \o env) = a + 1 + e
      /\ \A k \in 1 .. a : (argv \o <<NULL>> \o env)[k] = argv[k]
      /\ (argv \o <<NULL>> \o env)[a + 1] = NULL
      /\ \A k \in 1 .. e : (argv \o <<NULL>> \o env)[a + 1 + k] = env[k]
  BY <1>1, <1>2
<1>4. /\ v \in Seq(W) /\ Len(v) = a + e + 2
      /\ \A k \in 1 .. a : v[k] = argv[k]
      /\ v[a + 1] = NULL
      /\ \A k \in 1 .. e : v[a + 1 + k] = env[k]
      /\ v[a + e + 2] = NULL
  BY <1>1, <1>3 DEF Vector
<1>5. /\ \A k \in 1 .. a : argv[k] # NULL
      /\ \A k \in 1 .. e : env[k] # NULL
  BY NullAssumption
<1> HIDE DEF a, e, v
<1>6. nulls = {a + 1, a + e + 2}
  <2>1. ASSUME NEW k \in 1 .. a + e + 2, k # a + 1, k # a + e + 2 PROVE v[k] # NULL
    <3>1. CASE k <= a
      <4>1. k \in 1 .. a
        BY <1>1, <3>1
      <4> QED BY <1>4, <1>5, <4>1
    <3>2. CASE k > a + 1
      <4>1. k - a - 1 \in 1 .. e /\ a + 1 + (k - a - 1) = k
        BY <1>1, <2>1, <3>2
      <4> QED BY <1>4, <1>5, <4>1
    <3> QED BY <1>1, <2>1, <3>1, <3>2
  <2>2. a + 1 \in 1 .. a + e + 2 /\ a + e + 2 \in 1 .. a + e + 2
    BY <1>1
  <2>3. DOMAIN v = 1 .. a + e + 2
    BY <1>1, <1>4
  <2> QED BY <1>4, <2>1, <2>2, <2>3
<1>7. Min(nulls) = a + 1
  BY <1>1, <1>6, MinIs
<1>8. Environment(v) = IF v[a + 2] = NULL THEN <<>>
                       ELSE SubSeq(v, a + 2, Min(nulls \ {a + 1}) - 1)
  <2>1. PICK x : x = Min(nulls) + 1
    OBVIOUS
  <2>2. Environment(v) = IF v[x] = NULL THEN <<>> ELSE SubSeq(v, x, Min(nulls \ {x - 1}) - 1)
    BY <2>1 DEF Environment
  <2>3. x = a + 2 /\ x - 1 = a + 1
    BY <1>1, <1>7, <2>1
  <2> QED BY <2>2, <2>3
<1>9. CASE e = 0
  <2>1. v[a + 2] = NULL
    BY <1>1, <1>4, <1>9
  <2>2. env = <<>>
    BY <1>9 DEF e
  <2>3. Environment(v) = <<>>
    BY <1>8, <2>1
  <2> QED BY <2>2, <2>3 DEF v
<1>10. CASE e > 0
  <2>1. v[a + 2] # NULL
    <3>1. 1 \in 1 .. e /\ a + 1 + 1 = a + 2
      BY <1>1, <1>10
    <3> QED BY <1>4, <1>5, <3>1
  <2>2. nulls \ {a + 1} = {a + e + 2}
    BY <1>1, <1>6, <1>10
  <2>3. Min(nulls \ {a + 1}) = a + e + 2
    BY <1>1, <2>2, MinIs
  <2>4. Environment(v) = SubSeq(v, a + 2, a + e + 1)
    <3>1. Min(nulls \ {a + 1}) - 1 = a + e + 1
      BY <1>1, <2>3
    <3>2. Environment(v) = SubSeq(v, a + 2, Min(nulls \ {a + 1}) - 1)
      BY <1>8, <2>1
    <3> QED BY <3>1, <3>2
  <2>5. /\ SubSeq(v, a + 2, a + e + 1) \in Seq(W) /\ Len(SubSeq(v, a + 2, a + e + 1)) = e
        /\ \A k \in 1 .. e : SubSeq(v, a + 2, a + e + 1)[k] = v[a + 1 + k]
    BY <1>1, <1>4, <1>10
  <2>6. env \in Seq(W) /\ Len(env) = e
    BY DEF e
  <2>7. SubSeq(v, a + 2, a + e + 1) = env
    BY <1>4, <2>5, <2>6, SeqEqual
  <2> QED BY <2>4, <2>7 DEF v
<1> QED BY <1>1, <1>9, <1>10

\* While execvp looks for a command, none of the directories it has passed has had the
\* command all the time, and those that have had it still have it.
SearchSound ==
    /\ search \in Search
    /\ search.i \in 1 .. Len(Path) + 1
    /\ \A d \in search.steady : d \in Range(Path) /\ Runs(d, search.file)
    /\ \A j \in 1 .. search.i - 1 : Path[j] \notin search.steady
    /\ search.found => search.i <= Len(Path)

CommandsInv ==
    /\ FilesInv
    /\ env \in Seq(Words)
    /\ Started => environ = env
    /\ ~Started => search = NULL
    /\ search # NULL => SearchSound
    /\ CommandIsFound

LEMMA PathIsAPath == Path \in Seq(Directories)
BY LibraryAssumption DEF Path

LEMMA OtherAnswersKeepCommands ==
    ASSUME CommandsInv, FilesInv', UNCHANGED <<env, environ, search>>,
           \A d \in Directories, n \in Entries : Runs(d, n)' = Runs(d, n),
           answer' = answer \/ answer'.call # "execvp"
    PROVE  CommandsInv'
<1>1. Path' = Path
  BY DEF Path
<1>2. search # NULL => SearchSound'
  <2> SUFFICES ASSUME search # NULL PROVE SearchSound'
    OBVIOUS
  <2>1. SearchSound /\ search' = search /\ Len(Path) \in Nat
    BY PathIsAPath DEF CommandsInv
  <2>2. search.file \in Entries /\ search.steady \subseteq Directories
    BY <2>1 DEF SearchSound, Search
  <2> QED BY <1>1, <2>1, <2>2 DEF SearchSound
<1> QED BY <1>2 DEF CommandsInv, CommandIsFound, Started

\* The steps of execvp.
LEMMA SearchKeepsCommands ==
    ASSUME CommandsInv, Commands
    PROVE  CommandsInv'
<1>1. Started /\ environ = env /\ fs' = fs /\ executable' = executable
  BY DEF Commands, CommandsInv
<1>2. FilesInv'
  BY <1>1 DEF FilesInv, CommandsInv
<1>3. Path \in Seq(Directories) /\ Len(Path) \in Nat /\ DOMAIN Path = 1 .. Len(Path)
  BY PathIsAPath
<1>4. ASSUME NEW file \in Entries, execvp(file) PROVE CommandsInv'
  <2> DEFINE had == {d \in Range(Path) : Runs(d, file)}
  <2>1. search' = [file |-> file, i |-> 1, found |-> FALSE, steady |-> had]
    BY <1>4 DEF execvp
  <2>2. had \in SUBSET Directories
    BY <1>3 DEF Range
  <2>3. Path' = Path /\ env' = env /\ environ' = environ /\ answer' = answer
    BY <1>4 DEF Path, execvp
  <2>4. \A d \in had : Runs(d, file)' /\ d \in Range(Path)
    BY <1>1 DEF Runs, stat
  <2> HIDE DEF had
  <2>5. SearchSound'
    BY <1>3, <2>1, <2>2, <2>3, <2>4 DEF SearchSound, Search
  <2> QED BY <1>1, <1>2, <2>3, <2>5 DEF CommandsInv, CommandIsFound, Started
<1>5. ASSUME NEW file \in Entries, NEW d \in Directories, execv(d, file) PROVE CommandsInv'
  <2>1. env' = environ /\ environ' = NULL /\ search' = NULL /\ answer' = NoAnswer
    BY <1>5 DEF execv
  <2>2. answer'.call # "execvp"
    BY <2>1, NullAssumption DEF NoAnswer, Calls
  <2> QED BY <1>1, <1>2, <2>1, <2>2 DEF CommandsInv, CommandIsFound, Started
<1>6. ASSUME search # NULL
      PROVE  /\ SearchSound
             /\ search \in Search /\ search.i \in Nat /\ search.file \in Entries
             /\ search.steady \subseteq Directories
  BY <1>6 DEF CommandsInv, SearchSound, Search
<1>7. CASE Stat
  <2>1. SearchSound /\ ~search.found /\ search.i <= Len(Path)
    BY <1>7, <1>6 DEF Stat
  <2>2. Path' = Path /\ env' = env /\ environ' = environ /\ answer' = answer
    BY <1>7 DEF Path, Stat
  <2>3. \A d : Runs(d, search.file)' = Runs(d, search.file) \/ search'.file # search.file
    BY <1>1 DEF Runs, stat
  <2>4. CASE Runs(Path[search.i], search.file)
    <3>1. search' = [search EXCEPT !.found = TRUE]
      BY <1>7, <2>4 DEF Stat
    <3>2. SearchSound'
      BY <1>1, <1>3, <1>6, <1>7, <2>1, <2>2, <2>4, <3>1 DEF SearchSound, Search, Runs, stat, Stat
    <3> QED BY <1>1, <1>2, <2>2, <3>2 DEF CommandsInv, CommandIsFound, Started
  <2>5. CASE ~Runs(Path[search.i], search.file)
    <3>1. search' = [search EXCEPT !.i = search.i + 1]
      BY <1>7, <2>5 DEF Stat
    <3>2. Path[search.i] \notin search.steady
      BY <2>1, <2>5 DEF SearchSound
    <3>3. SearchSound'
      <4>1. /\ search'.file = search.file /\ search'.i = search.i + 1
            /\ search'.found = search.found /\ search'.steady = search.steady
            /\ search' \in Search
        <5>1. search \in Search /\ search.i + 1 \in Nat
          BY <1>6, <1>7 DEF Stat
        <5> QED BY <3>1, <5>1 DEF Search
      <4>2. search'.i \in 1 .. Len(Path) + 1 /\ search'.i - 1 = search.i
        BY <1>3, <1>6, <2>1, <4>1 DEF SearchSound
      <4>3. \A d \in search.steady : d \in Range(Path) /\ Runs(d, search.file)
        BY <2>1 DEF SearchSound
      <4>4. \A d : Runs(d, search.file)' <=> Runs(d, search.file)
        BY <1>1, <4>1 DEF Runs, stat
      <4>5. \A j \in 1 .. search.i : Path[j] \notin search.steady
        <5>1. \A j \in 1 .. search.i - 1 : Path[j] \notin search.steady
          BY <2>1 DEF SearchSound
        <5>2. search.i \in Nat
          BY <1>6, <1>7 DEF Stat
        <5>3. \A j \in 1 .. search.i : j \in 1 .. search.i - 1 \/ j = search.i
          BY <5>2
        <5> QED BY <3>2, <5>1, <5>3
      <4>6. ~search'.found
        BY <2>1, <4>1
      <4> QED BY <2>2, <4>1, <4>2, <4>3, <4>4, <4>5, <4>6 DEF SearchSound
    <3> QED BY <1>1, <1>2, <2>2, <3>3 DEF CommandsInv, CommandIsFound, Started
  <2> QED BY <2>4, <2>5
<1>8. CASE NotFound
  <2>1. SearchSound /\ search.i > Len(Path)
    BY <1>8, <1>6 DEF NotFound
  <2>2. \A j \in 1 .. Len(Path) : Path[j] \notin search.steady
    BY <1>3, <2>1 DEF SearchSound
  <2>3. search.steady = {}
    BY <1>3, <2>1, <2>2 DEF SearchSound, Range
  <2>4. /\ answer'.call = "execvp" /\ answer'.value = "ENOENT"
        /\ answer'.arg.had = {}
        /\ search' = NULL /\ env' = env /\ environ' = environ
    BY <1>8, <2>3 DEF NotFound, Returns, Searched
  <2>5. "ENOENT" \notin Directories
    BY LibraryAssumption
  <2> QED BY <1>1, <1>2, <2>4, <2>5 DEF CommandsInv, CommandIsFound, Started
<1>9. CASE execve
  <2>1. SearchSound /\ search.found /\ search' = NULL
    BY <1>9, <1>6 DEF execve
  <2>2. search.i \in 1 .. Len(Path) /\ Path[search.i] \in Directories
    BY <1>3, <2>1 DEF SearchSound
  <2>3. \A j \in 1 .. search.i - 1 : Path[j] \notin search.steady
    BY <2>1 DEF SearchSound
  <2>4. CASE Runs(Path[search.i], search.file)
    <3>1. /\ answer' = [call |-> "execvp", arg |-> Searched, value |-> Path[search.i]]
          /\ env' = environ /\ environ' = NULL
      BY <1>9, <2>4 DEF execve, Returns
    <3>2. /\ answer'.arg.had = search.steady /\ answer'.arg.path = Path
          /\ answer'.arg.i = search.i /\ answer'.value = Path[search.i]
      BY <3>1 DEF Searched
    <3>3. answer'.value \notin {"ENOENT", "failed"}
      BY <2>2, <3>2, LibraryAssumption
    <3>4. CommandIsFound'
      BY <1>3, <2>2, <2>3, <3>1, <3>2, <3>3 DEF CommandIsFound, Started
    <3> QED BY <1>1, <1>2, <2>1, <3>1, <3>4 DEF CommandsInv, Started
  <2>5. CASE ~Runs(Path[search.i], search.file)
    <3>1. /\ answer' = [call |-> "execvp", arg |-> Searched, value |-> "failed"]
          /\ env' = env /\ environ' = environ
      BY <1>9, <2>5 DEF execve, Returns
    <3>2. /\ answer'.arg.had = search.steady /\ answer'.arg.path = Path
          /\ answer'.arg.i = search.i /\ answer'.value = "failed"
      BY <3>1 DEF Searched
    <3>3. "failed" \notin Directories
      BY LibraryAssumption
    <3>4. Path[search.i] \notin search.steady
      BY <2>1, <2>5 DEF SearchSound
    <3>5. CommandIsFound'
      BY <1>1, <2>3, <3>1, <3>2, <3>3, <3>4 DEF CommandIsFound, Started
    <3> QED BY <1>1, <1>2, <2>1, <3>1, <3>5 DEF CommandsInv, Started
  <2> QED BY <2>4, <2>5
<1> QED BY <1>4, <1>5, <1>7, <1>8, <1>9 DEF Commands

\* A process that takes <<d, n>> away, and nothing else, takes the directory from those
\* that have had the command, wherever the search is.
LEMMA LosesKeepsCommands ==
    ASSUME CommandsInv, FilesInv', UNCHANGED <<env, environ, answer>>,
           NEW d \in Directories, NEW n \in Entries, Loses(d, n),
           \A e \in Directories, f \in Entries :
               Runs(e, f) /\ (e # d \/ f # n) => Runs(e, f)'
    PROVE  CommandsInv'
<1>1. Path' = Path /\ Path \in Seq(Directories)
  BY PathIsAPath DEF Path
<1>2. ASSUME search # NULL PROVE search' # NULL /\ SearchSound'
  <2>1. SearchSound /\ search \in Search
    BY <1>2 DEF CommandsInv, SearchSound
  <2>2. search.file \in Entries /\ search.i \in Nat /\ search.steady \subseteq Directories
    BY <1>1, <2>1 DEF SearchSound, Search
  <2>4. CASE search.file = n
    <3>1. search' = [search EXCEPT !.steady = search.steady \ {d}]
      BY <1>2, <2>4 DEF Loses
    <3>2. /\ search' \in Search /\ search'.file = search.file /\ search'.i = search.i
          /\ search'.found = search.found /\ search'.steady = search.steady \ {d}
      BY <2>1, <3>1 DEF Search
    <3>3. SearchSound'
      BY <1>1, <2>1, <2>2, <2>4, <3>2 DEF SearchSound
    <3> QED BY <3>2, <3>3, NullAssumption
  <2>5. CASE search.file # n
    <3>1. search' = search
      BY <2>5 DEF Loses
    <3> QED BY <1>1, <1>2, <2>1, <2>2, <2>5, <3>1 DEF SearchSound
  <2> QED BY <2>4, <2>5
<1>3. search = NULL => search' = NULL
  BY DEF Loses
<1> QED BY <1>2, <1>3 DEF CommandsInv, CommandIsFound, Started

LEMMA OthersKeepCommands ==
    ASSUME CommandsInv, FilesInv', Others
    PROVE  CommandsInv'
<1>1. UNCHANGED <<env, environ, answer>>
  BY DEF Others
<1>2. ASSUME NEW d \in Directories, NEW n \in Entries, Create(d, n) PROVE CommandsInv'
  <2>1. /\ fs' = [fs EXCEPT ![d] = Append(fs[d], n)] /\ n \notin Range(fs[d])
        /\ executable' = executable /\ search' = search
    BY <1>2 DEF Create
  <2>2. Range(Append(fs[d], n)) = Range(fs[d]) \cup {n}
    BY <2>1, CreateLeaves DEF CommandsInv
  <2>3. \A e \in Directories : Range(fs[e]) \subseteq Range(fs'[e])
    BY <2>1, <2>2 DEF CommandsInv, FilesInv
  <2>4. \A e \in Directories, f \in Entries : Runs(e, f) => Runs(e, f)'
    BY <2>1, <2>3 DEF Runs, stat
  <2>5. Path' = Path /\ Path \in Seq(Directories)
    BY <1>1, PathIsAPath DEF Path
  <2>6. ASSUME search # NULL PROVE SearchSound'
    <3>1. SearchSound /\ search \in Search
      BY <2>6 DEF CommandsInv, SearchSound
    <3>2. search.file \in Entries /\ search.steady \subseteq Directories
      BY <2>5, <3>1 DEF SearchSound, Search
    <3> QED BY <2>1, <2>4, <2>5, <3>1, <3>2 DEF SearchSound
  <2> QED BY <1>1, <2>1, <2>6 DEF CommandsInv, CommandIsFound, Started
<1>3. ASSUME NEW d \in Directories, NEW n \in Entries, Unlink(d, n) PROVE CommandsInv'
  <2>1. PICK i \in DOMAIN fs[d] : fs[d][i] = n /\ fs' = [fs EXCEPT ![d] = RemoveAt(fs[d], i)]
    BY <1>3 DEF Unlink
  <2>2. Range(RemoveAt(fs[d], i)) = Range(fs[d]) \ {n}
    BY <2>1, UnlinkLeaves DEF CommandsInv
  <2>3. executable' = executable \ {<<d, n>>} /\ Loses(d, n)
    BY <1>3 DEF Unlink
  <2>4. /\ \A e \in Directories \ {d} : fs'[e] = fs[e]
        /\ Range(fs'[d]) = Range(fs[d]) \ {n}
    BY <2>1, <2>2 DEF CommandsInv, FilesInv
  <2>5. \A e \in Directories, f \in Entries :
            Runs(e, f) /\ (e # d \/ f # n) => Runs(e, f)'
    BY <2>3, <2>4 DEF Runs, stat
  <2> QED BY <1>1, <2>3, <2>5, LosesKeepsCommands
<1>4. ASSUME NEW d \in Directories, NEW n \in Entries, chmod(d, n) PROVE CommandsInv'
  <2>1. CASE <<d, n>> \in executable
    <3>1. executable' = executable \ {<<d, n>>} /\ Loses(d, n) /\ fs' = fs
      BY <1>4, <2>1 DEF chmod
    <3>2. \A e \in Directories, f \in Entries :
              Runs(e, f) /\ (e # d \/ f # n) => Runs(e, f)'
      BY <3>1 DEF Runs, stat
    <3> QED BY <1>1, <3>1, <3>2, LosesKeepsCommands
  <2>2. CASE <<d, n>> \notin executable
    <3>1. executable' = executable \cup {<<d, n>>} /\ search' = search /\ fs' = fs
      BY <1>4, <2>2 DEF chmod
    <3>2. \A e, f : Runs(e, f) => Runs(e, f)'
      BY <3>1 DEF Runs, stat
    <3>3. Path' = Path
      BY <1>1 DEF Path
    <3>4. search # NULL => SearchSound'
      BY <3>1, <3>2, <3>3 DEF CommandsInv, SearchSound
    <3> QED BY <1>1, <3>1, <3>4 DEF CommandsInv, CommandIsFound, Started
  <2> QED BY <2>1, <2>2
<1> QED BY <1>2, <1>3, <1>4 DEF Others

LEMMA CommandsStep ==
    ASSUME CommandsInv, [Next]_vars
    PROVE  CommandsInv'
<1>1. FilesInv'
  BY FilesStep DEF CommandsInv
<1>2. CASE pre_main
  <2>1. PICK argv \in {<<>>, <<"PATH">>, <<"a", "PATH">>} : environ' = Environment(Vector(argv))
    BY <1>2 DEF pre_main
  <2>2. argv \in Seq(Words)
    <3>1. "a" \in Words /\ "PATH" \in Words
      BY DEF Words
    <3>2. <<>> \in Seq(Words) /\ <<"PATH">> \in Seq(Words) /\ <<"a", "PATH">> \in Seq(Words)
      BY <3>1
    <3> QED BY <3>2
  <2>3. environ' = env /\ env' = env
    BY <1>2, <2>1, <2>2, EnvironmentIsFound DEF pre_main, CommandsInv
  <2>4. env # NULL
    BY NullAssumption DEF CommandsInv
  <2>5. search = NULL /\ search' = NULL /\ answer' = answer
    BY <1>2 DEF pre_main, CommandsInv, Started
  <2> QED BY <1>1, <2>3, <2>4, <2>5 DEF CommandsInv, CommandIsFound, Started
<1>3. ASSUME fs' = fs, executable' = executable
      PROVE  \A d \in Directories, n \in Entries : Runs(d, n)' = Runs(d, n)
  BY <1>3 DEF Runs, stat
<1>4. CASE Accounts
  BY <1>1, <1>3, <1>4, AccountsAnswer, OtherAnswersKeepCommands DEF Accounts
<1>5. CASE ReadDirectories
  BY <1>1, <1>3, <1>5, OtherAnswersKeepCommands DEF ReadDirectories
<1>6. CASE Signals
  BY <1>1, <1>3, <1>6, OtherAnswersKeepCommands DEF Signals
<1>7. CASE UNCHANGED vars
  BY <1>1, <1>3, <1>7, OtherAnswersKeepCommands DEF vars
<1>8. CASE Commands
  BY <1>8, SearchKeepsCommands
<1>9. CASE Others
  BY <1>1, <1>9, OthersKeepCommands
<1> QED BY <1>2, <1>4, <1>5, <1>6, <1>7, <1>8, <1>9 DEF Next

\* A program has the environment it was given, and execvp runs the command of the first
\* directory of the path that keeps it or fails as CommandIsFound says, however other
\* processes create, remove and chmod files between its calls, the one of stat and the
\* one of execve among them (crt0, pre_main, execvp).
THEOREM CommandsAreFound == Spec => []CommandIsFound
<1>1. Init => CommandsInv
  <2> SUFFICES ASSUME Init PROVE CommandsInv
    OBVIOUS
  <2>1. FilesInv
    <3>1. <<>> \in Seq(Entries) /\ DOMAIN <<>> = {}
      OBVIOUS
    <3> QED BY <3>1 DEF Init, FilesInv
  <2>2. env \in Seq(Words)
    <3>1. "HOME" \in Words /\ "PATH" \in Words
      BY DEF Words
    <3>2. <<>> \in Seq(Words) /\ <<"HOME">> \in Seq(Words) /\ <<"HOME", "PATH">> \in Seq(Words)
      BY <3>1
    <3> QED BY <3>2 DEF Init
  <2>3. answer.call # "execvp"
    BY NullAssumption DEF Init, NoAnswer, Calls
  <2> QED BY <2>1, <2>2, <2>3 DEF Init, CommandsInv, CommandIsFound, Started
<1>2. CommandsInv /\ [Next]_vars => CommandsInv'
  BY CommandsStep
<1>3. CommandsInv => CommandIsFound
  BY DEF CommandsInv
<1> QED BY <1>1, <1>2, <1>3, PTL DEF Spec

-----------------------------------------------------------------------------
(* The streams of directories.                                             *)

\* A stream that has given q on a directory with the entries p: each answer is the entry
\* in its place, and the wanted ones are among the first m, all of which q has got as far
\* as it goes.
Reads(q, wanted, p) ==
    /\ \A k \in DOMAIN q : q[k] # NULL => k <= Len(p) /\ q[k] = p[k]
    /\ \E m \in 0 .. Len(p) : /\ \A n \in wanted : \E i \in 1 .. m : p[i] = n
                            /\ \A k \in DOMAIN q : k <= m => q[k] # NULL

StreamsInv ==
    /\ FilesInv
    /\ fds \in [3 .. 2 + OpenFiles -> Directories \cup {NULL}]
    /\ dirs \in [Streams -> Stream \cup {NULL}]
    /\ seen \in [Streams -> Seq(Entries \cup {NULL})]
    /\ steady \in [Streams -> SUBSET Entries]
    /\ \A s \in Streams : dirs[s] # NULL =>
          /\ dirs[s].fd \in DOMAIN fds /\ fds[dirs[s].fd] # NULL
          /\ \A t \in Streams : dirs[t] # NULL /\ dirs[t].fd = dirs[s].fd => s = t
          /\ dirs[s].cur_entry = Len(seen[s]) - 1
          /\ Reads(seen[s], steady[s], fs[fds[dirs[s].fd]])

LEMMA ReadsNothing ==
    ASSUME NEW p \in Seq(Entries)
    PROVE  Reads(<<>>, Range(p), p)
<1>1. Len(p) \in 0 .. Len(p) /\ \A n \in Range(p) : \E i \in 1 .. Len(p) : p[i] = n
  BY DEF Range
<1> QED BY <1>1 DEF Reads

LEMMA ReadsNext ==
    ASSUME NEW p \in Seq(Entries), NEW q \in Seq(Entries \cup {NULL}), NEW wanted,
           Reads(q, wanted, p)
    PROVE  Reads(Append(q, IF Len(q) < Len(p) THEN p[Len(q) + 1] ELSE NULL), wanted, p)
<1> DEFINE a == IF Len(q) < Len(p) THEN p[Len(q) + 1] ELSE NULL
           r == Append(q, a)
<1>1. PICK m \in 0 .. Len(p) : /\ \A n \in wanted : \E i \in 1 .. m : p[i] = n
                              /\ \A k \in DOMAIN q : k <= m => q[k] # NULL
  BY DEF Reads
<1>2. Len(p) \in Nat /\ Len(q) \in Nat /\ a \in Entries \cup {NULL}
  OBVIOUS
<1>3. /\ DOMAIN r = 1 .. Len(q) + 1 /\ DOMAIN q = 1 .. Len(q)
      /\ \A k \in 1 .. Len(q) : r[k] = q[k]
      /\ r[Len(q) + 1] = a
  BY <1>2
<1>4. a # NULL => Len(q) + 1 <= Len(p) /\ a = p[Len(q) + 1]
  BY <1>2
<1>5. Len(q) + 1 <= m => a # NULL
  BY <1>2, NullAssumption
<1> HIDE DEF a, r
<1>6. \A k \in DOMAIN r : r[k] # NULL => k <= Len(p) /\ r[k] = p[k]
  BY <1>2, <1>3, <1>4 DEF Reads
<1>7. \A k \in DOMAIN r : k <= m => r[k] # NULL
  BY <1>1, <1>2, <1>3, <1>5
<1>8. Reads(r, wanted, p)
  BY <1>1, <1>6, <1>7 DEF Reads
<1> QED BY <1>8 DEF a, r

LEMMA ReadsAfterCreate ==
    ASSUME NEW p \in Seq(Entries), NEW q \in Seq(Entries \cup {NULL}), NEW wanted,
           Reads(q, wanted, p), NEW n \in Entries
    PROVE  Reads(q, wanted, Append(p, n))
<1>1. /\ Len(p) \in Nat /\ Len(Append(p, n)) = Len(p) + 1
      /\ \A k \in 1 .. Len(p) : Append(p, n)[k] = p[k]
      /\ DOMAIN q \subseteq Nat \ {0}
  OBVIOUS
<1>2. \A k \in DOMAIN q : q[k] # NULL => k <= Len(p) + 1 /\ q[k] = Append(p, n)[k]
  BY <1>1 DEF Reads
<1>3. PICK m \in 0 .. Len(p) : /\ \A w \in wanted : \E i \in 1 .. m : p[i] = w
                              /\ \A k \in DOMAIN q : k <= m => q[k] # NULL
  BY DEF Reads
<1>4. m \in 0 .. Len(p) + 1 /\ \A w \in wanted : \E i \in 1 .. m : Append(p, n)[i] = w
  BY <1>1, <1>3
<1> QED BY <1>1, <1>2, <1>3, <1>4 DEF Reads

\* What a stream has read so far shows each entry once and, after the end, all that have
\* been there since opendir.
LEMMA ReadsOnce ==
    ASSUME StreamsInv PROVE EachEntryOnce
<1> SUFFICES ASSUME NEW s \in Streams, dirs[s] # NULL
             PROVE  /\ \A i, j \in DOMAIN seen[s] :
                          seen[s][i] = seen[s][j] /\ seen[s][i] # NULL => i = j
                    /\ NULL \in Range(seen[s]) => steady[s] \subseteq Range(seen[s])
  BY DEF EachEntryOnce
<1> DEFINE q == seen[s]
           d == fds[dirs[s].fd]
           p == fs[d]
<1>1. d \in Directories /\ Reads(q, steady[s], p) /\ q \in Seq(Entries \cup {NULL})
  BY DEF StreamsInv
<1>2. /\ p \in Seq(Entries) /\ Len(p) \in Nat /\ DOMAIN p = 1 .. Len(p)
      /\ \A i, j \in DOMAIN p : p[i] = p[j] => i = j
  BY <1>1 DEF StreamsInv, FilesInv
<1>3. Len(q) \in Nat /\ DOMAIN q = 1 .. Len(q)
  BY <1>1
<1> HIDE DEF q, d, p
<1>4. \A i, j \in DOMAIN q : q[i] = q[j] /\ q[i] # NULL => i = j
  BY <1>1, <1>2, <1>3 DEF Reads
<1>5. ASSUME NULL \in Range(q) PROVE steady[s] \subseteq Range(q)
  <2>1. PICK m \in 0 .. Len(p) : /\ \A n \in steady[s] : \E i \in 1 .. m : p[i] = n
                                /\ \A k \in DOMAIN q : k <= m => q[k] # NULL
    BY <1>1 DEF Reads
  <2>2. PICK k \in DOMAIN q : q[k] = NULL
    BY <1>5 DEF Range
  <2>3. m < k /\ k <= Len(q)
    BY <1>2, <1>3, <2>1, <2>2
  <2>4. \A i \in 1 .. m : i \in DOMAIN q /\ q[i] = p[i]
    BY <1>1, <1>2, <1>3, <2>1, <2>3 DEF Reads
  <2> QED BY <2>1, <2>4 DEF Range
<1> QED BY <1>4, <1>5 DEF q

LEMMA OpenKeepsStreams ==
    ASSUME StreamsInv, FilesInv', fs' = fs, NEW s \in Streams, NEW d \in Directories, opendir(s, d)
    PROVE  StreamsInv'
<1> DEFINE free == {k \in DOMAIN fds : fds[k] = NULL}
<1>1. CASE open_(d) = -1
  BY <1>1 DEF opendir, StreamsInv
<1>2. CASE open_(d) # -1
  <2>1. DOMAIN fds = 3 .. 2 + OpenFiles /\ free \in SUBSET Nat
    BY LibraryAssumption DEF StreamsInv
  <2>2. free # {} /\ open_(d) = Min(free)
    BY <1>2 DEF open_
  <2>3. open_(d) \in DOMAIN fds /\ open_(d) \in Nat /\ fds[open_(d)] = NULL
    BY <2>1, <2>2, MinIsLeast
  <2>4. PICK fd \in DOMAIN fds : fd = open_(d) /\ fd \in Nat /\ fds[fd] = NULL
    BY <2>3
  <2>5. /\ dirs[s] = NULL
        /\ fds' = [fds EXCEPT ![fd] = d]
        /\ dirs' = [dirs EXCEPT ![s] = [fd |-> fd, cur_entry |-> -1]]
        /\ seen' = [seen EXCEPT ![s] = <<>>]
        /\ steady' = [steady EXCEPT ![s] = Range(fs[d])]
    BY <1>2, <2>4 DEF opendir, DIR
  <2>6. [fd |-> fd, cur_entry |-> -1] \in Stream
    BY <2>4 DEF Stream
  <2>7. fs[d] \in Seq(Entries) /\ Range(fs[d]) \in SUBSET Entries
    BY DEF StreamsInv, FilesInv, Range
  <2>8. /\ fds' \in [3 .. 2 + OpenFiles -> Directories \cup {NULL}]
        /\ dirs' \in [Streams -> Stream \cup {NULL}]
        /\ seen' \in [Streams -> Seq(Entries \cup {NULL})]
        /\ steady' \in [Streams -> SUBSET Entries]
    BY <2>5, <2>6, <2>7 DEF StreamsInv
  <2>9. d # NULL
    BY NullAssumption
  <2>10. ASSUME NEW t \in Streams, dirs'[t] # NULL
         PROVE  /\ dirs'[t].fd \in DOMAIN fds' /\ fds'[dirs'[t].fd] # NULL
                /\ \A u \in Streams : dirs'[u] # NULL /\ dirs'[u].fd = dirs'[t].fd => t = u
                /\ dirs'[t].cur_entry = Len(seen'[t]) - 1
                /\ Reads(seen'[t], steady'[t], fs'[fds'[dirs'[t].fd]])
    <3>1. CASE t = s
      <4>1. dirs'[t].fd = fd /\ dirs'[t].cur_entry = -1 /\ fds'[fd] = d
        BY <2>4, <2>5, <3>1 DEF StreamsInv
      <4>2. seen'[t] = <<>> /\ steady'[t] = Range(fs[d]) /\ Len(<<>>) = 0
        BY <2>5, <3>1 DEF StreamsInv
      <4>3. \A u \in Streams \ {s} : dirs'[u] # NULL => dirs'[u].fd # fd
        BY <2>4, <2>5 DEF StreamsInv
      <4> QED BY <2>4, <2>5, <2>7, <2>9, <3>1, <4>1, <4>2, <4>3, ReadsNothing
    <3>2. CASE t # s
      <4>1. dirs'[t] = dirs[t] /\ seen'[t] = seen[t] /\ steady'[t] = steady[t]
        BY <2>5, <3>2 DEF StreamsInv
      <4>2. dirs[t].fd \in DOMAIN fds /\ dirs[t].fd # fd /\ fds'[dirs[t].fd] = fds[dirs[t].fd]
        BY <2>4, <2>5, <2>10, <4>1 DEF StreamsInv
      <4>3. \A u \in Streams : dirs'[u] # NULL /\ dirs'[u].fd = dirs'[t].fd => t = u
        BY <2>5, <2>10, <4>1, <4>2 DEF StreamsInv
      <4> QED BY <2>5, <2>10, <4>1, <4>2, <4>3 DEF StreamsInv
    <3> QED BY <3>1, <3>2
  <2> QED BY <2>8, <2>10 DEF StreamsInv
<1> QED BY <1>1, <1>2

LEMMA ReadKeepsStreams ==
    ASSUME StreamsInv, FilesInv', fs' = fs, NEW s \in Streams, readdir(s)
    PROVE  StreamsInv'
<1> DEFINE d == fds[dirs[s].fd]
           a == syscall_readdir(dirs[s].fd, dirs[s].cur_entry + 1)
<1>1. dirs[s] # NULL /\ dirs[s] \in Stream /\ d \in Directories
  BY DEF readdir, StreamsInv
<1>2. /\ fds' = fds /\ steady' = steady
      /\ dirs' = [dirs EXCEPT ![s].cur_entry = dirs[s].cur_entry + 1]
      /\ seen' = [seen EXCEPT ![s] = Append(seen[s], a)]
  BY DEF readdir
<1>3. /\ seen[s] \in Seq(Entries \cup {NULL}) /\ Len(seen[s]) \in Nat
      /\ dirs[s].cur_entry + 1 = Len(seen[s])
  BY <1>1 DEF StreamsInv
<1>4. fs[d] \in Seq(Entries)
  BY <1>1 DEF StreamsInv, FilesInv
<1>5. a = IF Len(seen[s]) < Len(fs[d]) THEN fs[d][Len(seen[s]) + 1] ELSE NULL
  BY <1>3 DEF syscall_readdir
<1>6. a \in Entries \cup {NULL}
  BY <1>3, <1>4, <1>5
<1>7. Reads(Append(seen[s], a), steady[s], fs[d])
  BY <1>1, <1>3, <1>4, <1>5, ReadsNext DEF StreamsInv
<1> HIDE DEF a
<1>8. /\ dirs'[s] \in Stream /\ dirs'[s].fd = dirs[s].fd
      /\ dirs'[s].cur_entry = Len(seen[s])
      /\ \A t \in Streams \ {s} : dirs'[t] = dirs[t]
      /\ dirs' \in [Streams -> Stream \cup {NULL}]
  <2>1. [dirs[s] EXCEPT !.cur_entry = dirs[s].cur_entry + 1] \in Stream
    BY <1>1 DEF Stream
  <2>2. dirs' = [dirs EXCEPT ![s] = [dirs[s] EXCEPT !.cur_entry = dirs[s].cur_entry + 1]]
    BY <1>2
  <2> QED BY <1>1, <1>3, <2>1, <2>2 DEF StreamsInv, Stream
<1>9. /\ Append(seen[s], a) \in Seq(Entries \cup {NULL})
      /\ Len(Append(seen[s], a)) - 1 = Len(seen[s])
      /\ seen' \in [Streams -> Seq(Entries \cup {NULL})]
      /\ seen'[s] = Append(seen[s], a) /\ \A t \in Streams \ {s} : seen'[t] = seen[t]
  BY <1>2, <1>3, <1>6 DEF StreamsInv
<1>10. ASSUME NEW t \in Streams, dirs'[t] # NULL
       PROVE  /\ dirs[t] # NULL /\ dirs'[t].fd = dirs[t].fd
              /\ dirs'[t].cur_entry = Len(seen'[t]) - 1
              /\ Reads(seen'[t], steady'[t], fs'[fds'[dirs'[t].fd]])
  BY <1>1, <1>2, <1>7, <1>8, <1>9, <1>10 DEF StreamsInv
<1> QED BY <1>2, <1>8, <1>9, <1>10 DEF StreamsInv

LEMMA CloseKeepsStreams ==
    ASSUME StreamsInv, FilesInv', fs' = fs, NEW s \in Streams, closedir(s)
    PROVE  StreamsInv'
<1>1. /\ dirs[s] # NULL
      /\ fds' = [fds EXCEPT ![dirs[s].fd] = NULL]
      /\ dirs' = [dirs EXCEPT ![s] = NULL]
      /\ seen' = [seen EXCEPT ![s] = <<>>]
      /\ steady' = [steady EXCEPT ![s] = {}]
  BY DEF closedir
<1>2. ASSUME NEW t \in Streams, dirs'[t] # NULL
      PROVE  /\ t # s /\ dirs[t] # NULL /\ dirs'[t] = dirs[t] /\ seen'[t] = seen[t]
             /\ steady'[t] = steady[t]
             /\ dirs[t].fd \in DOMAIN fds /\ fds'[dirs[t].fd] = fds[dirs[t].fd]
  BY <1>1, <1>2 DEF StreamsInv
<1>3. /\ fds' \in [3 .. 2 + OpenFiles -> Directories \cup {NULL}]
      /\ dirs' \in [Streams -> Stream \cup {NULL}]
      /\ seen' \in [Streams -> Seq(Entries \cup {NULL})]
      /\ steady' \in [Streams -> SUBSET Entries]
  BY <1>1 DEF StreamsInv
<1>4. ASSUME NEW t \in Streams, dirs'[t] # NULL
      PROVE  /\ dirs'[t].fd \in DOMAIN fds' /\ fds'[dirs'[t].fd] # NULL
             /\ \A u \in Streams : dirs'[u] # NULL /\ dirs'[u].fd = dirs'[t].fd => t = u
             /\ dirs'[t].cur_entry = Len(seen'[t]) - 1
             /\ Reads(seen'[t], steady'[t], fs'[fds'[dirs'[t].fd]])
  BY <1>1, <1>2, <1>4 DEF StreamsInv
<1> QED BY <1>3, <1>4 DEF StreamsInv

\* A step of another process on an open directory only adds an entry at its end.
LEMMA OthersKeepStreams ==
    ASSUME StreamsInv, FilesInv', Others, "unlink_while_reading" \notin Permitted
    PROVE  StreamsInv'
<1>1. fds' = fds /\ dirs' = dirs /\ seen' = seen
  BY DEF Others, directories
<1>2. ASSUME NEW s \in Streams, dirs[s] # NULL
      PROVE  /\ dirs[s].fd \in DOMAIN fds
             /\ fds[dirs[s].fd] \in Directories /\ fds[dirs[s].fd] \in Range(fds)
             /\ fs[fds[dirs[s].fd]] \in Seq(Entries)
  BY <1>2 DEF StreamsInv, FilesInv, Range
<1>3. ASSUME NEW d \in Directories, NEW n \in Entries, Create(d, n) PROVE StreamsInv'
  <2>1. fs' = [fs EXCEPT ![d] = Append(fs[d], n)] /\ steady' = steady
    BY <1>3 DEF Create
  <2>2. ASSUME NEW s \in Streams, dirs[s] # NULL
        PROVE  Reads(seen[s], steady[s], fs'[fds[dirs[s].fd]])
    <3>1. CASE fds[dirs[s].fd] = d
      <4>1. fs'[fds[dirs[s].fd]] = Append(fs[d], n)
        BY <2>1, <3>1 DEF StreamsInv, FilesInv
      <4>2. /\ fs[d] \in Seq(Entries) /\ seen[s] \in Seq(Entries \cup {NULL})
            /\ Reads(seen[s], steady[s], fs[d])
        BY <1>2, <2>2, <3>1 DEF StreamsInv
      <4>3. Reads(seen[s], steady[s], Append(fs[d], n))
        BY <4>2, ReadsAfterCreate
      <4> QED BY <4>1, <4>3
    <3>2. CASE fds[dirs[s].fd] # d
      <4>1. fs'[fds[dirs[s].fd]] = fs[fds[dirs[s].fd]]
        BY <1>2, <2>1, <2>2, <3>2 DEF StreamsInv, FilesInv
      <4> QED BY <2>2, <4>1 DEF StreamsInv
    <3> QED BY <3>1, <3>2
  <2> QED BY <1>1, <2>1, <2>2 DEF StreamsInv
<1>4. ASSUME NEW d \in Directories, NEW n \in Entries, Unlink(d, n) PROVE StreamsInv'
  <2>1. d \notin Range(fds)
    BY <1>4 DEF Unlink
  <2>2. PICK i \in DOMAIN fs[d] : fs' = [fs EXCEPT ![d] = RemoveAt(fs[d], i)]
    BY <1>4 DEF Unlink
  <2>3. \A s \in Streams : dirs[s] # NULL => fds[dirs[s].fd] # d
    BY <1>2, <2>1
  <2>4. steady' = steady
    BY <1>4, <2>3 DEF Unlink, StreamsInv
  <2>5. \A s \in Streams : dirs[s] # NULL => fs'[fds[dirs[s].fd]] = fs[fds[dirs[s].fd]]
    BY <1>2, <2>2, <2>3 DEF StreamsInv, FilesInv
  <2> QED BY <1>1, <2>4, <2>5 DEF StreamsInv
<1>5. ASSUME NEW d \in Directories, NEW n \in Entries, chmod(d, n) PROVE StreamsInv'
  BY <1>1, <1>5 DEF chmod, StreamsInv
<1> QED BY <1>3, <1>4, <1>5 DEF Others

LEMMA StreamsStep ==
    ASSUME StreamsInv, [Next]_vars, "unlink_while_reading" \notin Permitted
    PROVE  StreamsInv'
<1>1. FilesInv'
  BY FilesStep DEF StreamsInv
<1>2. CASE ReadDirectories
  <2>1. fs' = fs
    BY <1>2 DEF ReadDirectories
  <2> QED BY <1>1, <1>2, <2>1, OpenKeepsStreams, ReadKeepsStreams, CloseKeepsStreams
          DEF ReadDirectories
<1>3. CASE Others
  BY <1>1, <1>3, OthersKeepStreams
<1>4. CASE pre_main \/ Accounts \/ Commands \/ Signals \/ UNCHANGED vars
  <2>1. UNCHANGED <<fs, fds, dirs, seen, steady>>
    BY <1>4 DEF pre_main, Accounts, Commands, Signals, vars, directories
  <2> QED BY <1>1, <2>1 DEF StreamsInv
<1> QED BY <1>2, <1>3, <1>4 DEF Next

\* A stream gives no entry twice and, before its end, all that the directory has had since
\* opendir, for any number of streams and whatever other processes create meanwhile
\* (opendir, readdir, closedir).
THEOREM EntriesAreRead ==
    "unlink_while_reading" \notin Permitted => (Spec => []EachEntryOnce)
<1> SUFFICES ASSUME "unlink_while_reading" \notin Permitted
             PROVE  Spec => []EachEntryOnce
  OBVIOUS
<1>1. Init => StreamsInv
  <2> SUFFICES ASSUME Init PROVE StreamsInv
    OBVIOUS
  <2>1. <<>> \in Seq(Entries) /\ DOMAIN <<>> = {} /\ <<>> \in Seq(Entries \cup {NULL})
    OBVIOUS
  <2>2. FilesInv
    BY <2>1 DEF Init, FilesInv
  <2> QED BY <2>1, <2>2 DEF Init, StreamsInv
<1>2. StreamsInv /\ [Next]_vars => StreamsInv'
  BY StreamsStep
<1>3. StreamsInv => EachEntryOnce
  BY ReadsOnce
<1> QED BY <1>1, <1>2, <1>3, PTL DEF Spec
=============================================================================
