---------------------------- MODULE StartupProofs ----------------------------
(***************************************************************************)
(* Proofs about Startup, for any number of programs and keygens on a host  *)
(* and any set of keys and lists.  SameIdentity is not inductive: it also  *)
(* takes that without a race a process that has the key file open is the   *)
(* only one with a business there, that a program that will create the     *)
(* file does so where none is, and that the file of an identity that was   *)
(* told holds it or is empty.                                              *)
(***************************************************************************)
EXTENDS Startup, TLAPS

Drawn(f) == f.head = f.tail /\ f.head \in Key

\* What each process holds.
HoldsInv ==
    \A p \in Proc :
        /\ id[p] = Empty <=> pc[p] \in {"down", "key"}
        /\ pc[p] \in {"create", "write"} => Drawn(id[p])
        /\ pc[p] = "write" => keyFile # Missing
        /\ pc[p] \in {"copy", "rest"} => dll # Missing
        /\ pc[p] = "allow" => p \in Server

\* The key file while nobody has raced for it.
FileInv ==
    ~race =>
        /\ told # Empty => Whole(told) /\ keyFile \in {told, Empty}
        /\ \A p \in Proc :
             /\ pc[p] = "create" /\ p \in Program => keyFile = Missing
             /\ pc[p] = "write" =>
                  /\ keyFile = Empty /\ told = Empty
                  /\ \A q \in Proc \ {p} : pc[q] \in {"down", "key", "create"}
             /\ Published(p) => id[p] = told /\ keyFile = told /\ told # Empty

\* No key of two halves while no two processes had the file open.
GenuineInv ==
    ~overlapped =>
        /\ Whole(keyFile) => keyFile.head = keyFile.tail
        /\ \A p \in Proc :
             /\ id[p].head = id[p].tail
             /\ pc[p] = "write" =>
                  keyFile = Empty /\ \A q \in Proc \ {p} : pc[q] # "write"

\* Past reading its lists.
Admitting == {"dll", "fetch", "copy", "rest", "device", "setup", "socket", "up"}

\* The allowlist of a server that has read it.
AllowInv ==
    \A p \in Server : pc[p] \in Admitting =>
        /\ Parses(given[p])
        /\ allowlist[p] = {Normalised(t) : t \in Texts(given[p])}
        /\ allowAny[p] => allowlist[p] = {}
        /\ allowlist[p] = {} => allowAny[p]

IInv ==
    /\ TypeOK /\ HoldsInv /\ FileInv /\ GenuineInv /\ AllowInv

-----------------------------------------------------------------------------

LEMMA FileFacts ==
    /\ Empty \in Halves(Key) /\ Empty \in Halves({"dll"})
    /\ Missing \notin Halves(Key) /\ Missing # Empty
    /\ ~Whole(Empty) /\ ~Whole(Missing)
    /\ \A f \in Halves(Key) : f.head \in Key \cup {Nil} /\ f.tail \in Key \cup {Nil}
    /\ \A f \in Halves(Key) : Drawn(f) => Whole(f) /\ f # Empty /\ f # Missing
    /\ Whole(keyFile) /\ keyFile \in Halves(Key) \cup {Missing} =>
         keyFile \in Halves(Key) /\ keyFile # Empty
  BY StartupAssumption DEF Empty, Missing, Halves, Whole, Drawn

LEMMA InitInvariant == Init => IInv
  <1> SUFFICES ASSUME Init PROVE IInv
    OBVIOUS
  <1>1. TypeOK
    BY FileFacts, StartupAssumption DEF Init, TypeOK, Steps
  <1>2. /\ \A p \in Proc : pc[p] = "down" /\ id[p] = Empty
        /\ keyFile = Missing /\ told = Empty
    BY DEF Init
  <1>3. HoldsInv /\ FileInv /\ AllowInv
    BY <1>2 DEF HoldsInv, FileInv, AllowInv, Admitting, Published, Loading, Proc, Program
  <1>4. GenuineInv
    BY <1>2, FileFacts DEF GenuineInv, Empty
  <1>5. QED
    BY <1>1, <1>3, <1>4 DEF IInv

LEMMA GivenTypes == Given \cup {NoGiven} \subseteq [flag : List, file : List, readable : BOOLEAN]
  <1>1. NoLines \in List
    BY Zenon DEF NoLines, List
  <1>2. NoGiven \in [flag : List, file : List, readable : BOOLEAN]
    BY <1>1, Zenon DEF NoGiven
  <1>3. QED
    BY <1>2, StartupAssumption

\* What was given are keys, and a server keeps only keys.
LEMMA GivenKeys ==
    ASSUME NEW g \in Given \cup {NoGiven}
    PROVE  {Normalised(t) : t \in Texts(g)} \subseteq KeyText
  <1>1. g \in [flag : List, file : List, readable : BOOLEAN]
    BY GivenTypes
  <1>2. Texts(g) \subseteq KeyText
    BY <1>1 DEF Texts, List
  <1>3. \A t \in KeyText : Normalised(t) \in KeyText
    BY DEF Normalised, KeyText
  <1>4. QED
    BY <1>2, <1>3

\* Nothing is lost by a step that leaves the servers past their lists alone.
LEMMA AllowKept ==
    ASSUME AllowInv,
           \A q \in Server : pc'[q] \in Admitting =>
               /\ pc[q] \in Admitting /\ given'[q] = given[q]
               /\ allowlist'[q] = allowlist[q] /\ allowAny'[q] = allowAny[q]
    PROVE  AllowInv'
  BY DEF AllowInv

LEMMA StartStep ==
    ASSUME IInv, NEW p \in Proc, Start(p) PROVE IInv'
  <1> USE DEF IInv
  <1>0. PICK g \in Given \cup {NoGiven} :
           /\ pc[p] = "down" /\ pc' = [pc EXCEPT ![p] = "key"]
           /\ given' = [given EXCEPT ![p] = g]
           /\ UNCHANGED <<id, allowlist, allowAny, vpn0, keyFile, dll, unflushed, told, race, overlapped>>
    BY DEF Start, fileVars, histories
  <1>1. TypeOK' /\ HoldsInv'
    <2>0. pc' \in [Proc -> Steps] /\ given' \in [Proc -> Given \cup {NoGiven}]
      BY <1>0 DEF TypeOK, Steps, Loading
    <2>1. TypeOK'
      BY <1>0, <2>0 DEF TypeOK
    <2>2. HoldsInv'
      BY <1>0 DEF HoldsInv, TypeOK
    <2>3. QED
      BY <2>1, <2>2
  <1>2. FileInv' /\ GenuineInv'
    BY DEF Start, FileInv, GenuineInv, TypeOK, Published, Loading, fileVars, histories
  <1>3. AllowInv'
    BY <1>0, AllowKept DEF TypeOK, Admitting, Proc, Program
  <1>4. QED
    BY <1>1, <1>2, <1>3

LEMMA LoadIdentityStep ==
    ASSUME IInv, NEW p \in Proc, LoadIdentity(p) PROVE IInv'
  <1> USE DEF IInv
  <1>0. /\ Whole(keyFile) /\ keyFile \in Halves(Key) /\ keyFile # Empty
        /\ After(p) \in {"allow", "dll", "done"} /\ (After(p) = "allow" => p \in Server)
    BY FileFacts DEF LoadIdentity, TypeOK, After
  <1>1. TypeOK' /\ HoldsInv'
    BY <1>0 DEF LoadIdentity, Tell, TypeOK, HoldsInv, Steps, Drawn, admission, fileVars, histories
  <1>2. FileInv'
    BY <1>0, FileFacts
    DEF LoadIdentity, Tell, FileInv, TypeOK, Published, Loading, fileVars, histories
  <1>3. GenuineInv'
    BY <1>0 DEF LoadIdentity, GenuineInv, TypeOK, fileVars, histories
  <1>4. AllowInv'
    <2>1. p \in Server => After(p) = "allow"
      BY DEF After
    <2>2. QED
      BY <2>1, AllowKept DEF LoadIdentity, TypeOK, Admitting, admission
  <1>5. QED
    BY <1>1, <1>2, <1>3, <1>4

LEMMA DrawStep ==
    ASSUME IInv, NEW p \in Proc, NewIdentity(p) \/ RunKeygen(p) PROVE IInv'
  <1> USE DEF IInv
  <1>1. PICK k \in Key : id' = [id EXCEPT ![p] = [head |-> k, tail |-> k]]
    BY DEF NewIdentity, RunKeygen
  <1>2. /\ pc' = [pc EXCEPT ![p] = "create"]
        /\ pc[p] \in {"down", "key"}
        /\ UNCHANGED <<given, allowlist, allowAny, vpn0, keyFile, dll, unflushed, told, race, overlapped>>
        /\ p \in Program => keyFile = Missing
    BY StartupAssumption
    DEF NewIdentity, RunKeygen, ReadErrors, IsNotExist, admission, fileVars, histories
  <1>3. [head |-> k, tail |-> k] \in Halves(Key) /\ [head |-> k, tail |-> k] # Empty
    BY StartupAssumption DEF Halves, Empty
  <1>4. TypeOK' /\ HoldsInv'
    <2>0. pc' \in [Proc -> Steps] /\ id' \in [Proc -> Halves(Key)]
      BY <1>1, <1>2, <1>3 DEF TypeOK, Steps, Loading
    <2>1. TypeOK'
      BY <1>1, <1>2, <1>3, <2>0 DEF TypeOK
    <2>2. HoldsInv'
      BY <1>1, <1>2, <1>3 DEF TypeOK, HoldsInv, Drawn
    <2>3. QED
      BY <2>1, <2>2
  <1>5. FileInv'
    BY <1>1, <1>2 DEF FileInv, TypeOK, Published, Loading
  <1>6. GenuineInv'
    BY <1>1, <1>2 DEF GenuineInv, TypeOK
  <1>7. AllowInv'
    BY <1>2, AllowKept DEF TypeOK, Admitting
  <1>8. QED
    BY <1>4, <1>5, <1>6, <1>7

LEMMA CreateKeyFileStep ==
    ASSUME IInv, NEW p \in Proc, CreateKeyFile(p) PROVE IInv'
  <1> USE DEF IInv
  <1>1. /\ pc[p] = "create" /\ keyFile' = Empty /\ pc' = [pc EXCEPT ![p] = "write"]
        /\ race' = (race \/ \E q \in Proc \ {p} : id[q] # Empty)
        /\ overlapped' = (overlapped \/ \E q \in Proc \ {p} : pc[q] = "write")
        /\ told' = IF p \in Keygen THEN Empty ELSE told
        /\ unflushed' = unflushed \cup {"key"}
        /\ UNCHANGED <<id, given, allowlist, allowAny, vpn0, dll>>
    BY DEF CreateKeyFile, Truncated, admission
  <1>2. TypeOK' /\ HoldsInv'
    <2>0. pc' \in [Proc -> Steps]
      BY <1>1 DEF TypeOK, Steps, Loading
    <2>1. TypeOK'
      BY <1>1, <2>0, FileFacts DEF TypeOK
    <2>2. HoldsInv'
      BY <1>1, FileFacts DEF TypeOK, HoldsInv
    <2>3. QED
      BY <2>1, <2>2
  <1>3. FileInv'
    <2> SUFFICES ASSUME ~race' PROVE FileInv'
      BY DEF FileInv
    <2>1. ~race /\ \A q \in Proc \ {p} : pc[q] \in {"down", "key"}
      BY <1>1 DEF HoldsInv
    <2>2. told' = Empty
      BY <1>1, <2>1, FileFacts DEF FileInv, TypeOK, Proc
    <2>3. QED
      BY <1>1, <2>1, <2>2, FileFacts DEF FileInv, TypeOK, Published, Loading
  <1>4. GenuineInv'
    BY <1>1, FileFacts DEF GenuineInv, TypeOK
  <1>5. AllowInv'
    BY <1>1, AllowKept DEF TypeOK, Admitting
  <1>6. QED
    BY <1>2, <1>3, <1>4, <1>5

LEMMA WriteKeyStep ==
    ASSUME IInv, NEW p \in Proc, WriteKey(p) PROVE IInv'
  <1> USE DEF IInv
  <1>0. /\ After(p) \in {"allow", "dll", "done"} /\ (After(p) = "allow" => p \in Server)
        /\ Drawn(id[p]) /\ id[p] \in Halves(Key) /\ Whole(id[p])
        /\ id[p] # Empty /\ id[p] # Missing
    BY FileFacts DEF WriteKey, After, HoldsInv, TypeOK
  <1>1. /\ pc[p] = "write" /\ keyFile' = id[p] /\ pc' = [pc EXCEPT ![p] = After(p)]
        /\ told' = IF told = Empty THEN id[p] ELSE told
        /\ unflushed' = unflushed \cup {"key"}
        /\ UNCHANGED <<id, given, allowlist, allowAny, vpn0, dll, race, overlapped>>
    BY DEF WriteKey, Tell, admission
  <1>2. TypeOK' /\ HoldsInv'
    <2>0. pc' \in [Proc -> Steps] /\ keyFile' \in Halves(Key) /\ told' \in Halves(Key)
      BY <1>0, <1>1 DEF TypeOK, Steps, Loading
    <2>1. TypeOK'
      BY <1>0, <1>1, <2>0 DEF TypeOK
    <2>2. HoldsInv'
      BY <1>0, <1>1 DEF TypeOK, HoldsInv
    <2>3. QED
      BY <2>1, <2>2
  <1>3. FileInv'
    <2> SUFFICES ASSUME ~race PROVE FileInv'
      BY <1>1 DEF FileInv
    <2>1. told' = id[p] /\ \A q \in Proc \ {p} : pc'[q] \in {"down", "key", "create"}
      BY <1>1 DEF FileInv, TypeOK
    <2>2. \A q \in Proc \ {p} : ~(pc'[q] = "create" /\ q \in Program)
      BY <1>1, FileFacts DEF FileInv, TypeOK
    <2>3. pc'[p] = After(p) /\ id'[p] = id[p]
      BY <1>1 DEF TypeOK
    <2>4. QED
      BY <1>0, <1>1, <2>1, <2>2, <2>3 DEF FileInv, Published, Loading
  <1>4. GenuineInv'
    BY <1>0, <1>1 DEF GenuineInv, TypeOK, Drawn
  <1>5. AllowInv'
    <2>1. p \in Server => After(p) = "allow"
      BY DEF After
    <2>2. QED
      BY <1>1, <2>1, AllowKept DEF TypeOK, Admitting
  <1>6. QED
    BY <1>2, <1>3, <1>4, <1>5

LEMMA WriteKeyCutStep ==
    ASSUME IInv, NEW p \in Proc, WriteKeyCut(p) PROVE IInv'
  <1> USE DEF IInv
  <1>0. /\ Drawn(id[p]) /\ id[p].head \in Key /\ keyFile \in Halves(Key)
        /\ keyFile # Missing
    BY DEF WriteKeyCut, HoldsInv, TypeOK, Drawn
  <1>1. /\ pc[p] = "write" /\ pc' = [pc EXCEPT ![p] = "failed"]
        /\ keyFile' = [head |-> id[p].head, tail |-> keyFile.tail]
        /\ unflushed' = unflushed \cup {"key"}
        /\ UNCHANGED <<id, given, allowlist, allowAny, vpn0, dll, told, race, overlapped>>
    BY <1>0 DEF WriteKeyCut, admission, histories, Halves
  <1>2. TypeOK' /\ HoldsInv'
    <2>0. pc' \in [Proc -> Steps] /\ keyFile' \in Halves(Key)
      BY <1>0, <1>1 DEF TypeOK, Steps, Loading, Halves
    <2>1. TypeOK'
      BY <1>1, <2>0 DEF TypeOK
    <2>2. HoldsInv'
      BY <1>1, <2>0, FileFacts DEF TypeOK, HoldsInv
    <2>3. QED
      BY <2>1, <2>2
  <1>3. FileInv'
    <2> SUFFICES ASSUME ~race PROVE FileInv'
      BY <1>1 DEF FileInv
    <2>1. told = Empty /\ \A q \in Proc \ {p} : pc'[q] \in {"down", "key", "create"}
      BY <1>1 DEF FileInv, TypeOK
    <2>2. \A q \in Proc \ {p} : ~(pc'[q] = "create" /\ q \in Program)
      BY <1>1, FileFacts DEF FileInv, TypeOK
    <2>3. pc'[p] = "failed"
      BY <1>1 DEF TypeOK
    <2>4. QED
      BY <1>1, <2>1, <2>2, <2>3 DEF FileInv, Published, Loading
  <1>4. GenuineInv'
    <2>1. ~overlapped => keyFile'.tail = Nil
      BY <1>1 DEF GenuineInv, Empty
    <2>2. QED
      BY <1>1, <2>1 DEF GenuineInv, TypeOK, Whole
  <1>5. AllowInv'
    BY <1>1, AllowKept DEF TypeOK, Admitting
  <1>6. QED
    BY <1>2, <1>3, <1>4, <1>5

\* The steps that only touch the allowlist, the adapter or the socket.
LEMMA OpensStep ==
    ASSUME IInv, NEW p \in Proc, Opens(p) PROVE IInv'
  <1> USE DEF IInv
  <1>1. PICK to \in {"dll", "failed", "setup", "socket", "up"} :
          /\ pc' = [pc EXCEPT ![p] = to]
          /\ pc[p] \in {"allow", "device", "setup", "socket"}
          /\ to = "setup" <=> vpn0' # vpn0
          /\ vpn0' \in {vpn0, p}
          /\ pc[p] = "device" <=> to = "setup"
          /\ pc[p] = "allow" <=> to \in {"dll", "failed"}
          /\ to = "dll" => BuildAllowlist(p)
          /\ to # "dll" => UNCHANGED <<allowlist, allowAny>>
          /\ UNCHANGED <<id, given, keyFile, dll, unflushed, told, race, overlapped>>
    BY StartupAssumption
    DEF Opens, BuildAllowlist, RefuseAllowlist, OpenDevice, SetupInterface, OpenSocket,
        admission, fileVars, histories
  <1>2. /\ allowAny' \in [Proc -> BOOLEAN] /\ allowlist' \in [Proc -> SUBSET KeyText]
        /\ \A q \in Proc \ {p} : allowlist'[q] = allowlist[q] /\ allowAny'[q] = allowAny[q]
        /\ to = "dll" =>
             /\ Parses(given[p])
             /\ allowlist'[p] = {Normalised(t) : t \in Texts(given[p])}
             /\ allowAny'[p] => allowlist'[p] = {}
             /\ allowlist'[p] = {} => allowAny'[p]
    <2>1. CASE to = "dll"
      <3> DEFINE set == {Normalised(t) : t \in Texts(given[p])}
      <3>1. /\ Parses(given[p])
            /\ allowlist' = [allowlist EXCEPT ![p] = set]
            /\ allowAny' = [allowAny EXCEPT ![p] = (set = {})]
        BY <1>1, <2>1 DEF BuildAllowlist
      <3>2. set \subseteq KeyText /\ (set = {}) \in BOOLEAN
        BY GivenKeys DEF TypeOK
      <3>3. allowlist' \in [Proc -> SUBSET KeyText] /\ allowAny' \in [Proc -> BOOLEAN]
        <4> HIDE DEF set
        <4>1. allowlist' \in [Proc -> SUBSET KeyText]
          BY <3>1, <3>2 DEF TypeOK
        <4>2. allowAny' \in [Proc -> BOOLEAN]
          BY <3>1, <3>2 DEF TypeOK
        <4>3. QED
          BY <4>1, <4>2
      <3>4. allowlist'[p] = set /\ allowAny'[p] = (set = {})
        <4> HIDE DEF set
        <4>1. allowlist'[p] = set
          BY <3>1 DEF TypeOK
        <4>2. allowAny'[p] = (set = {})
          BY <3>1 DEF TypeOK
        <4>3. QED
          BY <4>1, <4>2
      <3>5. \A q \in Proc \ {p} : allowlist'[q] = allowlist[q] /\ allowAny'[q] = allowAny[q]
        <4> HIDE DEF set
        <4>1. QED
          BY <3>1 DEF TypeOK
      <3>6. QED
        BY <3>1, <3>3, <3>4, <3>5
    <2>2. CASE to # "dll"
      BY <1>1, <2>2 DEF TypeOK
    <2>3. QED
      BY <2>1, <2>2
  <1>3. TypeOK' /\ HoldsInv'
    <2>1. pc' \in [Proc -> Steps] /\ vpn0' \in Proc \cup {Nil}
      BY <1>1 DEF TypeOK, Steps, Loading
    <2>2. vpn0' # Nil => pc'[vpn0'] \in {"setup", "socket", "up"}
      <3>1. pc'[p] = to /\ \A q \in Proc \ {p} : pc'[q] = pc[q]
        BY <1>1 DEF TypeOK
      <3>2. CASE vpn0' = p
        BY <1>1, <3>1, <3>2 DEF TypeOK
      <3>3. CASE vpn0' # p
        BY <1>1, <3>1, <3>3 DEF TypeOK
      <3>4. QED
        BY <3>2, <3>3
    <2>3. TypeOK'
      BY <1>1, <1>2, <2>1, <2>2 DEF TypeOK
    <2>4. HoldsInv'
      BY <1>1 DEF TypeOK, HoldsInv
    <2>5. QED
      BY <2>3, <2>4
  <1>4. FileInv'
    BY <1>1 DEF FileInv, TypeOK, Published, Loading
  <1>5. GenuineInv'
    BY <1>1 DEF GenuineInv, TypeOK
  <1>6. AllowInv'
    <2>1. pc'[p] = to /\ \A q \in Proc \ {p} : pc'[q] = pc[q]
      BY <1>1 DEF TypeOK
    <2>2. Server \subseteq Proc
      BY DEF Proc, Program
    <2>3. CASE to = "dll"
      BY <1>1, <1>2, <2>1, <2>2, <2>3 DEF AllowInv
    <2>4. CASE to # "dll"
      BY <1>1, <2>1, <2>2, <2>4, AllowKept DEF Admitting
    <2>5. QED
      BY <2>3, <2>4
  <1>7. QED
    BY <1>3, <1>4, <1>5, <1>6

\* The steps of EnsureWintun.
LEMMA InstallsStep ==
    ASSUME IInv, NEW p \in Proc, Installs(p) PROVE IInv'
  <1> USE DEF IInv
  <1>1. PICK to \in {"fetch", "device", "copy", "rest"} :
          /\ pc' = [pc EXCEPT ![p] = to]
          /\ pc[p] \in {"dll", "fetch", "copy", "rest"}
          /\ unflushed' \subseteq unflushed \cup {"dll"}
          /\ UNCHANGED <<id, given, allowlist, allowAny, vpn0, keyFile, told, race, overlapped>>
    BY DEF Installs, EnsureWintun, CreateDll, CopyHead, CopyTail, admission, fileVars, histories
  <1>2. /\ dll' \in Halves({"dll"}) \cup {Missing}
        /\ dll # Missing => dll' # Missing
        /\ pc'[p] \in {"copy", "rest"} => dll' # Missing
    <2>1. pc[p] \in {"copy", "rest"} => dll \in Halves({"dll"})
      BY DEF HoldsInv, TypeOK
    <2>2. Missing \notin Halves({"dll"}) /\ Empty \in Halves({"dll"})
      BY StartupAssumption DEF Missing, Halves, Empty
    <2>3. \A f \in Halves({"dll"}) :
             /\ [f EXCEPT !.head = "dll"] \in Halves({"dll"})
             /\ [f EXCEPT !.tail = "dll"] \in Halves({"dll"})
      BY DEF Halves
    <2>4. CASE EnsureWintun(p)
      BY <2>4 DEF EnsureWintun, TypeOK, fileVars
    <2>5. CASE CreateDll(p)
      BY <2>2, <2>5 DEF CreateDll
    <2>6. CASE CopyHead(p)
      BY <2>1, <2>2, <2>3, <2>6 DEF CopyHead
    <2>7. CASE CopyTail(p)
      BY <2>1, <2>2, <2>3, <2>7 DEF CopyTail
    <2>8. QED
      BY <2>4, <2>5, <2>6, <2>7 DEF Installs
  <1>3. TypeOK' /\ HoldsInv'
    <2>1. pc' \in [Proc -> Steps] /\ unflushed' \subseteq {"key", "dll"}
      BY <1>1 DEF TypeOK, Steps, Loading
    <2>2. pc'[p] = to /\ \A q \in Proc \ {p} : pc'[q] = pc[q]
      BY <1>1 DEF TypeOK
    <2>3. vpn0' # Nil => pc'[vpn0'] \in {"setup", "socket", "up"}
      BY <1>1, <2>2 DEF TypeOK
    <2>4. \A q \in Proc : id'[q] = Empty <=> pc'[q] \in {"down", "key"}
      BY <1>1, <2>2 DEF TypeOK
    <2>5. TypeOK'
      BY <1>1, <1>2, <2>1, <2>3, <2>4 DEF TypeOK
    <2>6. HoldsInv'
      <3> SUFFICES ASSUME NEW q \in Proc
                   PROVE  /\ pc'[q] \in {"create", "write"} => Drawn(id'[q])
                          /\ pc'[q] = "write" => keyFile' # Missing
                          /\ pc'[q] \in {"copy", "rest"} => dll' # Missing
                          /\ pc'[q] = "allow" => q \in Server
        BY <2>4 DEF HoldsInv
      <3>1. CASE q = p
        BY <1>1, <1>2, <2>2, <3>1
      <3>2. CASE q # p
        BY <1>1, <1>2, <2>2, <3>2 DEF HoldsInv
      <3>3. QED
        BY <3>1, <3>2
    <2>7. QED
      BY <2>5, <2>6
  <1>4. FileInv'
    BY <1>1 DEF FileInv, TypeOK, Published, Loading
  <1>5. GenuineInv'
    BY <1>1 DEF GenuineInv, TypeOK
  <1>6. AllowInv'
    BY <1>1, AllowKept DEF TypeOK, Admitting
  <1>7. QED
    BY <1>3, <1>4, <1>5, <1>6

LEMMA ExitStep ==
    ASSUME IInv, NEW p \in Proc, Exit(p) PROVE IInv'
  <1> USE DEF IInv
  <1>1. /\ pc' = [pc EXCEPT ![p] = "down"] /\ id' = [id EXCEPT ![p] = Empty]
        /\ given' = [given EXCEPT ![p] = NoGiven]
        /\ allowlist' = [allowlist EXCEPT ![p] = {}] /\ allowAny' = [allowAny EXCEPT ![p] = FALSE]
        /\ vpn0' = IF vpn0 = p THEN Nil ELSE vpn0
        /\ UNCHANGED <<keyFile, dll, unflushed, overlapped>>
    BY DEF Exit, fileVars
  <1>2. \/ told' = told /\ race' = race
        \/ /\ told' = Empty /\ race' = FALSE
           /\ \A q \in Proc : pc'[q] = "down"
    BY <1>1 DEF Exit, Forgets, TypeOK
  <1>3. /\ pc' \in [Proc -> Steps] /\ id' \in [Proc -> Halves(Key)]
        /\ given' \in [Proc -> Given \cup {NoGiven}]
        /\ allowlist' \in [Proc -> SUBSET KeyText] /\ allowAny' \in [Proc -> BOOLEAN]
    BY <1>1, FileFacts DEF TypeOK, Steps
  <1>4. \A q \in Proc :
          IF q = p THEN pc'[q] = "down" /\ id'[q] = Empty
                   ELSE /\ pc'[q] = pc[q] /\ id'[q] = id[q]
                        /\ given'[q] = given[q]
                        /\ allowlist'[q] = allowlist[q] /\ allowAny'[q] = allowAny[q]
    BY <1>1 DEF TypeOK
  <1>5. TypeOK'
    <2>1. told' \in Halves(Key) /\ race' \in BOOLEAN
      BY <1>1, <1>2, FileFacts DEF TypeOK
    <2>2. /\ vpn0' \in Proc \cup {Nil}
          /\ vpn0' # Nil => pc'[vpn0'] \in {"setup", "socket", "up"}
      BY <1>1, <1>4 DEF TypeOK
    <2>3. \A q \in Proc : id'[q] = Empty <=> pc'[q] \in {"down", "key"}
      BY <1>4 DEF TypeOK
    <2>4. QED
      BY <1>1, <1>3, <2>1, <2>2, <2>3 DEF TypeOK
  <1>6. HoldsInv'
    BY <1>1, <1>4 DEF HoldsInv
  <1>7. FileInv'
    BY <1>1, <1>2, <1>4 DEF FileInv, Published
  <1>8. GenuineInv'
    BY <1>1, <1>4 DEF GenuineInv, Empty
  <1>9. AllowInv'
    BY <1>4, AllowKept DEF Admitting, Proc, Program
  <1>10. QED
    BY <1>5, <1>6, <1>7, <1>8, <1>9

LEMMA PowerLossStep ==
    ASSUME IInv, PowerLoss PROVE IInv'
  <1> USE DEF IInv
  <1>1. /\ pc' = [p \in Proc |-> "down"] /\ id' = [p \in Proc |-> Empty]
        /\ given' = [p \in Proc |-> NoGiven]
        /\ allowlist' = [p \in Proc |-> {}] /\ allowAny' = [p \in Proc |-> FALSE]
        /\ vpn0' = Nil /\ unflushed' = {} /\ overlapped' = overlapped
        /\ keyFile' \in {keyFile, Empty, Missing} /\ dll' \in {dll, Empty, Missing}
    BY DEF PowerLoss, Recovered
  <1>2. \/ told' = told /\ race' = race /\ keyFile' \in {keyFile, Empty}
        \/ told' = Empty /\ race' = FALSE
    BY DEF PowerLoss, Recovered, Forgets
  <1>3. /\ \A p \in Proc : pc'[p] = "down" /\ id'[p] = Empty /\ allowAny'[p] = FALSE
        /\ keyFile' \in Halves(Key) \cup {Missing}
        /\ dll' \in Halves({"dll"}) \cup {Missing}
    BY <1>1, FileFacts DEF TypeOK
  <1>4. TypeOK'
    <2>1. told' \in Halves(Key) /\ race' \in BOOLEAN
      BY <1>2, FileFacts DEF TypeOK, PowerLoss
    <2>2. /\ pc' \in [Proc -> Steps] /\ id' \in [Proc -> Halves(Key)]
          /\ given' \in [Proc -> Given \cup {NoGiven}]
          /\ allowlist' \in [Proc -> SUBSET KeyText] /\ allowAny' \in [Proc -> BOOLEAN]
      BY <1>1, FileFacts DEF Steps
    <2>3. QED
      BY <1>1, <1>3, <2>1, <2>2 DEF TypeOK
  <1>5. HoldsInv' /\ AllowInv'
    BY <1>3 DEF HoldsInv, AllowInv, Admitting, Proc, Program
  <1>6. FileInv'
    BY <1>2, <1>3 DEF FileInv, Published
  <1>7. GenuineInv'
    BY <1>1, <1>3, FileFacts DEF GenuineInv, Empty, Missing
  <1>8. QED
    BY <1>4, <1>5, <1>6, <1>7

LEMMA IdleStep ==
    ASSUME IInv, Flush \/ UNCHANGED vars PROVE IInv'
  <1> USE DEF IInv
  <1>1. /\ UNCHANGED <<pc, id, given, allowlist, allowAny, vpn0, keyFile, dll, told, race, overlapped>>
        /\ unflushed' = {} \/ unflushed' = unflushed
    BY DEF Flush, vars, admission, fileVars, histories
  <1>2. TypeOK'
    BY <1>1 DEF TypeOK
  <1>3. HoldsInv' /\ FileInv' /\ GenuineInv' /\ AllowInv'
    BY <1>1 DEF HoldsInv, FileInv, GenuineInv, AllowInv, Published
  <1>4. QED
    BY <1>2, <1>3

LEMMA StepInvariant == IInv /\ [Next]_vars => IInv'
  <1> SUFFICES ASSUME IInv, [Next]_vars PROVE IInv'
    OBVIOUS
  <1>1. CASE \E p \in Proc : Loads(p)
    BY <1>1, StartStep, LoadIdentityStep, DrawStep, CreateKeyFileStep, WriteKeyStep,
       WriteKeyCutStep DEF Loads
  <1>2. CASE \E p \in Proc : Installs(p)
    BY <1>2, InstallsStep
  <1>3. CASE \E p \in Proc : Opens(p)
    BY <1>3, OpensStep
  <1>4. CASE \E p \in Proc : Exit(p)
    BY <1>4, ExitStep
  <1>5. CASE PowerLoss
    BY <1>5, PowerLossStep
  <1>6. CASE Flush \/ UNCHANGED vars
    BY <1>6, IdleStep
  <1>7. QED
    BY <1>1, <1>2, <1>3, <1>4, <1>5, <1>6 DEF Next

\* IInv is an inductive invariant of the start.
LEMMA SpecInvariant == Spec => []IInv
  BY InitInvariant, StepInvariant, PTL DEF Spec

(***************************************************************************)
(* Types are kept, and whoever has printed its public key goes on with the *)
(* identity that is in the key file and that the peers were told, unless   *)
(* there was a race for the file (identityfile.go: "a stable identity").   *)
(***************************************************************************)
THEOREM IdentityIsStable == Spec => [](TypeOK /\ SameIdentity)
  <1>1. IInv => TypeOK /\ SameIdentity
    BY DEF IInv, FileInv, SameIdentity
  <1>2. QED
    BY <1>1, SpecInvariant, PTL

(***************************************************************************)
(* With any number of programs on a host every program counter, file and   *)
(* identity keeps its type, a program has an identity once it is past      *)
(* reading the key, and the adapter is held by one past its creation.      *)
(***************************************************************************)
COROLLARY StartupTypes == Spec => []TypeOK
  BY IdentityIsStable, PTL

(***************************************************************************)
(* With any number of programs, an identity in use was drawn as one,       *)
(* unless two of them had the key file open for writing at once            *)
(* (identityfile.go).                                                      *)
(***************************************************************************)
THEOREM IdentitiesAreGenuine == Spec => []GenuineIdentity
  <1>1. IInv => GenuineIdentity
    BY DEF IInv, GenuineInv, GenuineIdentity
  <1>2. QED
    BY <1>1, SpecInvariant, PTL

(***************************************************************************)
(* Any number of servers, given any lists, admit exactly the clients named *)
(* there, and everybody only if both lists are empty (buildAllowlist and   *)
(* handleHandshake in cmd/server/main.go).                                 *)
(***************************************************************************)
THEOREM ServersAdmitAsListed == Spec => []AdmitsAsListed
  <1>1. IInv => AdmitsAsListed
    <2> SUFFICES ASSUME IInv, NEW p \in Server, pc[p] = "up", NEW k \in Peer
                 PROVE  Admits(p, k) <=>
                          \/ \E t \in given[p].flag.keys \cup given[p].file.keys : t.peer = k
                          \/ given[p].flag = NoLines /\ given[p].file = NoLines
      BY DEF AdmitsAsListed
    <2> DEFINE g == given[p]
               texts == g.flag.keys \cup g.file.keys
    <2>1. /\ g \in Given \cup {NoGiven}
          /\ Parses(g) /\ allowlist[p] = {Normalised(t) : t \in Texts(g)}
          /\ allowAny[p] <=> allowlist[p] = {}
      BY DEF IInv, AllowInv, TypeOK, Admitting, Proc, Program
    <2> HIDE DEF g
    <2>2. g \in [flag : List, file : List, readable : BOOLEAN]
      BY <2>1, GivenTypes
    <2>3. Texts(g) = texts /\ texts \subseteq KeyText
      BY <2>1, <2>2 DEF Texts, Parses, List
    <2>4. \A t \in KeyText : Normalised(t) = [peer |-> t.peer, canonical |-> TRUE]
      BY DEF Normalised, KeyText
    <2>5. [peer |-> k, canonical |-> TRUE] \in allowlist[p] <=> \E t \in texts : t.peer = k
      BY <2>1, <2>3, <2>4
    <2>6. allowlist[p] = {} <=> texts = {}
      BY <2>1, <2>3
    <2>7. texts = {} <=> g.flag = NoLines /\ g.file = NoLines
      BY <2>1, <2>2 DEF Parses, List, NoLines
    <2>8. QED
      BY <2>1, <2>5, <2>6, <2>7 DEF Admits, g
  <1>2. QED
    BY <1>1, SpecInvariant, PTL

=============================================================================
