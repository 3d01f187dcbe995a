------------------------------- MODULE Startup -------------------------------
(***************************************************************************)
(* The start of the programs on one host: main of cmd/server, cmd/client   *)
(* and cmd/keygen up to the point where Tunnel takes over.  What outlives  *)
(* a process is the key file, the Wintun DLL and, for the peers, the       *)
(* public key they have been told.  Programs may be started at the same    *)
(* time, fail or be killed between any two steps, and the host may lose    *)
(* power before the system has flushed a file.                             *)
(*                                                                         *)
(* A file is missing or has two halves, each written or not yet.           *)
(***************************************************************************)
EXTENDS Integers

CONSTANTS
    Server, Client,   \* processes that run these programs with one -key-file
    Keygen,           \* processes that run keygen -out with that file
    Windows,          \* whether the host needs the Wintun DLL
    Key,              \* the private keys that may be drawn
    Peer,             \* the public keys of clients
    Given,            \* what the servers may be given as -peers and -peers-file
    Nil               \* a half not written, no identity, nobody

Program == Server \cup Client
Proc == Program \cup Keygen

\* How a key is written: in canonical base64, or with stray trailing bits.
KeyText == [peer : Peer, canonical : BOOLEAN]

\* A list of keys; a line of it may hold what is neither key nor comment.
List == [keys : SUBSET KeyText, mistyped : BOOLEAN]
NoLines == [keys |-> {}, mistyped |-> FALSE]
NoGiven == [flag |-> NoLines, file |-> NoLines, readable |-> TRUE]

ASSUME StartupAssumption ==
    /\ Program \cap Keygen = {}
    /\ Windows \in BOOLEAN
    /\ Nil \notin Key \cup Proc
    /\ Nil # "dll" /\ "missing" \notin Key \cup {Nil}
    /\ Given \subseteq [flag : List, file : List, readable : BOOLEAN]

VARIABLES
    pc,          \* where each process is; "down" if it does not run
    id,          \* the identity each process holds
    given,       \* -peers, what the -peers-file holds, and whether it can be read
    allowlist,   \* Server.allowlist
    allowAny,    \* Server.allowAny
    keyFile,     \* the file of -key-file
    dll,         \* wintun.dll beside the executable
    vpn0,        \* the process that has the adapter open
    unflushed,   \* the files a power loss may still undo
    told,        \* history: the identity the peers of this host have been told
    race,        \* history: an identity in use was overwritten
    overlapped   \* history: two processes had the key file open for writing

admission == <<given, allowlist, allowAny>>
fileVars == <<keyFile, dll, unflushed>>
histories == <<told, race, overlapped>>
vars == <<pc, id, admission, vpn0, fileVars, histories>>

Halves(S) == [head : S \cup {Nil}, tail : S \cup {Nil}]
Missing == [head |-> "missing", tail |-> "missing"]
Empty == [head |-> Nil, tail |-> Nil]
Whole(f) == f # Missing /\ f.head # Nil /\ f.tail # Nil

Loading == {"key", "create", "write"}
Steps == Loading \cup {"down", "allow", "dll", "fetch", "copy", "rest", "device",
                       "setup", "socket", "up", "done", "failed"}

\* p has printed its public key.
Published(p) == pc[p] \notin Loading \cup {"down", "failed"}

Init ==
    /\ pc = [p \in Proc |-> "down"]
    /\ id = [p \in Proc |-> Empty]
    /\ given = [p \in Proc |-> NoGiven]
    /\ allowlist = [p \in Proc |-> {}]
    /\ allowAny = [p \in Proc |-> FALSE]
    /\ keyFile = Missing
    /\ dll = Missing
    /\ vpn0 = Nil
    /\ unflushed = {}
    /\ told = Empty
    /\ race = FALSE
    /\ overlapped = FALSE

-----------------------------------------------------------------------------
(* LoadOrCreateIdentityFile and keygen.                                    *)

\* A key drawn at random is none of those there are.
GenerateIdentity(k) ==
    \A f \in {id[p] : p \in Proc} \cup {keyFile, told} : k \notin {f.head, f.tail}

After(p) == IF p \in Server THEN "allow" ELSE IF p \in Client THEN "dll" ELSE "done"

\* The public key is printed, and told to the peers unless they know one.
Tell(f) == told' = IF told = Empty THEN f ELSE told

Start(p) ==
    /\ p \in Program
    /\ pc[p] = "down"
    /\ pc' = [pc EXCEPT ![p] = "key"]
    /\ \E g \in IF p \in Server THEN Given ELSE {NoGiven} : given' = [given EXCEPT ![p] = g]
    /\ UNCHANGED <<id, allowlist, allowAny, vpn0, fileVars, histories>>

\* The file holds 32 bytes in base64.
LoadIdentity(p) ==
    /\ pc[p] = "key"
    /\ Whole(keyFile)
    /\ id' = [id EXCEPT ![p] = keyFile]
    /\ pc' = [pc EXCEPT ![p] = After(p)]
    /\ Tell(keyFile)
    /\ UNCHANGED <<admission, vpn0, fileVars, race, overlapped>>

\* Mutant: a file that holds no key is taken for none.
ErrorsIfBad == IF Whole(keyFile) THEN {"other"} ELSE {"not exist", "other"}

\* What ReadFile may fail with.
ReadErrors == IF keyFile = Missing THEN {"not exist", "other"} ELSE {"other"}

\* os.IsNotExist: any other error ends the process.
IsNotExist(err) == err = "not exist"

NewIdentity(p) ==
    /\ pc[p] = "key"
    /\ \E err \in ReadErrors : IsNotExist(err)
    /\ \E k \in Key :
         /\ GenerateIdentity(k)
         /\ id' = [id EXCEPT ![p] = [head |-> k, tail |-> k]]
    /\ pc' = [pc EXCEPT ![p] = "create"]
    /\ UNCHANGED <<admission, vpn0, fileVars, histories>>

\* keygen does not look at what the file holds.
RunKeygen(p) ==
    /\ p \in Keygen
    /\ pc[p] = "down"
    /\ \E k \in Key :
         /\ GenerateIdentity(k)
         /\ id' = [id EXCEPT ![p] = [head |-> k, tail |-> k]]
    /\ pc' = [pc EXCEPT ![p] = "create"]
    /\ UNCHANGED <<admission, vpn0, fileVars, histories>>

\* Mutant: the file is opened without O_TRUNC.
KeptOpen(f) == IF f = Missing THEN Empty ELSE f

\* The content right after os.WriteFile has opened the file.
Truncated(f) == Empty

CreateKeyFile(p) ==
    /\ pc[p] = "create"
    /\ keyFile' = Truncated(keyFile)
    /\ unflushed' = unflushed \cup {"key"}
    /\ race' = (race \/ \E q \in Proc \ {p} : id[q] # Empty)
    /\ overlapped' = (overlapped \/ \E q \in Proc \ {p} : pc[q] = "write")
    /\ told' = IF p \in Keygen THEN Empty ELSE told
    /\ pc' = [pc EXCEPT ![p] = "write"]
    /\ UNCHANGED <<id, admission, vpn0, dll>>

WriteKey(p) ==
    /\ pc[p] = "write"
    /\ keyFile' = id[p]
    /\ unflushed' = unflushed \cup {"key"}
    /\ pc' = [pc EXCEPT ![p] = After(p)]
    /\ Tell(id[p])
    /\ UNCHANGED <<id, admission, vpn0, dll, race, overlapped>>

\* The write ends early (the disk is full); Exit is all that can follow.
WriteKeyCut(p) ==
    /\ pc[p] = "write"
    /\ keyFile' = [keyFile EXCEPT !.head = id[p].head]
    /\ unflushed' = unflushed \cup {"key"}
    /\ pc' = [pc EXCEPT ![p] = "failed"]
    /\ UNCHANGED <<id, admission, vpn0, dll, histories>>

-----------------------------------------------------------------------------
(* The allowlist of the server.                                            *)

\* The keys buildAllowlist gets to see.
Texts(g) == g.flag.keys \cup IF g.readable THEN g.file.keys ELSE {}

\* Mutant: a file that cannot be read is passed over.
ParsesWhatItReads(g) == ~g.flag.mistyped /\ (g.readable => ~g.file.mistyped)

\* buildAllowlist succeeds; blank lines and comments are no lines.
Parses(g) == ~g.flag.mistyped /\ g.readable /\ ~g.file.mistyped

\* Parsing takes either form of a key, encoding gives the canonical one.
Normalised(t) == [peer |-> t.peer, canonical |-> TRUE]

BuildAllowlist(p) ==
    /\ pc[p] = "allow"
    /\ Parses(given[p])
    /\ LET set == {Normalised(t) : t \in Texts(given[p])}
       IN  /\ allowlist' = [allowlist EXCEPT ![p] = set]
           /\ allowAny' = [allowAny EXCEPT ![p] = set = {}]
    /\ pc' = [pc EXCEPT ![p] = "dll"]
    /\ UNCHANGED <<id, given, vpn0, fileVars, histories>>

\* Exit is all that can follow.
RefuseAllowlist(p) ==
    /\ pc[p] = "allow"
    /\ ~Parses(given[p])
    /\ pc' = [pc EXCEPT ![p] = "failed"]
    /\ UNCHANGED <<id, admission, vpn0, fileVars, histories>>

\* handleHandshake looks the key of the client up, in canonical base64.
Admits(p, k) == allowAny[p] \/ [peer |-> k, canonical |-> TRUE] \in allowlist[p]

-----------------------------------------------------------------------------
(* EnsureWintun, the adapter and the socket.                               *)

\* What os.Stat may say of the DLL.
Stat == IF dll = Missing THEN {"error"} ELSE {"found", "error"}

\* A DLL that is there is taken for a good one, and any error for its absence.
EnsureWintun(p) ==
    /\ pc[p] = "dll"
    /\ \E found \in Stat :
         pc' = [pc EXCEPT ![p] = IF Windows /\ found = "error" THEN "fetch" ELSE "device"]
    /\ UNCHANGED <<id, admission, vpn0, fileVars, histories>>

\* The archive has been downloaded; os.Create empties what is there by now,
\* which Windows refuses while some process has the DLL loaded.
CreateDll(p) ==
    /\ pc[p] = "fetch"
    /\ vpn0 = Nil
    /\ dll' = Empty
    /\ unflushed' = unflushed \cup {"dll"}
    /\ pc' = [pc EXCEPT ![p] = "copy"]
    /\ UNCHANGED <<id, admission, vpn0, keyFile, histories>>

\* io.Copy writes block after block.
CopyHead(p) ==
    /\ pc[p] = "copy"
    /\ dll' = [dll EXCEPT !.head = "dll"]
    /\ unflushed' = unflushed \cup {"dll"}
    /\ pc' = [pc EXCEPT ![p] = "rest"]
    /\ UNCHANGED <<id, admission, vpn0, keyFile, histories>>

CopyTail(p) ==
    /\ pc[p] = "rest"
    /\ dll' = [dll EXCEPT !.tail = "dll"]
    /\ unflushed' = unflushed \cup {"dll"}
    /\ pc' = [pc EXCEPT ![p] = "device"]
    /\ UNCHANGED <<id, admission, vpn0, keyFile, histories>>

\* On Windows the adapter is opened through the DLL.
WintunLoads == Windows => Whole(dll)

\* tun.New: vpn0 is opened by one process at a time.
OpenDevice(p) ==
    /\ pc[p] = "device"
    /\ vpn0 = Nil
    /\ WintunLoads
    /\ vpn0' = p
    /\ pc' = [pc EXCEPT ![p] = "setup"]
    /\ UNCHANGED <<id, admission, fileVars, histories>>

SetupInterface(p) ==
    /\ pc[p] = "setup"
    /\ pc' = [pc EXCEPT ![p] = "socket"]
    /\ UNCHANGED <<id, admission, vpn0, fileVars, histories>>

\* NewUDPServer or NewUDPClient; Tunnel goes on from here.
OpenSocket(p) ==
    /\ pc[p] = "socket"
    /\ pc' = [pc EXCEPT ![p] = "up"]
    /\ UNCHANGED <<id, admission, vpn0, fileVars, histories>>

-----------------------------------------------------------------------------
(* Ends.                                                                   *)

\* The peers are told anew once a race is over, or the file is lost.
Forgets == told' = Empty /\ race' = FALSE

\* Mutant: the adapter stays with a process that is gone.
ExitKeepingDevice(p) ==
    /\ pc[p] # "down"
    /\ pc' = [pc EXCEPT ![p] = "down"]
    /\ id' = [id EXCEPT ![p] = Empty]
    /\ given' = [given EXCEPT ![p] = NoGiven]
    /\ allowlist' = [allowlist EXCEPT ![p] = {}]
    /\ allowAny' = [allowAny EXCEPT ![p] = FALSE]
    /\ UNCHANGED <<vpn0, fileVars, histories>>

\* log.Fatalf after any error, a signal, or a kill: the system closes what the
\* process had open.
Exit(p) ==
    /\ pc[p] # "down"
    /\ pc' = [pc EXCEPT ![p] = "down"]
    /\ id' = [id EXCEPT ![p] = Empty]
    /\ given' = [given EXCEPT ![p] = NoGiven]
    /\ allowlist' = [allowlist EXCEPT ![p] = {}]
    /\ allowAny' = [allowAny EXCEPT ![p] = FALSE]
    /\ vpn0' = IF vpn0 = p THEN Nil ELSE vpn0
    /\ IF race /\ \A q \in Proc \ {p} : pc[q] = "down" THEN Forgets
                                                       ELSE UNCHANGED <<told, race>>
    /\ UNCHANGED <<fileVars, overlapped>>

\* What a file may be after a power loss.
Recovered(name, f) == IF name \in unflushed THEN {f, Empty, Missing} ELSE {f}

PowerLoss ==
    /\ pc' = [p \in Proc |-> "down"]
    /\ id' = [p \in Proc |-> Empty]
    /\ given' = [p \in Proc |-> NoGiven]
    /\ allowlist' = [p \in Proc |-> {}]
    /\ allowAny' = [p \in Proc |-> FALSE]
    /\ vpn0' = Nil
    /\ keyFile' \in Recovered("key", keyFile)
    /\ dll' \in Recovered("dll", dll)
    /\ unflushed' = {}
    /\ IF race \/ keyFile' = Missing THEN Forgets ELSE UNCHANGED <<told, race>>
    /\ UNCHANGED overlapped

\* The system writes back what it holds of the files.
Flush ==
    /\ unflushed # {}
    /\ unflushed' = {}
    /\ UNCHANGED <<pc, id, admission, vpn0, keyFile, dll, histories>>

Loads(p) ==
    \/ Start(p) \/ LoadIdentity(p) \/ NewIdentity(p) \/ RunKeygen(p)
    \/ CreateKeyFile(p) \/ WriteKey(p) \/ WriteKeyCut(p)

Installs(p) ==
    EnsureWintun(p) \/ CreateDll(p) \/ CopyHead(p) \/ CopyTail(p)

Opens(p) ==
    \/ BuildAllowlist(p) \/ RefuseAllowlist(p)
    \/ OpenDevice(p) \/ SetupInterface(p) \/ OpenSocket(p)

Next ==
    \/ \E p \in Proc : Loads(p) \/ Installs(p) \/ Opens(p) \/ Exit(p)
    \/ PowerLoss
    \/ Flush

Spec == Init /\ [][Next]_vars

-----------------------------------------------------------------------------

(***************************************************************************)
(* Every variable keeps its type; who has no identity is still looking for *)
(* one, and vpn0 belongs to a process that has got that far.               *)
(***************************************************************************)
TypeOK ==
    /\ pc \in [Proc -> Steps]
    /\ id \in [Proc -> Halves(Key)]
    /\ given \in [Proc -> Given \cup {NoGiven}]
    /\ allowlist \in [Proc -> SUBSET KeyText]
    /\ allowAny \in [Proc -> BOOLEAN]
    /\ keyFile \in Halves(Key) \cup {Missing}
    /\ dll \in Halves({"dll"}) \cup {Missing}
    /\ vpn0 \in Proc \cup {Nil}
    /\ unflushed \subseteq {"key", "dll"}
    /\ told \in Halves(Key)
    /\ race \in BOOLEAN /\ overlapped \in BOOLEAN
    /\ \A p \in Proc : id[p] = Empty <=> pc[p] \in {"down", "key"}
    /\ vpn0 # Nil => pc[vpn0] \in {"setup", "socket", "up"}

(***************************************************************************)
(* Whoever has printed its public key goes on with the identity the key    *)
(* file holds and the peers were told, in this run and in every later one  *)
(* (identityfile.go: "a stable identity"), also when a power loss has      *)
(* emptied the file: it is not made anew.  Unless two processes raced to   *)
(* write the file, keygen replaced it, or it is gone.                      *)
(***************************************************************************)
SameIdentity ==
    ~race => \A p \in Proc : Published(p) => id[p] = told /\ keyFile = told

(***************************************************************************)
(* An identity in use is one that was drawn, never the halves of two, if   *)
(* no two processes had the file open for writing at once.                 *)
(***************************************************************************)
GenuineIdentity ==
    ~overlapped => \A p \in Proc : Published(p) => id[p].head = id[p].tail

(***************************************************************************)
(* A server that is up admits the clients whose keys were put on its two   *)
(* lists, however they were written and whether or not the file could be   *)
(* read, and everybody only if both lists are empty (main.go:              *)
(* buildAllowlist, and the look-up in handleHandshake).                    *)
(***************************************************************************)
AdmitsAsListed ==
    \A p \in Server : pc[p] = "up" =>
        \A k \in Peer :
            Admits(p, k) <=>
                \/ \E t \in given[p].flag.keys \cup given[p].file.keys : t.peer = k
                \/ given[p].flag = NoLines /\ given[p].file = NoLines

=============================================================================
