----------------------------- MODULE RateLimit ------------------------------
(***************************************************************************)
(* The two limiters in front of every handshake (handleHandshake in        *)
(* src/cmd/server/main.go): a token bucket for all handshakes and, behind  *)
(* it, IPLimiter, which keeps a bucket for each of at most MaxKeys source  *)
(* addresses and evicts the least recently seen one when it needs room.    *)
(* Both are asked by one goroutine, handleUDP.                             *)
(***************************************************************************)
EXTENDS TokenBucket, FiniteSets

CONSTANTS
    Source,                   \* source IP addresses
    GlobalRate, GlobalBurst,  \* the bucket for all handshakes (100, 200 tokens)
    Rate, Burst,              \* the bucket of one source (5, 10 tokens)
    MaxKeys,                  \* sources tracked at a time (4096)
    MaxTime,                  \* bound on the ticks of a behaviour
    None                      \* no bucket, or never seen

ASSUME RateLimitAssumption ==
    /\ GlobalRate \in Nat /\ GlobalBurst \in Nat /\ Rate \in Nat /\ Burst \in Nat
    /\ MaxKeys \in Nat \ {0}     \* NewIPLimiter raises anything below to 1
    /\ MaxTime \in Nat
    /\ None \notin Nat /\ None \notin [bucket : [tokens : Nat, last : Nat], seen : Nat]

VARIABLES
    now,          \* the clock
    global,       \* s.handshakeGlobal
    buckets,      \* s.handshakePerIP.buckets: source -> entry or None
    lastEvent,    \* history: when a source was last heard behind the global limit
    spent,        \* history: spent[t], units all sources got since tick t
    spentBy,      \* history: the same for each source, since its bucket was made
    due           \* history: units each source could claim, were it alone

vars == <<now, global, buckets, lastEvent, spent, spentBy, due>>

Time == 0 .. MaxTime
BucketUpTo(capacity) == [tokens : 0 .. capacity, last : Time]
IpEntry == [bucket : BucketUpTo(Burst), seen : Time]

Tracked == {k \in Source : buckets[k] # None}

TypeOK ==
    /\ now \in Time
    /\ global \in BucketUpTo(GlobalBurst)
    /\ buckets \in [Source -> IpEntry \cup {None}]
    /\ lastEvent \in [Source -> Time \cup {None}]
    /\ spent \in [Time -> Nat]
    /\ spentBy \in [Source -> [Time -> Nat]]
    /\ due \in [Source -> 0 .. Burst]

Init ==
    /\ now = 0
    /\ global = NewTokenBucket(GlobalBurst, 0)
    /\ buckets = [k \in Source |-> None]
    /\ lastEvent = [k \in Source |-> None]
    /\ spent = [t \in Time |-> 0]
    /\ spentBy = [k \in Source |-> [t \in Time |-> 0]]
    /\ due = [k \in Source |-> Burst]

GlobalLevel == Level(global, now, GlobalRate, GlobalBurst)
EntryLevel(e) == Level(e.bucket, now, Rate, Burst)

-----------------------------------------------------------------------------

\* evictOldestLocked: any of those seen least recently (a map has no order).
Oldest == {k \in Tracked : \A j \in Tracked : buckets[k].seen <= buckets[j].seen}

\* Mutant: any entry is evicted.
EvictAny == {[buckets EXCEPT ![v] = None] : v \in Tracked}

\* The tables evictOldestLocked may leave.
Evicted == {[buckets EXCEPT ![v] = None] : v \in Oldest}

NewEntry == [bucket |-> NewTokenBucket(Burst, now), seen |-> now]

\* The tables IPLimiter.Allow may look k up in: k has an entry in each.
RoomFor(k) ==
    IF k \in Tracked THEN {buckets}
    ELSE {[t EXCEPT ![k] = NewEntry] :
             t \in IF Cardinality(Tracked) >= MaxKeys THEN Evicted ELSE {buckets}}

\* Cost units more since every tick so far.
Charged(log) == [t \in Time |-> IF t <= now THEN log[t] + Cost ELSE log[t]]

\* A source that lost its bucket starts its account again.
Accounts(t) == [k \in Source |-> IF t[k] = None THEN [u \in Time |-> 0] ELSE spentBy[k]]

\* Over the global limit: the source is not even looked up.
RefuseGlobal(k) ==
    /\ ~Allows(GlobalLevel)
    /\ global' = After(global, GlobalLevel, now)
    /\ UNCHANGED <<now, buckets, lastEvent, spent, spentBy, due>>

\* The global limit has taken its token; the bucket of the source decides.
AskPerIP(k, t) ==
    /\ Allows(GlobalLevel)
    /\ global' = After(global, GlobalLevel, now)
    /\ buckets' = [t EXCEPT ![k] =
                     [bucket |-> After(t[k].bucket, EntryLevel(t[k]), now), seen |-> now]]
    /\ lastEvent' = [lastEvent EXCEPT ![k] = now]
    /\ UNCHANGED now

RefusePerIP(k, t) ==
    /\ ~Allows(EntryLevel(t[k]))
    /\ AskPerIP(k, t)
    /\ spentBy' = Accounts(t)
    /\ UNCHANGED <<spent, due>>

\* The handshake of k is processed.
Grant(k, t) ==
    /\ Allows(EntryLevel(t[k]))
    /\ AskPerIP(k, t)
    /\ spent' = Charged(spent)
    /\ spentBy' = [Accounts(t) EXCEPT ![k] = Charged(@)]
    /\ due' = [due EXCEPT ![k] = IF @ >= Cost THEN @ - Cost ELSE 0]

Handshake(k) ==
    RefuseGlobal(k) \/ \E t \in RoomFor(k) : RefusePerIP(k, t) \/ Grant(k, t)

Tick ==
    /\ now < MaxTime
    /\ now' = now + 1
    /\ due' = [k \in Source |-> IF due[k] + Rate > Burst THEN Burst ELSE due[k] + Rate]
    /\ UNCHANGED <<global, buckets, lastEvent, spent, spentBy>>

Next == Tick \/ \E k \in Source : Handshake(k)

Spec == Init /\ [][Next]_vars

-----------------------------------------------------------------------------

(***************************************************************************)
(* Whatever the sources do, and however often entries are evicted and made *)
(* anew, the server processes no more handshakes in any period than the    *)
(* global burst and the refill of that period.                             *)
(***************************************************************************)
GlobalBound == \A t \in 0 .. now : spent[t] <= GlobalBurst + GlobalRate * (now - t)

(***************************************************************************)
(* The same for each source, as long as it keeps its entry in the table.   *)
(***************************************************************************)
SourceBound ==
    \A k \in Source : \A t \in 0 .. now : spentBy[k][t] <= Burst + Rate * (now - t)

(***************************************************************************)
(* A source has its own budget behind the global limit: it can always      *)
(* claim at least what a bucket of its own, refilled at every tick and     *)
(* drained by its own handshakes alone, would give it.  The lazy refill    *)
(* loses nothing, and no other source, nor an eviction, takes any of it.   *)
(***************************************************************************)
OwnBudget ==
    \A k \in Source :
       due[k] <= IF k \in Tracked THEN EntryLevel(buckets[k]) ELSE Burst

(***************************************************************************)
(* The table never exceeds its limit, and it forgets no source too early:  *)
(* a source is still tracked, and so still limited, until MaxKeys others   *)
(* have been heard at the time of its last event or later.                 *)
(***************************************************************************)
HeardSince(k) == {j \in Source \ {k} : lastEvent[j] # None /\ lastEvent[j] >= lastEvent[k]}

RecentStay ==
    /\ Cardinality(Tracked) <= MaxKeys
    /\ \A k \in Source :
         lastEvent[k] # None /\ Cardinality(HeardSince(k)) < MaxKeys => k \in Tracked

(***************************************************************************)
(* One source cannot starve the others (server main.go: "a global cap plus *)
(* an independent per-source-IP limiter so one source cannot starve the    *)
(* others"): a source within its own budget passes the global limit, as    *)
(* long as at most one other source has been heard.                        *)
(***************************************************************************)
OneCannotStarve ==
    \A k \in Source :
       /\ due[k] >= Cost
       /\ Cardinality({j \in Source \ {k} : lastEvent[j] # None}) <= 1
       => Allows(GlobalLevel)

=============================================================================
