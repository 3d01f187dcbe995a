-------------------------- MODULE RateLimitProofs ---------------------------
(***************************************************************************)
(* What RateLimit promises, for any number of sources, any rates, bursts   *)
(* and table size.                                                         *)
(*                                                                         *)
(* The bounds are not inductive by themselves: that few units were spent   *)
(* since tick t says nothing of what the next handshake may add.  Units    *)
(* spent and units still in the bucket together are what cannot exceed the *)
(* burst and the refill; that is what GlobalAccount and SourceAccount say. *)
(***************************************************************************)
EXTENDS RateLimit, FiniteSetTheorems, TLAPS

\* What source k can claim behind the global limit.
Share(k) == IF k \in Tracked THEN EntryLevel(buckets[k]) ELSE Burst

\* No bucket was refilled in the future.
Clocks == global.last <= now /\ \A k \in Tracked : buckets[k].bucket.last <= now

GlobalAccount ==
    \A t \in Time : IF t <= now
                    THEN spent[t] + GlobalLevel <= GlobalBurst + GlobalRate * (now - t)
                    ELSE spent[t] = 0

SourceAccount ==
    \A k \in Source : \A t \in Time :
        IF t <= now THEN spentBy[k][t] + Share(k) <= Burst + Rate * (now - t)
        ELSE spentBy[k][t] = 0

Inv == TypeOK /\ Clocks /\ GlobalAccount /\ SourceAccount /\ OwnBudget

-----------------------------------------------------------------------------
(* The bucket.                                                             *)

LEMMA LevelInRange ==
    ASSUME NEW cap \in Nat, NEW rate \in Nat, NEW b \in BucketUpTo(cap),
           NEW t \in Time, b.last <= t
    PROVE  Level(b, t, rate, cap) \in 0 .. cap
<1>1. rate * (t - b.last) \in Nat
  BY DEF BucketUpTo, Time
<1> QED BY <1>1 DEF Level, BucketUpTo

LEMMA RefillByTick ==
    ASSUME NEW rate \in Nat, NEW n \in Nat, NEW t \in 0 .. n
    PROVE  /\ rate * (n + 1 - t) = rate * (n - t) + rate
           /\ rate * (n - t) \in Nat
  OBVIOUS

\* A tick adds the rate, up to the capacity.
LEMMA LevelAfterTick ==
    ASSUME NEW cap \in Nat, NEW rate \in Nat, NEW b \in BucketUpTo(cap),
           NEW t \in Time, b.last <= t
    PROVE  Level(b, t + 1, rate, cap) =
              IF Level(b, t, rate, cap) + rate > cap THEN cap
              ELSE Level(b, t, rate, cap) + rate
<1> DEFINE p == rate * (t - b.last)
<1>1. rate * (t + 1 - b.last) = p + rate /\ p \in Nat
  BY RefillByTick DEF BucketUpTo, Time
<1>2. b.tokens \in 0 .. cap
  BY DEF BucketUpTo
<1>3. /\ Level(b, t, rate, cap) = IF b.tokens + p > cap THEN cap ELSE b.tokens + p
      /\ Level(b, t + 1, rate, cap) =
            IF b.tokens + (p + rate) > cap THEN cap ELSE b.tokens + (p + rate)
  BY <1>1, <1>2, t + 1 \in Nat DEF Level, Time, BucketUpTo
<1> QED
  <2> HIDE DEF p
  <2> QED BY <1>1, <1>2, <1>3

\* Allow takes a token if there is one, and nothing else.
LEMMA LevelAfterAllow ==
    ASSUME NEW cap \in Nat, NEW rate \in Nat, NEW b, NEW t \in Time,
           NEW l \in 0 .. cap
    PROVE  /\ After(b, l, t) \in BucketUpTo(cap)
           /\ After(b, l, t).last = t
           /\ Level(After(b, l, t), t, rate, cap) = IF Allows(l) THEN l - Cost ELSE l
<1>1. rate * (t - t) = 0
  BY DEF Time
<1>2. (IF Allows(l) THEN l - Cost ELSE l) \in 0 .. cap
  BY CostAssumption DEF Allows
<1> QED BY <1>1, <1>2 DEF After, Level, BucketUpTo

-----------------------------------------------------------------------------
(* One step of IPLimiter.                                                  *)

\* The table k is looked up in: k finds the share it had, others lose at most
\* their entry.
LEMMA RoomForIsFair ==
    ASSUME Inv, NEW k \in Source, NEW t \in RoomFor(k)
    PROVE  /\ t \in [Source -> IpEntry \cup {None}]
           /\ t[k] \in IpEntry /\ t[k].bucket.last <= now
           /\ EntryLevel(t[k]) = Share(k)
           /\ \A j \in Source \ {k} : t[j] = buckets[j] \/ t[j] = None
<1> USE RateLimitAssumption
<1>1. None \notin IpEntry
  BY DEF IpEntry, BucketUpTo, Time
<1>2. NewEntry \in IpEntry /\ NewEntry.bucket.last = now
  BY DEF Inv, TypeOK, NewEntry, NewTokenBucket, IpEntry, BucketUpTo, Time
<1>3. EntryLevel(NewEntry) = Burst
  <2>1. Rate * (now - now) = 0
    BY DEF Inv, TypeOK, Time
  <2> QED BY <2>1 DEF EntryLevel, Level, NewEntry, NewTokenBucket
<1>4. CASE k \in Tracked
  BY <1>1, <1>4 DEF RoomFor, Share, Inv, TypeOK, Clocks, Tracked
<1>5. CASE k \notin Tracked
  <2>1. PICK u \in Evicted \cup {buckets} : t = [u EXCEPT ![k] = NewEntry]
    BY <1>5 DEF RoomFor
  <2>2. /\ u \in [Source -> IpEntry \cup {None}]
        /\ \A j \in Source : u[j] = buckets[j] \/ u[j] = None
    BY DEF Evicted, Inv, TypeOK
  <2>3. t[k] = NewEntry /\ \A j \in Source \ {k} : t[j] = u[j]
    BY <2>1, <2>2
  <2>4. t \in [Source -> IpEntry \cup {None}]
    BY <1>2, <2>1, <2>2
  <2>5. Share(k) = Burst
    BY <1>5 DEF Share
  <2>6. NewEntry.bucket.last <= now
    BY <1>2 DEF Inv, TypeOK, Time
  <2> QED BY <1>2, <1>3, <2>2, <2>3, <2>4, <2>5, <2>6
<1> QED BY <1>4, <1>5

\* The global bucket after it was asked.
LEMMA GlobalAsked ==
    ASSUME Inv, global' = After(global, GlobalLevel, now), now' = now
    PROVE  /\ global' \in BucketUpTo(GlobalBurst) /\ global'.last <= now
           /\ GlobalLevel \in 0 .. GlobalBurst
           /\ GlobalLevel' = IF Allows(GlobalLevel) THEN GlobalLevel - Cost ELSE GlobalLevel
<1>1. GlobalLevel \in 0 .. GlobalBurst
  BY LevelInRange, RateLimitAssumption DEF Inv, TypeOK, Clocks, GlobalLevel
<1>2. now \in Time /\ now <= now
  BY DEF Inv, TypeOK, Time
<1> QED BY <1>1, <1>2, LevelAfterAllow, RateLimitAssumption DEF GlobalLevel

\* The table after k was looked up in t.
LEMMA SourceAsked ==
    ASSUME Inv, NEW k \in Source, NEW t \in RoomFor(k), AskPerIP(k, t)
    PROVE  /\ buckets' \in [Source -> IpEntry \cup {None}]
           /\ \A j \in Tracked' : buckets'[j].bucket.last <= now
           /\ Share(k) \in 0 .. Burst
           /\ Share(k)' = IF Allows(EntryLevel(t[k])) THEN Share(k) - Cost ELSE Share(k)
           /\ \A j \in Source \ {k} : (t[j] # None /\ Share(j)' = Share(j))
                                      \/ (t[j] = None /\ Share(j)' = Burst)
<1> USE RateLimitAssumption
<1> DEFINE e == t[k]
           f == [bucket |-> After(e.bucket, EntryLevel(e), now), seen |-> now]
<1>1. /\ t \in [Source -> IpEntry \cup {None}]
      /\ e \in IpEntry /\ e.bucket.last <= now
      /\ EntryLevel(e) = Share(k)
      /\ \A j \in Source \ {k} : t[j] = buckets[j] \/ t[j] = None
  BY RoomForIsFair
<1>2. now \in Time /\ now' = now /\ buckets' = [t EXCEPT ![k] = f]
  BY DEF Inv, TypeOK, AskPerIP
<1>3. EntryLevel(e) \in 0 .. Burst
  BY <1>1, <1>2, LevelInRange DEF EntryLevel, IpEntry
<1>4. /\ f \in IpEntry /\ f.bucket.last = now
      /\ EntryLevel(f) = IF Allows(EntryLevel(e)) THEN EntryLevel(e) - Cost ELSE EntryLevel(e)
  BY <1>2, <1>3, LevelAfterAllow DEF EntryLevel, IpEntry
<1>5. None \notin IpEntry
  BY DEF IpEntry, BucketUpTo, Time
<1>6. buckets' \in [Source -> IpEntry \cup {None}] /\ buckets'[k] = f
      /\ \A j \in Source \ {k} : buckets'[j] = t[j]
  BY <1>1, <1>2, <1>4
<1>7. \A j \in Tracked' : buckets'[j].bucket.last <= now
  <2> TAKE j \in Tracked'
  <2>1. CASE j = k
    BY <1>2, <1>4, <1>6, <2>1 DEF Time
  <2>2. CASE j # k
    BY <1>1, <1>6, <2>2 DEF Tracked, Inv, Clocks
  <2> QED BY <2>1, <2>2
<1>9. Share(k)' = EntryLevel(f)
  BY <1>2, <1>4, <1>5, <1>6 DEF Share, Tracked, EntryLevel
<1>10. ASSUME NEW j \in Source \ {k}
       PROVE  (t[j] # None /\ Share(j)' = Share(j)) \/ (t[j] = None /\ Share(j)' = Burst)
  BY <1>1, <1>2, <1>6 DEF Share, Tracked, EntryLevel
<1> QED BY <1>1, <1>3, <1>4, <1>6, <1>7, <1>9, <1>10

-----------------------------------------------------------------------------
(* The steps.                                                              *)

LEMMA InitInv == Init => Inv
<1> SUFFICES ASSUME Init PROVE Inv
  OBVIOUS
<1> USE RateLimitAssumption
<1>1. TypeOK
  BY DEF Init, TypeOK, NewTokenBucket, BucketUpTo, Time
<1>2. Tracked = {}
  BY DEF Init, Tracked
<1>3. Clocks
  BY <1>2 DEF Init, Clocks, NewTokenBucket
<1>4. GlobalRate * (0 - 0) = 0 /\ Rate * (0 - 0) = 0
  OBVIOUS
<1>5. GlobalLevel = GlobalBurst
  BY <1>4 DEF Init, GlobalLevel, Level, NewTokenBucket
<1>6. GlobalAccount
  BY <1>4, <1>5 DEF Init, GlobalAccount, Time
<1>7. SourceAccount
  BY <1>2, <1>4 DEF Init, SourceAccount, Share, Time
<1>8. OwnBudget
  BY <1>2 DEF Init, OwnBudget
<1> QED BY <1>1, <1>3, <1>6, <1>7, <1>8 DEF Inv

LEMMA TickInv == Inv /\ Tick => Inv'
<1> SUFFICES ASSUME Inv, Tick PROVE Inv'
  OBVIOUS
<1> USE RateLimitAssumption
<1>1. now \in Time /\ now' = now + 1 /\ now' \in Time /\ now \in Nat
  BY DEF Inv, TypeOK, Tick, Time
<1>2. TypeOK'
  <2>1. due' \in [Source -> 0 .. Burst]
    BY DEF Inv, TypeOK, Tick
  <2> QED BY <1>1, <2>1 DEF Inv, TypeOK, Tick
<1>3. Tracked' = Tracked
  BY DEF Tick, Tracked
<1>4. Clocks'
  <2>1. global.last \in Nat
    BY DEF Inv, TypeOK, BucketUpTo, Time
  <2>2. \A k \in Tracked : buckets[k].bucket.last \in Nat
    BY DEF Inv, TypeOK, Tracked, IpEntry, BucketUpTo, Time
  <2> QED BY <1>1, <1>3, <2>1, <2>2 DEF Inv, Clocks, Tick
<1>5. /\ GlobalLevel \in 0 .. GlobalBurst
      /\ GlobalLevel' = IF GlobalLevel + GlobalRate > GlobalBurst THEN GlobalBurst
                        ELSE GlobalLevel + GlobalRate
  BY <1>1, LevelInRange, LevelAfterTick DEF Inv, TypeOK, Clocks, Tick, GlobalLevel
<1>6. ASSUME NEW k \in Source
      PROVE  /\ Share(k) \in 0 .. Burst
             /\ Share(k)' = IF Share(k) + Rate > Burst THEN Burst ELSE Share(k) + Rate
  <2>1. CASE k \in Tracked
    <3>1. buckets[k].bucket \in BucketUpTo(Burst) /\ buckets[k].bucket.last <= now
      BY <2>1 DEF Inv, TypeOK, Clocks, Tracked, IpEntry
    <3>2. Share(k) = Level(buckets[k].bucket, now, Rate, Burst)
      BY <2>1 DEF Share, EntryLevel
    <3>3. Share(k)' = Level(buckets[k].bucket, now + 1, Rate, Burst)
      BY <1>1, <1>3, <2>1 DEF Share, EntryLevel, Tick
    <3> QED BY <1>1, <3>1, <3>2, <3>3, LevelInRange, LevelAfterTick
  <2>2. CASE k \notin Tracked
    BY <1>3, <2>2 DEF Share
  <2> QED BY <2>1, <2>2
<1>7. GlobalAccount'
  <2> SUFFICES ASSUME NEW t \in Time
               PROVE  IF t <= now'
                      THEN spent'[t] + GlobalLevel' <= GlobalBurst + GlobalRate * (now' - t)
                      ELSE spent'[t] = 0
    BY DEF GlobalAccount
  <2>1. spent' = spent /\ spent[t] \in Nat /\ t \in Nat
    BY DEF Inv, TypeOK, Tick, Time
  <2>2. CASE t <= now
    <3> DEFINE p == GlobalRate * (now - t)
    <3>1. GlobalRate * (now' - t) = p + GlobalRate /\ p \in Nat
      BY <1>1, <2>1, <2>2, RefillByTick
    <3>2. spent[t] + GlobalLevel <= GlobalBurst + p
      BY <2>2 DEF Inv, GlobalAccount
    <3>3. t <= now'
      BY <1>1, <2>1, <2>2
    <3> HIDE DEF p
    <3> QED BY <1>5, <2>1, <3>1, <3>2, <3>3
  <2>3. CASE t = now + 1
    <3>1. GlobalRate * (now' - t) = 0
      BY <1>1, <2>3
    <3>2. spent[t] = 0
      BY <1>1, <2>1, <2>3 DEF Inv, GlobalAccount
    <3> QED BY <1>1, <1>5, <2>1, <2>3, <3>1, <3>2
  <2>4. CASE t > now + 1
    BY <1>1, <2>1, <2>4 DEF Inv, GlobalAccount
  <2> QED BY <1>1, <2>1, <2>2, <2>3, <2>4
<1>8. SourceAccount'
  <2> SUFFICES ASSUME NEW k \in Source, NEW t \in Time
               PROVE  IF t <= now'
                      THEN spentBy'[k][t] + Share(k)' <= Burst + Rate * (now' - t)
                      ELSE spentBy'[k][t] = 0
    BY DEF SourceAccount
  <2>1. spentBy' = spentBy /\ spentBy[k][t] \in Nat /\ t \in Nat
    BY DEF Inv, TypeOK, Tick, Time
  <2>2. CASE t <= now
    <3> DEFINE p == Rate * (now - t)
    <3>1. Rate * (now' - t) = p + Rate /\ p \in Nat
      BY <1>1, <2>1, <2>2, RefillByTick
    <3>2. spentBy[k][t] + Share(k) <= Burst + p
      BY <2>2 DEF Inv, SourceAccount
    <3>3. t <= now'
      BY <1>1, <2>1, <2>2
    <3> HIDE DEF p
    <3> QED BY <1>6, <2>1, <3>1, <3>2, <3>3
  <2>3. CASE t = now + 1
    <3>1. Rate * (now' - t) = 0
      BY <1>1, <2>3
    <3>2. spentBy[k][t] = 0
      BY <1>1, <2>1, <2>3 DEF Inv, SourceAccount
    <3> QED BY <1>1, <1>6, <2>1, <2>3, <3>1, <3>2
  <2>4. CASE t > now + 1
    BY <1>1, <2>1, <2>4 DEF Inv, SourceAccount
  <2> QED BY <1>1, <2>1, <2>2, <2>3, <2>4
<1>9. OwnBudget'
  <2> SUFFICES ASSUME NEW k \in Source PROVE due'[k] <= Share(k)'
    BY DEF OwnBudget, Share
  <2>1. due[k] \in 0 .. Burst /\ due[k] <= Share(k)
    BY DEF Inv, TypeOK, OwnBudget, Share
  <2>2. due'[k] = IF due[k] + Rate > Burst THEN Burst ELSE due[k] + Rate
    BY DEF Tick
  <2> QED BY <1>6, <2>1, <2>2
<1> QED BY <1>2, <1>4, <1>7, <1>8, <1>9 DEF Inv

\* What any handshake that reaches the bucket of its source leaves to show.
LEMMA AskedInv ==
    ASSUME Inv, NEW k \in Source, NEW t \in RoomFor(k), RefusePerIP(k, t) \/ Grant(k, t)
    PROVE  Inv'
<1> USE RateLimitAssumption
<1> DEFINE ok == Allows(EntryLevel(t[k]))
<1>1. AskPerIP(k, t) /\ Allows(GlobalLevel)
  BY DEF RefusePerIP, Grant, AskPerIP
<1>2. now' = now /\ now \in Time /\ now \in Nat
  BY <1>1 DEF AskPerIP, Inv, TypeOK, Time
<1>3. /\ global' \in BucketUpTo(GlobalBurst) /\ global'.last <= now
      /\ GlobalLevel \in 0 .. GlobalBurst
      /\ GlobalLevel' = GlobalLevel - Cost
  BY <1>1, <1>2, GlobalAsked DEF AskPerIP
<1>4. /\ buckets' \in [Source -> IpEntry \cup {None}]
      /\ \A j \in Tracked' : buckets'[j].bucket.last <= now
      /\ Share(k) \in 0 .. Burst
      /\ Share(k)' = IF ok THEN Share(k) - Cost ELSE Share(k)
      /\ \A j \in Source \ {k} : (t[j] # None /\ Share(j)' = Share(j))
                                 \/ (t[j] = None /\ Share(j)' = Burst)
  BY <1>1, SourceAsked
<1>5. t[k] # None /\ EntryLevel(t[k]) = Share(k)
  BY RoomForIsFair DEF IpEntry, BucketUpTo, Time
<1>6. /\ spent' = IF ok THEN Charged(spent) ELSE spent
      /\ due' = IF ok THEN [due EXCEPT ![k] = IF @ >= Cost THEN @ - Cost ELSE 0] ELSE due
      /\ spentBy' = IF ok THEN [Accounts(t) EXCEPT ![k] = Charged(@)] ELSE Accounts(t)
  BY DEF RefusePerIP, Grant
<1>7. \A log \in [Time -> Nat] :
         /\ Charged(log) \in [Time -> Nat]
         /\ \A u \in Time : Charged(log)[u] = IF u <= now THEN log[u] + Cost ELSE log[u]
  BY CostAssumption DEF Charged
<1>8. /\ Accounts(t) \in [Source -> [Time -> Nat]]
      /\ Accounts(t)[k] = spentBy[k]
      /\ \A j \in Source \ {k} : \A u \in Time :
           Accounts(t)[j][u] = IF t[j] = None THEN 0 ELSE spentBy[j][u]
  BY <1>5 DEF Accounts, Inv, TypeOK
<1>9. /\ spentBy' \in [Source -> [Time -> Nat]]
      /\ \A u \in Time : spentBy'[k][u] =
            IF ok /\ u <= now THEN spentBy[k][u] + Cost ELSE spentBy[k][u]
      /\ \A j \in Source \ {k} : \A u \in Time :
           spentBy'[j][u] = IF t[j] = None THEN 0 ELSE spentBy[j][u]
  <2>1. spentBy[k] \in [Time -> Nat]
    BY DEF Inv, TypeOK
  <2>2. CASE ok
    BY <1>6, <1>7, <1>8, <2>1, <2>2
  <2>3. CASE ~ok
    BY <1>6, <1>8, <2>3
  <2> QED BY <2>2, <2>3
<1>10. /\ due' \in [Source -> 0 .. Burst]
       /\ due'[k] = IF ok THEN (IF due[k] >= Cost THEN due[k] - Cost ELSE 0) ELSE due[k]
       /\ \A j \in Source \ {k} : due'[j] = due[j]
  BY <1>6, CostAssumption DEF Inv, TypeOK
<1>11. TypeOK'
  <2>1. lastEvent' \in [Source -> Time \cup {None}]
    BY <1>1, <1>2 DEF AskPerIP, Inv, TypeOK
  <2>2. spent' \in [Time -> Nat]
    BY <1>6, <1>7 DEF Inv, TypeOK
  <2> QED BY <1>2, <1>3, <1>4, <1>9, <1>10, <2>1, <2>2 DEF TypeOK
<1>12. Clocks'
  BY <1>2, <1>3, <1>4 DEF Clocks
<1>13. GlobalAccount'
  <2> SUFFICES ASSUME NEW u \in Time
               PROVE  IF u <= now
                      THEN spent'[u] + GlobalLevel' <= GlobalBurst + GlobalRate * (now - u)
                      ELSE spent'[u] = 0
    BY <1>2 DEF GlobalAccount
  <2>1. spent'[u] = IF ok /\ u <= now THEN spent[u] + Cost ELSE spent[u]
    BY <1>6, <1>7 DEF Inv, TypeOK
  <2>2. /\ spent[u] \in Nat /\ u \in Nat /\ Cost \in Nat
        /\ IF u <= now THEN spent[u] + GlobalLevel <= GlobalBurst + GlobalRate * (now - u)
           ELSE spent[u] = 0
    BY CostAssumption DEF Inv, TypeOK, GlobalAccount, Time
  <2> DEFINE p == GlobalRate * (now - u)
  <2>3. u <= now => p \in Nat
    BY <1>2, <2>2, RefillByTick
  <2> HIDE DEF p
  <2>4. IF u <= now THEN spent'[u] + GlobalLevel' <= GlobalBurst + p ELSE spent'[u] = 0
    <3>1. IF u <= now THEN spent[u] + GlobalLevel <= GlobalBurst + p ELSE spent[u] = 0
      BY <2>2 DEF p
    <3> QED BY <1>3, <2>1, <2>2, <2>3, <3>1
  <2> QED BY <2>4 DEF p
<1>14. SourceAccount'
  <2> SUFFICES ASSUME NEW j \in Source, NEW u \in Time
               PROVE  IF u <= now
                      THEN spentBy'[j][u] + Share(j)' <= Burst + Rate * (now - u)
                      ELSE spentBy'[j][u] = 0
    BY <1>2 DEF SourceAccount
  <2> DEFINE p == Rate * (now - u)
  <2>1. /\ spentBy[j][u] \in Nat /\ u \in Nat /\ Cost \in Nat
        /\ u <= now => p \in Nat
    BY <1>2, RefillByTick, CostAssumption DEF Inv, TypeOK, Time
  <2>2. IF u <= now THEN spentBy[j][u] + Share(j) <= Burst + p ELSE spentBy[j][u] = 0
    BY DEF Inv, SourceAccount
  <2> HIDE DEF p
  <2>3. CASE j = k
    <3>1. IF u <= now THEN spentBy'[j][u] + Share(j)' <= Burst + p ELSE spentBy'[j][u] = 0
      BY <1>4, <1>9, <2>1, <2>2, <2>3
    <3> QED BY <3>1 DEF p
  <2>4. CASE j # k
    <3>1. IF u <= now THEN spentBy'[j][u] + Share(j)' <= Burst + p ELSE spentBy'[j][u] = 0
      BY <1>4, <1>9, <2>1, <2>2, <2>4
    <3> QED BY <3>1 DEF p
  <2> QED BY <2>3, <2>4
<1>15. OwnBudget'
  <2> SUFFICES ASSUME NEW j \in Source PROVE due'[j] <= Share(j)'
    BY DEF OwnBudget, Share
  <2>1. due[j] \in 0 .. Burst /\ due[j] <= Share(j)
    BY DEF Inv, TypeOK, OwnBudget, Share
  <2>2. ok <=> Share(k) >= Cost
    BY <1>5 DEF Allows
  <2>3. CASE j = k
    BY <1>4, <1>10, <2>1, <2>2, <2>3, CostAssumption
  <2>4. CASE j # k
    BY <1>4, <1>10, <2>1, <2>4
  <2> QED BY <2>3, <2>4
<1> QED BY <1>11, <1>12, <1>13, <1>14, <1>15 DEF Inv

\* Over the global limit, only the global bucket is touched: it is refilled.
LEMMA RefusedInv ==
    ASSUME Inv, NEW k \in Source, RefuseGlobal(k)
    PROVE  Inv'
<1>1. /\ now' = now /\ buckets' = buckets /\ Tracked' = Tracked
      /\ GlobalLevel' = GlobalLevel
      /\ global' \in BucketUpTo(GlobalBurst) /\ global'.last <= now
  BY GlobalAsked DEF RefuseGlobal, Tracked
<1>2. TypeOK' /\ Clocks'
  BY <1>1 DEF Inv, TypeOK, Clocks, RefuseGlobal
<1>3. GlobalAccount'
  BY <1>1 DEF Inv, GlobalAccount, RefuseGlobal
<1>4. SourceAccount' /\ OwnBudget'
  BY <1>1 DEF Inv, SourceAccount, OwnBudget, Share, EntryLevel, RefuseGlobal
<1> QED BY <1>2, <1>3, <1>4 DEF Inv

LEMMA StutterInv == Inv /\ UNCHANGED vars => Inv'
  BY DEF vars, Inv, TypeOK, Clocks, GlobalAccount, SourceAccount, OwnBudget, Share,
         Tracked, GlobalLevel, EntryLevel

LEMMA NextInv == Inv /\ [Next]_vars => Inv'
<1> SUFFICES ASSUME Inv, [Next]_vars PROVE Inv'
  OBVIOUS
<1>1. CASE Tick
  BY <1>1, TickInv
<1>2. ASSUME NEW k \in Source, Handshake(k) PROVE Inv'
  BY <1>2, RefusedInv, AskedInv DEF Handshake
<1>3. CASE UNCHANGED vars
  BY <1>3, StutterInv
<1> QED BY <1>1, <1>2, <1>3 DEF Next

LEMMA InvImplies == Inv => TypeOK /\ GlobalBound /\ SourceBound /\ OwnBudget
<1> SUFFICES ASSUME Inv PROVE GlobalBound /\ SourceBound
  BY DEF Inv
<1> USE RateLimitAssumption
<1>1. now \in Nat /\ 0 .. now \subseteq Time
  BY DEF Inv, TypeOK, Time
<1>2. GlobalBound
  <2> SUFFICES ASSUME NEW t \in 0 .. now
               PROVE  spent[t] <= GlobalBurst + GlobalRate * (now - t)
    BY DEF GlobalBound
  <2>1. GlobalLevel \in Nat
    BY LevelInRange DEF Inv, TypeOK, Clocks, GlobalLevel
  <2>2. /\ GlobalRate * (now - t) \in Nat /\ spent[t] \in Nat
        /\ spent[t] + GlobalLevel <= GlobalBurst + GlobalRate * (now - t)
    BY <1>1, RefillByTick DEF Inv, TypeOK, GlobalAccount
  <2> QED BY <2>1, <2>2
<1>3. SourceBound
  <2> SUFFICES ASSUME NEW k \in Source, NEW t \in 0 .. now
               PROVE  spentBy[k][t] <= Burst + Rate * (now - t)
    BY DEF SourceBound
  <2>1. Share(k) \in Nat
    <3>1. CASE k \in Tracked
      <4>1. buckets[k].bucket \in BucketUpTo(Burst) /\ buckets[k].bucket.last <= now
        BY <3>1 DEF Inv, TypeOK, Clocks, Tracked, IpEntry
      <4>2. EntryLevel(buckets[k]) \in 0 .. Burst
        BY <1>1, <4>1, LevelInRange DEF EntryLevel, Inv, TypeOK
      <4> QED BY <3>1, <4>2 DEF Share
    <3>2. CASE k \notin Tracked
      BY <3>2 DEF Share
    <3> QED BY <3>1, <3>2
  <2>2. /\ Rate * (now - t) \in Nat /\ spentBy[k][t] \in Nat
        /\ spentBy[k][t] + Share(k) <= Burst + Rate * (now - t)
    BY <1>1, RefillByTick DEF Inv, TypeOK, SourceAccount
  <2> QED BY <2>1, <2>2
<1> QED BY <1>2, <1>3

(***************************************************************************)
(* The limits hold for any number of sources, rates, bursts and table      *)
(* size: the server never processes more handshakes than the global bucket *)
(* allows over any period, no source gets more than its own bucket allows  *)
(* while it is tracked, and none gets less.                                *)
(***************************************************************************)
THEOREM LimitsHold == Spec => [](TypeOK /\ GlobalBound /\ SourceBound /\ OwnBudget)
  BY InitInv, NextInv, InvImplies, PTL DEF Spec

(***************************************************************************)
(* For any rates, bursts and table size the limiters keep their types: no  *)
(* bucket ever holds more than its capacity or less than nothing, however  *)
(* long it was left alone (TokenBucket.Allow).                             *)
(***************************************************************************)
COROLLARY LimiterTypes == Spec => []TypeOK
  BY LimitsHold, PTL

(***************************************************************************)
(* For any number of sources: over any period the server processes no more *)
(* handshakes than the global burst and the refill of the period           *)
(* (handleHandshake).                                                      *)
(***************************************************************************)
COROLLARY GlobalLimitHolds == Spec => []GlobalBound
  BY LimitsHold, PTL

(***************************************************************************)
(* The same for the bucket of each source, as long as it stays tracked     *)
(* (IPLimiter.Allow).                                                      *)
(***************************************************************************)
COROLLARY SourceLimitHolds == Spec => []SourceBound
  BY LimitsHold, PTL

-----------------------------------------------------------------------------
(***************************************************************************)
(* The table.  That nobody recent is forgotten rests on the entry evicted  *)
(* being one seen least recently, and on "seen" being the time of the last *)
(* event: then the MaxKeys entries that remain, the new one among them,    *)
(* are sources heard since.                                                *)
(***************************************************************************)
Heard == {k \in Source : lastEvent[k] # None}

TableInv ==
    /\ IsFiniteSet(Heard) /\ Tracked \subseteq Heard
    /\ \A k \in Heard : lastEvent[k] <= now
    /\ \A k \in Tracked : buckets[k].seen = lastEvent[k]
    /\ Cardinality(Tracked) <= MaxKeys
    /\ \A k \in Heard \ Tracked : Cardinality(HeardSince(k)) >= MaxKeys

LEMMA HeardIsFinite ==
    ASSUME TableInv, NEW k \in Source
    PROVE  /\ IsFiniteSet(HeardSince(k)) /\ HeardSince(k) \subseteq Heard
           /\ Cardinality(HeardSince(k)) \in Nat
           /\ IsFiniteSet(Tracked) /\ Cardinality(Tracked) \in Nat
<1>1. HeardSince(k) \subseteq Heard
  BY DEF HeardSince, Heard
<1>2. IsFiniteSet(HeardSince(k)) /\ IsFiniteSet(Tracked)
  BY <1>1, FS_Subset DEF TableInv
<1> QED BY <1>1, <1>2, FS_CardinalityType

\* Who is tracked after k was looked up: all as before, or one of those seen
\* least recently gave way to k and the table was full.
LEMMA TrackedAfter ==
    ASSUME Inv, NEW k \in Source, NEW t \in RoomFor(k), AskPerIP(k, t)
    PROVE  /\ \A j \in Tracked' \ {k} : j \in Tracked /\ buckets'[j] = buckets[j]
           /\ k \in Tracked' /\ buckets'[k].seen = now
           /\ \/ k \in Tracked /\ Tracked' = Tracked
              \/ /\ k \notin Tracked /\ ~(Cardinality(Tracked) >= MaxKeys)
                 /\ Tracked' = Tracked \cup {k}
              \/ /\ k \notin Tracked /\ Cardinality(Tracked) >= MaxKeys
                 /\ \E v \in Oldest : Tracked' = (Tracked \ {v}) \cup {k}
<1> USE RateLimitAssumption
<1> DEFINE f == [bucket |-> After(t[k].bucket, EntryLevel(t[k]), now), seen |-> now]
<1>1. /\ t \in [Source -> IpEntry \cup {None}] /\ buckets \in [Source -> IpEntry \cup {None}]
      /\ buckets' = [t EXCEPT ![k] = f]
  BY RoomForIsFair DEF AskPerIP, Inv, TypeOK
<1>2. buckets'[k] = f /\ \A j \in Source \ {k} : buckets'[j] = t[j]
  BY <1>1
<1>3. f # None /\ f.seen = now
  <2>1. t[k] \in IpEntry /\ t[k].bucket.last <= now /\ now \in Time
    BY RoomForIsFair DEF Inv, TypeOK
  <2>2. EntryLevel(t[k]) \in 0 .. Burst
    BY <2>1, LevelInRange DEF EntryLevel, IpEntry
  <2>3. f \in IpEntry
    BY <2>1, <2>2, LevelAfterAllow DEF IpEntry
  <2>4. None \notin IpEntry
    BY DEF IpEntry, BucketUpTo, Time
  <2> QED BY <2>3, <2>4
<1>4. k \in Tracked' /\ buckets'[k].seen = now
  BY <1>2, <1>3 DEF Tracked
<1>5. \A j \in Source \ {k} : j \in Tracked' <=> t[j] # None
  BY <1>2 DEF Tracked
<1> HIDE DEF f
<1>6. CASE k \in Tracked
  <2>1. t = buckets
    BY <1>6 DEF RoomFor
  <2>2. \A j \in Source \ {k} : j \in Tracked' <=> j \in Tracked
    BY <1>5, <2>1 DEF Tracked
  <2>3. Tracked' = Tracked
    BY <1>4, <1>6, <2>2 DEF Tracked
  <2> QED BY <1>2, <1>4, <1>6, <2>1, <2>3 DEF Tracked
<1>7. CASE k \notin Tracked /\ ~(Cardinality(Tracked) >= MaxKeys)
  <2>1. t = [buckets EXCEPT ![k] = NewEntry]
    BY <1>7 DEF RoomFor
  <2>2. \A j \in Source \ {k} : t[j] = buckets[j]
    BY <1>1, <2>1
  <2>3. \A j \in Source \ {k} : j \in Tracked' <=> j \in Tracked
    BY <1>5, <2>2 DEF Tracked
  <2>4. Tracked' = Tracked \cup {k}
    BY <1>4, <2>3 DEF Tracked
  <2> QED BY <1>2, <1>4, <1>7, <2>2, <2>4 DEF Tracked
<1>8. CASE k \notin Tracked /\ Cardinality(Tracked) >= MaxKeys
  <2>1. PICK v \in Oldest : t = [[buckets EXCEPT ![v] = None] EXCEPT ![k] = NewEntry]
    BY <1>8 DEF RoomFor, Evicted
  <2>2. v \in Tracked /\ v \in Source /\ v # k
    BY <1>8, <2>1 DEF Oldest, Tracked
  <2>3. \A j \in Source \ {k} : t[j] = IF j = v THEN None ELSE buckets[j]
    BY <1>1, <2>1
  <2>4. \A j \in Source \ {k} : j \in Tracked' <=> j \in Tracked \ {v}
    BY <1>5, <2>3 DEF Tracked
  <2>5. Tracked' = (Tracked \ {v}) \cup {k}
    BY <1>4, <2>2, <2>4 DEF Tracked
  <2>6. \A j \in Tracked' \ {k} : j \in Tracked /\ buckets'[j] = buckets[j]
    BY <1>2, <2>3, <2>4, <2>5 DEF Tracked
  <2> QED BY <1>4, <1>8, <2>1, <2>5, <2>6
<1> QED BY <1>6, <1>7, <1>8

\* An event of k now: k counts among the recent ones of every other source.
LEMMA HeardAfter ==
    ASSUME TypeOK, TableInv, NEW k \in Source, now' = now,
           lastEvent' = [lastEvent EXCEPT ![k] = now]
    PROVE  /\ lastEvent'[k] = now /\ \A j \in Source \ {k} : lastEvent'[j] = lastEvent[j]
           /\ Heard' = Heard \cup {k} /\ IsFiniteSet(Heard')
           /\ \A j \in Heard' : lastEvent'[j] <= now
           /\ \A j \in Heard \ {k} : /\ HeardSince(j) \subseteq HeardSince(j)'
                                     /\ k \in HeardSince(j)'
<1> USE RateLimitAssumption
<1>1. now \in Nat /\ now # None /\ now <= now
  BY DEF TypeOK, Time
<1>2. lastEvent'[k] = now /\ \A j \in Source \ {k} : lastEvent'[j] = lastEvent[j]
  BY DEF TypeOK
<1>3. Heard' = Heard \cup {k}
  BY <1>1, <1>2 DEF Heard
<1>4. IsFiniteSet(Heard')
  BY <1>3, FS_AddElement DEF TableInv
<1>5. \A j \in Heard' : lastEvent'[j] <= now
  BY <1>1, <1>2, <1>3 DEF Heard, TableInv
<1>6. ASSUME NEW j \in Heard \ {k}
      PROVE  HeardSince(j) \subseteq HeardSince(j)' /\ k \in HeardSince(j)'
  <2>1. j \in Source /\ j # k /\ lastEvent'[j] = lastEvent[j] /\ lastEvent[j] <= now
    BY <1>2 DEF Heard, TableInv
  <2>2. HeardSince(j)' = {i \in Source \ {j} : lastEvent'[i] # None
                                               /\ lastEvent'[i] >= lastEvent[j]}
    BY <2>1 DEF HeardSince
  <2>3. lastEvent[j] \in Nat
    BY DEF Heard, TypeOK, Time
  <2>4. k \in HeardSince(j)'
    BY <1>1, <1>2, <2>1, <2>2, <2>3
  <2>5. ASSUME NEW i \in HeardSince(j), i # k PROVE i \in HeardSince(j)'
    BY <1>2, <2>2, <2>5 DEF HeardSince
  <2> QED BY <2>4, <2>5
<1> QED BY <1>2, <1>3, <1>4, <1>5, <1>6

\* The one that gave way: all that remain in the table, and k, were heard since.
LEMMA EvictedAfterMany ==
    ASSUME TypeOK, TableInv, NEW k \in Source, k \notin Tracked, now' = now,
           lastEvent' = [lastEvent EXCEPT ![k] = now],
           Cardinality(Tracked) >= MaxKeys, NEW v \in Oldest
    PROVE  /\ Cardinality((Tracked \ {v}) \cup {k}) = MaxKeys
           /\ Cardinality(HeardSince(v)') >= MaxKeys
<1> USE RateLimitAssumption
<1> DEFINE rest == (Tracked \ {v}) \cup {k}
<1>1. /\ v \in Tracked /\ v \in Heard \ {k}
      /\ \A j \in Tracked : lastEvent[v] <= lastEvent[j]
  BY DEF Oldest, TableInv
<1>2. Cardinality(Tracked) = MaxKeys /\ IsFiniteSet(Tracked)
  BY HeardIsFinite DEF TableInv
<1>3. IsFiniteSet(Tracked \ {v}) /\ Cardinality(Tracked \ {v}) = MaxKeys - 1
  BY <1>1, <1>2, FS_RemoveElement
<1>4. IsFiniteSet(rest) /\ Cardinality(rest) = MaxKeys
  BY <1>3, FS_AddElement
<1>5. rest \subseteq HeardSince(v)'
  <2>1. \A j \in Tracked \ {v} : j \in HeardSince(v)
    <3> TAKE j \in Tracked \ {v}
    <3>1. lastEvent[j] \in Nat /\ lastEvent[v] \in Nat /\ lastEvent[v] <= lastEvent[j]
          /\ lastEvent[j] # None /\ j \in Source \ {v}
      BY <1>1 DEF Heard, TableInv, TypeOK, Time, Tracked
    <3> QED BY <3>1 DEF HeardSince
  <2> QED BY <1>1, <2>1, HeardAfter
<1>6. IsFiniteSet(HeardSince(v)')
  <2>1. HeardSince(v)' \subseteq Heard'
    BY DEF HeardSince, Heard
  <2> QED BY <2>1, HeardAfter, FS_Subset
<1>7. Cardinality(rest) <= Cardinality(HeardSince(v)')
  BY <1>5, <1>6, FS_Subset
<1>8. Cardinality(HeardSince(v)') \in Nat
  BY <1>6, FS_CardinalityType
<1> QED BY <1>4, <1>7, <1>8

LEMMA TableAsked ==
    ASSUME Inv, TableInv, NEW k \in Source, NEW t \in RoomFor(k), AskPerIP(k, t)
    PROVE  TableInv'
<1> USE RateLimitAssumption
<1>1. TypeOK /\ now' = now /\ now \in Nat /\ lastEvent' = [lastEvent EXCEPT ![k] = now]
  BY DEF Inv, TypeOK, Time, AskPerIP
<1>2. /\ lastEvent'[k] = now /\ \A j \in Source \ {k} : lastEvent'[j] = lastEvent[j]
      /\ Heard' = Heard \cup {k} /\ IsFiniteSet(Heard')
      /\ \A j \in Heard' : lastEvent'[j] <= now
      /\ \A j \in Heard \ {k} : /\ HeardSince(j) \subseteq HeardSince(j)'
                                /\ k \in HeardSince(j)'
  BY <1>1, HeardAfter
<1>3. /\ \A j \in Tracked' \ {k} : j \in Tracked /\ buckets'[j] = buckets[j]
      /\ k \in Tracked' /\ buckets'[k].seen = now
      /\ \/ k \in Tracked /\ Tracked' = Tracked
         \/ /\ k \notin Tracked /\ ~(Cardinality(Tracked) >= MaxKeys)
            /\ Tracked' = Tracked \cup {k}
         \/ /\ k \notin Tracked /\ Cardinality(Tracked) >= MaxKeys
            /\ \E v \in Oldest : Tracked' = (Tracked \ {v}) \cup {k}
  BY TrackedAfter
<1>4. Tracked' \subseteq Heard'
  BY <1>2, <1>3 DEF TableInv
<1>5. \A j \in Tracked' : buckets'[j].seen = lastEvent'[j]
  <2> TAKE j \in Tracked'
  <2>1. CASE j = k
    BY <1>2, <1>3, <2>1
  <2>2. CASE j # k
    <3>1. j \in Tracked /\ j \in Source
      BY <1>3, <2>2 DEF Tracked
    <3> QED BY <1>2, <1>3, <2>2, <3>1 DEF TableInv
  <2> QED BY <2>1, <2>2
\* Who was not tracked before and still is not was forgotten long ago.
<1>6. ASSUME NEW j \in Heard \ {k}, j \notin Tracked
      PROVE  Cardinality(HeardSince(j)') >= MaxKeys
  <2>1. j \in Source /\ HeardSince(j) \subseteq HeardSince(j)'
    BY <1>2 DEF Heard
  <2>2. IsFiniteSet(HeardSince(j)')
    <3>1. HeardSince(j)' \subseteq Heard'
      BY DEF HeardSince, Heard
    <3> QED BY <1>2, <3>1, FS_Subset
  <2>3. Cardinality(HeardSince(j)) <= Cardinality(HeardSince(j)')
    BY <2>1, <2>2, FS_Subset
  <2>4. Cardinality(HeardSince(j)') \in Nat /\ Cardinality(HeardSince(j)) \in Nat
    BY <2>1, <2>2, FS_CardinalityType, HeardIsFinite
  <2>5. Cardinality(HeardSince(j)) >= MaxKeys
    BY <1>6 DEF TableInv
  <2> QED BY <2>3, <2>4, <2>5
<1>7. /\ Cardinality(Tracked') <= MaxKeys
      /\ \A j \in Heard' \ Tracked' : Cardinality(HeardSince(j)') >= MaxKeys
  <2>1. CASE k \in Tracked /\ Tracked' = Tracked
    BY <1>2, <1>6, <2>1 DEF TableInv
  <2>2. CASE /\ k \notin Tracked /\ ~(Cardinality(Tracked) >= MaxKeys)
             /\ Tracked' = Tracked \cup {k}
    <3>1. IsFiniteSet(Tracked) /\ Cardinality(Tracked) \in Nat
      BY HeardIsFinite
    <3>2. Cardinality(Tracked \cup {k}) = Cardinality(Tracked) + 1
      BY <2>2, <3>1, FS_AddElement
    <3>3. Cardinality(Tracked') <= MaxKeys
      BY <2>2, <3>1, <3>2
    <3> QED BY <1>2, <1>6, <2>2, <3>3
  <2>3. CASE /\ k \notin Tracked /\ Cardinality(Tracked) >= MaxKeys
             /\ \E v \in Oldest : Tracked' = (Tracked \ {v}) \cup {k}
    <3>1. PICK v \in Oldest : Tracked' = (Tracked \ {v}) \cup {k}
      BY <2>3
    <3>2. /\ Cardinality((Tracked \ {v}) \cup {k}) = MaxKeys
          /\ Cardinality(HeardSince(v)') >= MaxKeys
      BY <1>1, <2>3, EvictedAfterMany
    <3>3. Cardinality(Tracked') <= MaxKeys
      BY <3>1, <3>2
    <3>4. ASSUME NEW j \in Heard' \ Tracked' PROVE Cardinality(HeardSince(j)') >= MaxKeys
      <4>1. j \in Heard \ {k} /\ (j = v \/ j \notin Tracked)
        BY <1>2, <3>1
      <4> QED BY <1>6, <3>2, <4>1
    <3> QED BY <3>3, <3>4
  <2> QED BY <1>3, <2>1, <2>2, <2>3
<1> QED BY <1>1, <1>2, <1>4, <1>5, <1>7 DEF TableInv

\* Nothing else moves an event or an entry.
LEMMA TableUntouched ==
    ASSUME Inv, TableInv, UNCHANGED <<buckets, lastEvent>>, now' \in Nat, now' >= now
    PROVE  TableInv'
<1>1. Heard' = Heard /\ Tracked' = Tracked /\ \A j : HeardSince(j)' = HeardSince(j)
  BY DEF Heard, Tracked, HeardSince
<1>2. \A j \in Heard : lastEvent'[j] <= now'
  <2> TAKE j \in Heard
  <2>1. lastEvent[j] \in Nat /\ lastEvent[j] <= now /\ now \in Nat
    BY DEF Inv, TypeOK, TableInv, Heard, Time
  <2> QED BY <2>1
<1> QED BY <1>1, <1>2 DEF TableInv

(***************************************************************************)
(* For any number of sources and any table size: IPLimiter never tracks    *)
(* more than MaxKeys sources, and its eviction forgets a source only once  *)
(* MaxKeys others have been heard at the time of its last event or later.  *)
(***************************************************************************)
THEOREM RecentAreKept == Spec => []RecentStay
<1>1. Init => TableInv
  <2> SUFFICES ASSUME Init PROVE TableInv
    OBVIOUS
  <2>1. Heard = {} /\ Tracked = {}
    BY DEF Init, Heard, Tracked
  <2> QED BY <2>1, FS_EmptySet, RateLimitAssumption DEF TableInv
<1>2. Inv /\ TableInv /\ [Next]_vars => TableInv'
  <2> SUFFICES ASSUME Inv, TableInv, [Next]_vars PROVE TableInv'
    OBVIOUS
  <2>1. now \in Nat
    BY DEF Inv, TypeOK, Time
  <2>2. CASE Tick
    BY <2>1, <2>2, TableUntouched DEF Tick
  <2>3. ASSUME NEW k \in Source, Handshake(k) PROVE TableInv'
    <3>1. CASE RefuseGlobal(k)
      BY <2>1, <3>1, TableUntouched DEF RefuseGlobal
    <3>2. ASSUME NEW t \in RoomFor(k), RefusePerIP(k, t) \/ Grant(k, t) PROVE TableInv'
      BY <3>2, TableAsked DEF RefusePerIP, Grant
    <3> QED BY <2>3, <3>1, <3>2 DEF Handshake
  <2>4. CASE UNCHANGED vars
    BY <2>1, <2>4, TableUntouched DEF vars
  <2> QED BY <2>2, <2>3, <2>4 DEF Next
<1>3. Inv /\ TableInv => RecentStay
  <2> SUFFICES ASSUME Inv, TableInv, NEW k \in Source, lastEvent[k] # None,
                      Cardinality(HeardSince(k)) < MaxKeys
               PROVE  k \in Tracked
    BY DEF RecentStay, TableInv
  <2>1. Cardinality(HeardSince(k)) \in Nat
    BY HeardIsFinite
  <2>2. k \notin Heard \ Tracked
    BY <2>1, RateLimitAssumption DEF TableInv
  <2> QED BY <2>2 DEF Heard
<1> QED BY <1>1, <1>2, <1>3, InitInv, NextInv, PTL DEF Spec

=============================================================================
