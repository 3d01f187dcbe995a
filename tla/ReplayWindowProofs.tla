------------------------- MODULE ReplayWindowProofs -------------------------
(***************************************************************************)
(* Proofs about the replay window, for every window size, word size and    *)
(* counter range: the bitmap is exact and the window implements the        *)
(* abstract filter.                                                        *)
(***************************************************************************)
EXTENDS ReplayWindow, TLAPS

-----------------------------------------------------------------------------
(* Arithmetic of the ring of bits.                                         *)

(* Division with remainder, for naturals. *)
LEMMA DivMod ==
  ASSUME NEW n \in Nat, NEW d \in Nat \ {0}
  PROVE  /\ n = d * (n \div d) + (n % d)
         /\ n % d \in 0 .. d - 1
         /\ n \div d \in Nat
OBVIOUS

(* No multiple of d lies strictly between 0 and d. *)
LEMMA NoMultipleBetween ==
  ASSUME NEW d \in Nat \ {0}, NEW k \in Int, 0 < d * k, d * k < d
  PROVE  FALSE
<1>1. CASE k <= 0
  BY <1>1
<1>2. CASE k >= 1
  BY <1>2
<1> QED BY <1>1, <1>2

(* Two numbers less than a window apart have different residues. *)
LEMMA ResiduesDiffer ==
  ASSUME NEW m \in Nat, NEW n \in Nat, m < n, n - m < Window
  PROVE  m % Window # n % Window
<1> SUFFICES ASSUME m % Window = n % Window PROVE FALSE
  OBVIOUS
<1> DEFINE qm == m \div Window
           qn == n \div Window
           r == n % Window
<1>1. m = Window * qm + r /\ qm \in Nat
  BY DivMod, WindowAssumption
<1>2. n = Window * qn + r /\ qn \in Nat
  BY DivMod, WindowAssumption
<1>3. r \in Nat
  <2>1. r \in 0 .. Window - 1
    BY DivMod, WindowAssumption
  <2> QED BY <2>1, WindowAssumption
<1> HIDE DEF qm, qn, r
<1>4. n - m = Window * (qn - qm)
  BY <1>1, <1>2, <1>3, WindowAssumption
<1>5. qn - qm \in Int
  BY <1>1, <1>2
<1> QED
  BY <1>4, <1>5, NoMultipleBetween, WindowAssumption

(* The slot of a number lies in the bitmap. *)
LEMMA SlotInBitmap ==
  ASSUME NEW n \in Nat
  PROVE  Word(n) \in Words /\ Bit(n) \in Bits
<1> DEFINE p == n % Window
           q == Window \div WordBits
           w == p \div WordBits
<1>1. p \in 0 .. Window - 1
  BY DivMod, WindowAssumption
<1>2. Window = WordBits * q /\ q \in Nat
  BY DivMod, WindowAssumption, WordAssumption
<1>3. /\ p = WordBits * w + (p % WordBits)
      /\ p % WordBits \in 0 .. WordBits - 1
      /\ w \in Nat
  <2> HIDE DEF p
  <2>1. p \in Nat
    BY <1>1, WindowAssumption
  <2> QED BY <2>1, DivMod, WordAssumption
<1>4. w < q
  <2> SUFFICES ASSUME w >= q PROVE FALSE
    BY <1>2, <1>3
  <2> HIDE DEF p, q, w
  <2>1. PICK k \in Nat : w = q + k
    <3>1. w - q \in Nat /\ w = q + (w - q)
      BY <1>2, <1>3
    <3> QED BY <3>1
  <2>2. WordBits * w = WordBits * q + WordBits * k
    BY <2>1, <1>2, WordAssumption
  <2>3. WordBits * k >= 0
    BY WordAssumption
  <2> QED BY <2>2, <2>3, <1>1, <1>2, <1>3, WordAssumption, WindowAssumption
<1> QED BY <1>2, <1>3, <1>4 DEF Word, Bit, Words, Bits

(* Two numbers less than a window apart never share a slot. *)
LEMMA SlotsDiffer ==
  ASSUME NEW m \in Nat, NEW n \in Nat, m # n, m - n < Window, n - m < Window
  PROVE  Word(m) # Word(n) \/ Bit(m) # Bit(n)
<1>1. m % Window # n % Window
  <2>1. CASE m < n
    BY <2>1, ResiduesDiffer
  <2>2. CASE n < m
    BY <2>2, ResiduesDiffer
  <2> QED BY <2>1, <2>2
<1>2. m % Window \in Nat /\ n % Window \in Nat
  BY DivMod, WindowAssumption
<1>3. /\ m % Window = WordBits * Word(m) + Bit(m)
      /\ n % Window = WordBits * Word(n) + Bit(n)
  BY <1>2, DivMod, WordAssumption DEF Word, Bit
<1> QED BY <1>1, <1>3

-----------------------------------------------------------------------------
(* What the bitmap operations do to a bit within a window of it.           *)

(* Setting the bit of n sets it, and leaves alone the bit of every other
   number less than a window away. *)
LEMMA SetBit ==
  ASSUME NEW map \in [Words -> SUBSET Bits], NEW n \in Nat
  PROVE  /\ WithBit(map, n) \in [Words -> SUBSET Bits]
         /\ Bit(n) \in WithBit(map, n)[Word(n)]
         /\ \A m \in Nat :
              m # n /\ m - n < Window /\ n - m < Window
                => (Bit(m) \in WithBit(map, n)[Word(m)] <=> Bit(m) \in map[Word(m)])
<1>1. Word(n) \in Words /\ Bit(n) \in Bits
  BY SlotInBitmap
<1>2. ASSUME NEW m \in Nat, m # n, m - n < Window, n - m < Window
      PROVE  Bit(m) \in WithBit(map, n)[Word(m)] <=> Bit(m) \in map[Word(m)]
  <2>1. Word(m) \in Words /\ (Word(m) # Word(n) \/ Bit(m) # Bit(n))
    BY <1>2, SlotInBitmap, SlotsDiffer
  <2> QED BY <2>1 DEF WithBit
<1> QED BY <1>1, <1>2 DEF WithBit

(* After the window has slid to just below n, a number below n has its bit set
   iff it had before and is not above last. *)
LEMMA SlideBits ==
  ASSUME bitmap \in [Words -> SUBSET Bits], last \in Nat, NEW n \in Nat, last < n
  PROVE  /\ Slid(n) \in [Words -> SUBSET Bits]
         /\ \A m \in Nat :
              m < n /\ n - m < Window
                => (Bit(m) \in Slid(n)[Word(m)] <=> m <= last /\ IsSet(m))
<1>1. CASE n - last >= Window
  <2>1. Slid(n) = [w \in Words |-> {}]
    BY <1>1 DEF Slid
  <2>2. ASSUME NEW m \in Nat, m < n, n - m < Window
        PROVE  ~(m <= last) /\ Word(m) \in Words
    BY <1>1, <2>2, SlotInBitmap, WindowAssumption
  <2> QED BY <2>1, <2>2
<1>2. CASE ~(n - last >= Window)
  <2>1. Slid(n) = [w \in Words |-> {b \in bitmap[w] :
                     \A s \in (last + 1) .. (n - 1) : Word(s) = w => Bit(s) # b}]
    BY <1>2 DEF Slid, WithoutBits
  <2>2. ASSUME NEW m \in Nat, m < n, n - m < Window
        PROVE  Bit(m) \in Slid(n)[Word(m)] <=> m <= last /\ IsSet(m)
    <3>1. Word(m) \in Words
      BY SlotInBitmap
    <3>2. CASE m <= last
      <4>1. ASSUME NEW s \in (last + 1) .. (n - 1)
            PROVE  Word(s) # Word(m) \/ Bit(s) # Bit(m)
        <5>1. s \in Nat /\ m # s /\ m - s < Window /\ s - m < Window
          BY <2>2, <3>2, WindowAssumption
        <5> QED BY <5>1, SlotsDiffer
      <4> QED BY <2>1, <3>1, <3>2, <4>1 DEF IsSet
    <3>3. CASE ~(m <= last)
      <4>1. m \in (last + 1) .. (n - 1)
        BY <2>2, <3>3
      <4> QED BY <2>1, <3>1, <3>3, <4>1
    <3> QED BY <3>2, <3>3
  <2> QED BY <2>1, <2>2
<1> QED BY <1>1, <1>2

-----------------------------------------------------------------------------
(***************************************************************************)
(* The inductive invariant.  The three invariants do not say that the      *)
(* bitmap is blank before the first packet, and First relies on it: a      *)
(* stale bit would make a fresh number look like a duplicate.              *)
(***************************************************************************)
BlankAtFirst == ~started => bitmap = [w \in Words |-> {}]

Inv == TypeOK /\ HighWater /\ BitmapExact /\ BlankAtFirst

LEMMA CounterNat == Counter \subseteq Nat
BY CounterAssumption DEF Counter

(* The window starts blank, with nothing accepted. *)
LEMMA InitInv == Init => Inv
<1> SUFFICES ASSUME Init PROVE Inv
  OBVIOUS
<1>1. 0 \in Counter
  BY CounterAssumption DEF Counter
<1>2. TypeOK
  BY <1>1 DEF Init, TypeOK
<1>3. HighWater /\ BitmapExact /\ BlankAtFirst
  BY DEF Init, HighWater, BitmapExact, BlankAtFirst
<1> QED BY <1>2, <1>3 DEF Inv

(* Every call of accept preserves the inductive invariant. *)
LEMMA NextInv == Inv /\ [Next]_vars => Inv'
<1> SUFFICES ASSUME Inv, [Next]_vars PROVE Inv'
  OBVIOUS
<1> USE DEF Inv
<1>u. CASE UNCHANGED vars
  BY <1>u DEF vars, TypeOK, HighWater, BitmapExact, BlankAtFirst, InWindow, IsSet
<1>n. ASSUME NEW n \in Counter, Accept(n) PROVE Inv'
  <2>t. n \in Nat /\ accepted \subseteq Nat /\ last \in Nat
    BY CounterNat DEF TypeOK
  <2>1. CASE First(n)
    <3>1. bitmap = [w \in Words |-> {}] /\ accepted = {}
      BY <2>1 DEF First, BlankAtFirst, HighWater
    <3>2. started' /\ last' = n /\ accepted' = {n} /\ bitmap' = WithBit(bitmap, n)
      BY <2>1, <3>1 DEF First, Returns
    <3>3. TypeOK'
      BY <2>1, <2>t, <3>2, SetBit DEF First, Returns, TypeOK
    <3>4. HighWater'
      BY <3>2, <2>t DEF HighWater
    <3>5. BitmapExact'
      <4>1. ASSUME NEW m \in Counter, m <= n, n - m < Window
            PROVE  Bit(m) \in WithBit(bitmap, n)[Word(m)] <=> m = n
        <5>1. m \in Nat /\ m - n < Window /\ Word(m) \in Words
          BY <2>t, <4>1, CounterNat, SlotInBitmap, WindowAssumption
        <5>2. bitmap \in [Words -> SUBSET Bits] /\ Bit(m) \notin bitmap[Word(m)]
          BY <3>1, <5>1
        <5> QED BY <2>t, <4>1, <5>1, <5>2, SetBit
      <4> QED BY <3>2, <4>1 DEF BitmapExact, InWindow, IsSet
    <3> QED BY <3>2, <3>3, <3>4, <3>5 DEF BlankAtFirst
  <2>2. CASE Advance(n)
    <3>1. /\ started /\ started' /\ last < n /\ last' = n
          /\ accepted' = accepted \cup {n}
          /\ bitmap' = WithBit(Slid(n), n)
      BY <2>2, <2>t DEF Advance, Returns
    <3>2. last \in accepted /\ \A m \in accepted : m <= last
      BY <3>1 DEF HighWater
    <3>3. /\ Slid(n) \in [Words -> SUBSET Bits]
          /\ \A m \in Nat :
               m < n /\ n - m < Window
                 => (Bit(m) \in Slid(n)[Word(m)] <=> m <= last /\ IsSet(m))
      BY <2>t, <3>1, SlideBits DEF TypeOK
    <3>4. TypeOK'
      BY <2>2, <2>t, <3>1, <3>3, SetBit DEF Advance, Returns, TypeOK
    <3>5. HighWater'
      BY <3>1, <3>2, <2>t DEF HighWater
    <3>6. BitmapExact'
      <4>1. ASSUME NEW m \in Counter, m <= n, n - m < Window
            PROVE  Bit(m) \in WithBit(Slid(n), n)[Word(m)] <=> m \in accepted \cup {n}
        <5>1. m \in Nat /\ m - n < Window
          BY <2>t, <4>1, CounterNat, WindowAssumption
        <5>2. CASE m = n
          BY <2>t, <3>3, <5>2, SetBit
        <5>3. CASE m # n
          <6>1. Bit(m) \in WithBit(Slid(n), n)[Word(m)] <=> m <= last /\ IsSet(m)
            BY <2>t, <3>3, <4>1, <5>1, <5>3, SetBit
          <6>2. m <= last => InWindow(m)
            BY <2>t, <3>1, <4>1, <5>1, WindowAssumption DEF InWindow
          <6>3. m <= last => (IsSet(m) <=> m \in accepted)
            BY <3>1, <6>2 DEF BitmapExact
          <6> QED BY <3>2, <5>3, <6>1, <6>3
        <5> QED BY <5>2, <5>3
      <4> QED BY <3>1, <4>1 DEF BitmapExact, InWindow, IsSet
    <3> QED BY <3>1, <3>4, <3>5, <3>6 DEF BlankAtFirst
  <2>3. CASE TooOld(n)
    BY <2>3 DEF TooOld, Returns, TypeOK, HighWater, BitmapExact, BlankAtFirst,
                InWindow, IsSet
  <2>4. CASE Duplicate(n)
    BY <2>4 DEF Duplicate, Returns, TypeOK, HighWater, BitmapExact, BlankAtFirst,
                InWindow, IsSet
  <2>5. CASE Late(n)
    <3>1. /\ started /\ started' /\ n <= last /\ last - n < Window /\ last' = last
          /\ accepted' = accepted \cup {n}
          /\ bitmap' = WithBit(bitmap, n)
      BY <2>5 DEF Late, InWindow, Returns
    <3>2. TypeOK'
      BY <2>5, <2>t, <3>1, SetBit DEF Late, Returns, TypeOK
    <3>3. HighWater'
      BY <3>1 DEF HighWater
    <3>4. BitmapExact'
      <4>1. ASSUME NEW m \in Counter, m <= last, last - m < Window
            PROVE  Bit(m) \in WithBit(bitmap, n)[Word(m)] <=> m \in accepted \cup {n}
        <5>1. m \in Nat /\ m - n < Window /\ n - m < Window
          BY <2>t, <3>1, <4>1, CounterNat, WindowAssumption
        <5>2. IsSet(m) <=> m \in accepted
          BY <3>1, <4>1 DEF BitmapExact, InWindow
        <5>3. CASE m = n
          BY <2>t, <5>3, SetBit DEF TypeOK
        <5>4. CASE m # n
          BY <2>t, <5>1, <5>2, <5>4, SetBit DEF TypeOK, IsSet
        <5> QED BY <5>3, <5>4
      <4> QED BY <3>1, <4>1 DEF BitmapExact, InWindow, IsSet
    <3> QED BY <3>1, <3>2, <3>3, <3>4 DEF BlankAtFirst
  <2> QED BY <1>n, <2>1, <2>2, <2>3, <2>4, <2>5 DEF Accept
<1> QED BY <1>u, <1>n DEF Next

(***************************************************************************)
(* Every reachable state has its type, its mark is the highest number      *)
(* accepted, and its bitmap is exact over the window.                      *)
(***************************************************************************)
THEOREM WindowInvariant == Spec => [](TypeOK /\ HighWater /\ BitmapExact)
<1>1. Inv => TypeOK /\ HighWater /\ BitmapExact
  BY DEF Inv
<1> QED BY <1>1, InitInv, NextInv, PTL DEF Spec

(***************************************************************************)
(* For every window, word size and counter range the state of replayWindow *)
(* keeps its type: each word of the bitmap holds bits of a word, and what  *)
(* is accepted and answered are counters.                                  *)
(***************************************************************************)
COROLLARY WindowTypes == Spec => []TypeOK
  BY WindowInvariant, PTL

(***************************************************************************)
(* For every window size: w.last is the highest number accepted, and the   *)
(* window is started exactly when something was (replayWindow.accept).     *)
(***************************************************************************)
COROLLARY MarkIsHighest == Spec => []HighWater
  BY WindowInvariant, PTL

-----------------------------------------------------------------------------
(* Refinement: each answer of accept is the answer of the rule.            *)

LEMMA StepRefines == Inv /\ [Next]_vars => [Filter!Next]_<<accepted, answer>>
<1> SUFFICES ASSUME Inv, [Next]_vars PROVE [Filter!Next]_<<accepted, answer>>
  OBVIOUS
<1>u. CASE UNCHANGED vars
  BY <1>u DEF vars
<1>n. ASSUME NEW n \in Counter, Accept(n) PROVE Filter!Next
  <2>t. n \in Nat /\ accepted \subseteq Nat /\ last \in Nat
    BY CounterNat DEF Inv, TypeOK
  <2>h. started => last \in accepted /\ \A m \in accepted : m <= last
    BY DEF Inv, HighWater
  <2>f. Filter!Fresh(accepted, n)
          <=> n \notin accepted /\ \A m \in accepted : m - n < Window
    BY DEF Filter!Fresh
  <2>c. Filter!Counter = Counter
    BY DEF Filter!Counter, Counter
  <2> SUFFICES Filter!Admit(n) \/ Filter!Refuse(n)
    BY <2>c DEF Filter!Next
  <2>1. CASE First(n)
    <3>1. accepted = {}
      BY <2>1 DEF First, Inv, HighWater
    <3> QED BY <2>1, <2>f, <3>1 DEF First, Returns, Filter!Admit
  <2>2. CASE Advance(n)
    <3>1. started /\ last < n
      BY <2>2, <2>t DEF Advance
    <3>2. n \notin accepted /\ \A m \in accepted : m - n < Window
      BY <2>t, <2>h, <3>1, WindowAssumption
    <3> QED BY <2>2, <2>f, <3>2 DEF Advance, Returns, Filter!Admit
  <2>3. CASE TooOld(n)
    <3>1. last \in accepted /\ ~(last - n < Window)
      BY <2>3, <2>t, <2>h, WindowAssumption DEF TooOld
    <3> QED BY <2>3, <2>f, <3>1 DEF TooOld, Returns, Filter!Refuse
  <2>4. CASE Duplicate(n)
    <3>1. n \in accepted
      BY <2>4 DEF Duplicate, Inv, BitmapExact, InWindow
    <3> QED BY <2>4, <2>f, <3>1 DEF Duplicate, Returns, Filter!Refuse
  <2>5. CASE Late(n)
    <3>1. started /\ n <= last /\ last - n < Window
      BY <2>5 DEF Late, InWindow
    <3>2. n \notin accepted
      BY <2>5 DEF Late, Inv, BitmapExact, InWindow
    <3>3. \A m \in accepted : m - n < Window
      BY <2>t, <2>h, <3>1, WindowAssumption
    <3> QED BY <2>5, <2>f, <3>2, <3>3 DEF Late, Returns, Filter!Admit
  <2> QED BY <1>n, <2>1, <2>2, <2>3, <2>4, <2>5 DEF Accept
<1> QED BY <1>u, <1>n DEF Next

(***************************************************************************)
(* The bitmap window implements the abstract filter: whatever the sizes,   *)
(* accept(n) returns true exactly for the fresh numbers.                   *)
(***************************************************************************)
THEOREM WindowRefinesFilter == Spec => FilterSpec
<1>1. Init => Filter!Init
  BY DEF Init, Filter!Init
<1> QED BY <1>1, InitInv, NextInv, StepRefines, PTL DEF Spec, FilterSpec, Filter!Spec

=============================================================================
