------------------------ MODULE OrderPlacement_proof ------------------------
(***************************************************************************)
(* Proofs about OrderPlacement, for any number of calls, lines, keys and    *)
(* any stock.  The safety properties are not inductive: IInv adds what is   *)
(* true of a call at each place of executePlacement.  The sum of the         *)
(* reservations is reasoned about by taking the smallest set of holds it     *)
(* could be wrong for.                                                       *)
(***************************************************************************)
EXTENDS OrderPlacement, FiniteSetTheorems, WellFoundedInduction, TLAPS

OnShelf == {"active", "lapsed", "expired"}

\* The control state: when a call has an order, an answer, a winner.
ProgressInv ==
    \A r \in Request :
        /\ pc[r] # "done" => reply[r] = NoReply
        /\ pc[r] \in {"start", "reserving", "promo", "creating", "committing", "charging"}
              => fate[r] = "none"
        /\ pc[r] \in {"start", "reserving", "promo", "creating", "finding"}
              => r \notin orders
        /\ pc[r] \in {"committing", "charging"} => r \in orders /\ got[r] = r
        /\ pc[r] = "committing" /\ promo[r] # "none" => r \in discounted
        /\ pc[r] \in {"releasing", "undoing"} => fate[r] # "none"
        /\ pc[r] \in {"releasing", "undoing"} /\ fate[r] = "replay"
              => got[r] \in Winners(r)
        /\ pc[r] = "finding" => fate[r] = "dup"
        /\ fate[r] \in {"replay", "dup"} => r \notin orders

\* The stock of a call: which of its lines are reserved at which place.
HoldsMatchPlace(r) ==
    /\ pc[r] = "start" =>
          nextLine[r] = 1 /\ \A h \in HoldsOf(r) : holdState[h] = "none"
    /\ pc[r] = "reserving" =>
          /\ nextLine[r] \in 1 .. LineCount[r]
          /\ \A i \in 1 .. LineCount[r] :
                holdState[<<r, i>>] \in IF i < nextLine[r] THEN OnShelf ELSE {"none"}
    /\ pc[r] \in {"promo", "creating"} =>
          \A h \in HoldsOf(r) : holdState[h] \in OnShelf
    /\ pc[r] \in {"undoing", "finding"} =>
          \A h \in HoldsOf(r) : Counts(h) => h \in leftToTTL

HoldInv == \A r \in Request : HoldsMatchPlace(r)

\* The orders: one per key, and every 201 names one of them.
OneOrderPerKey == \A q, r \in orders : SameKey(q, r) => q = r

RepliesNameOrders ==
    \A r \in Request :
        /\ reply[r].kind \in Accepted => reply[r].order \in orders
        /\ reply[r].kind = "fresh"  => reply[r].order = r
        /\ reply[r].kind = "replay" => SameKey(reply[r].order, r)

EffectsInv == Consumed \subseteq orders /\ Redeemed \subseteq discounted

IInv ==
    /\ TypeOK
    /\ ProgressInv
    /\ HoldInv
    /\ OneOrderPerKey
    /\ RepliesNameOrders
    /\ EffectsInv
    /\ NoOrphanHold
    /\ OrderKeepsItsHolds

-----------------------------------------------------------------------------
\* The library's induction theorems take an operator; this one takes a set.
LEMMA LeastOf ==
  ASSUME NEW T \in SUBSET Nat, T # {}
  PROVE  \E n \in T : \A m \in T : n <= m
<1>1. PICK n \in T : \A m \in T : ~(<<m, n>> \in OpToRel(<, Nat))
  BY WFMin, NatLessThanWellFounded
<1>2. \A m \in T : ~(m < n)
  BY <1>1 DEF OpToRel
<1> QED  BY <1>2

\* A set of natural numbers that contains 0 and every successor is all of them.
LEMMA AllNaturals ==
  ASSUME NEW G \in SUBSET Nat, 0 \in G, \A n \in G : n + 1 \in G
  PROVE  G = Nat
<1> SUFFICES ASSUME Nat \ G # {} PROVE FALSE
  OBVIOUS
<1>1. PICK n \in Nat \ G : \A m \in Nat \ G : n <= m
  BY LeastOf
<1>2. n # 0 /\ n - 1 \in Nat
  BY <1>1
<1>3. n - 1 \in G
  BY <1>1, <1>2
<1> QED  BY <1>1, <1>3

\* The sum of MapThenSumSet, as an operator on sets of holds.
AnyOf(s) == CHOOSE h \in s : TRUE
Adds(f, s) == IF s = {} THEN 0 ELSE HoldQty[AnyOf(s)] + f[s \ {AnyOf(s)}]
SumsUp(f, T) == f = [s \in SUBSET T |-> Adds(f, s)]
Total(T) == (CHOOSE f : SumsUp(f, T))[T]

\* There is such a function: it can be built one size of subset at a time.
LEMMA SumsExist ==
  ASSUME NEW T \in SUBSET Hold, IsFiniteSet(T)
  PROVE  \E f : SumsUp(f, T)
<1> DEFINE G == {n \in Nat : \E f \in [SUBSET T -> Nat] :
                    \A s \in SUBSET T : Cardinality(s) <= n => f[s] = Adds(f, s)}
<1>0. \A s \in SUBSET T : IsFiniteSet(s) /\ Cardinality(s) \in Nat /\ Cardinality(s) <= Cardinality(T)
                           /\ (Cardinality(s) = 0 <=> s = {})
  BY FS_Subset, FS_CardinalityType, FS_EmptySet
<1>1. 0 \in G
  <2>1. [s \in SUBSET T |-> 0] \in [SUBSET T -> Nat]
    OBVIOUS
  <2>2. \A s \in SUBSET T : Cardinality(s) <= 0 => s = {}
    BY <1>0
  <2> QED  BY <2>1, <2>2 DEF Adds
<1>2. ASSUME NEW n \in G PROVE n + 1 \in G
  <2>1. PICK f \in [SUBSET T -> Nat] : \A s \in SUBSET T : Cardinality(s) <= n => f[s] = Adds(f, s)
    OBVIOUS
  <2> DEFINE g == [s \in SUBSET T |-> Adds(f, s)]
  <2>2. \A s \in SUBSET T : s # {} => AnyOf(s) \in s
    BY DEF AnyOf
  <2>3. \A s \in SUBSET T : Adds(f, s) \in Nat
    BY <2>1, <2>2, FlowConstants DEF Adds
  <2>4. ASSUME NEW s \in SUBSET T, Cardinality(s) <= n + 1 PROVE g[s] = Adds(g, s)
    <3>1. CASE s = {}
      BY <3>1 DEF Adds
    <3>2. CASE s # {}
      <4> DEFINE r == s \ {AnyOf(s)}
      <4>1. r \in SUBSET T /\ Cardinality(r) = Cardinality(s) - 1
        BY <3>2, <2>2, <1>0, FS_RemoveElement
      <4>2. Cardinality(r) <= n
        BY <4>1, <2>4, <1>0
      <4>3. g[r] = f[r]
        BY <4>1, <4>2, <2>1
      <4> QED  BY <4>1, <4>3, <3>2 DEF Adds
    <3> QED  BY <3>1, <3>2
  <2>5. g \in [SUBSET T -> Nat]
    BY <2>3
  <2> HIDE DEF g
  <2> QED  BY <2>4, <2>5
<1>3. G = Nat
  <2> HIDE DEF G
  <2>1. G \in SUBSET Nat
    BY DEF G
  <2> QED BY <1>1, <1>2, <2>1, AllNaturals
<1>4. Cardinality(T) \in G
  BY <1>3, FS_CardinalityType
<1>5. PICK f \in [SUBSET T -> Nat] : \A s \in SUBSET T : Cardinality(s) <= Cardinality(T) => f[s] = Adds(f, s)
  BY <1>4
<1>6. f = [s \in SUBSET T |-> Adds(f, s)]
  BY <1>5, <1>0
<1> QED  BY <1>6 DEF SumsUp

\* Among finite sets there is a smallest: the one to derive a contradiction from.
LEMMA Smallest ==
  ASSUME NEW B, B # {}, \A s \in B : IsFiniteSet(s)
  PROVE  \E s \in B : \A r \in B : Cardinality(s) <= Cardinality(r)
<1> DEFINE N == {Cardinality(s) : s \in B}
<1>1. \A s \in B : Cardinality(s) \in Nat
  BY FS_CardinalityType
<1>2. N \in SUBSET Nat /\ N # {}
  BY <1>1
<1>3. PICK n \in N : \A m \in N : n <= m
  <2> HIDE DEF N
  <2> QED  BY <1>2, LeastOf
<1> QED  BY <1>3

\* A set without one of its elements is smaller.
LEMMA Smaller ==
  ASSUME NEW s, IsFiniteSet(s), NEW h \in s
  PROVE  IsFiniteSet(s \ {h}) /\ ~(Cardinality(s) <= Cardinality(s \ {h}))
<1>1. IsFiniteSet(s \ {h}) /\ Cardinality(s \ {h}) = Cardinality(s) - 1
  BY FS_RemoveElement
<1>2. Cardinality(s) \in Nat
  BY FS_CardinalityType
<1> QED  BY <1>1, <1>2

\* Whatever order the sum is taken in, any element may go first.
LEMMA AnyFirst ==
  ASSUME NEW T \in SUBSET Hold, IsFiniteSet(T), NEW f, SumsUp(f, T)
  PROVE  /\ \A s \in SUBSET T : f[s] \in Nat
         /\ \A s \in SUBSET T : \A h \in s : f[s] = HoldQty[h] + f[s \ {h}]
<1>0. /\ \A s \in SUBSET T : IsFiniteSet(s) /\ (s # {} => AnyOf(s) \in s)
      /\ \A s \in SUBSET T : f[s] = Adds(f, s)
      /\ \A h \in T : HoldQty[h] \in Nat
  BY FS_Subset, FlowConstants DEF AnyOf, SumsUp
<1>1. \A s \in SUBSET T : f[s] \in Nat
  <2> DEFINE B == {s \in SUBSET T : f[s] \notin Nat}
  <2> SUFFICES ASSUME B # {} PROVE FALSE
    OBVIOUS
  <2>1. PICK s \in B : \A r \in B : Cardinality(s) <= Cardinality(r)
    BY <1>0, Smallest
  <2>2. s # {}
    <3>1. s \in SUBSET T /\ f[s] = Adds(f, s) /\ f[s] \notin Nat
      BY <1>0, <2>1
    <3> QED  BY <3>1 DEF Adds
  <2> DEFINE r == s \ {AnyOf(s)}
  <2>3. r \in SUBSET T /\ r \notin B
    BY <1>0, <2>1, <2>2, Smaller
  <2>4. f[s] = HoldQty[AnyOf(s)] + f[r]
    BY <1>0, <2>2 DEF Adds
  <2> QED  BY <1>0, <2>2, <2>3, <2>4
<1>2. \A s \in SUBSET T : \A h \in s : f[s] = HoldQty[h] + f[s \ {h}]
  <2> DEFINE B == {s \in SUBSET T : \E h \in s : f[s] # HoldQty[h] + f[s \ {h}]}
  <2> SUFFICES ASSUME B # {} PROVE FALSE
    OBVIOUS
  <2>1. PICK s \in B : \A r \in B : Cardinality(s) <= Cardinality(r)
    BY <1>0, Smallest
  <2>2. PICK h \in s : f[s] # HoldQty[h] + f[s \ {h}]
    OBVIOUS
  <2> DEFINE a == AnyOf(s)
  <2>3. a \in s /\ f[s] = HoldQty[a] + f[s \ {a}]
    BY <1>0 DEF Adds
  <2>4. a # h
    BY <2>2, <2>3
  <2>5. s \ {a} \notin B /\ s \ {h} \notin B
    BY <1>0, <2>1, <2>3, Smaller
  <2> HIDE DEF a
  <2>6. f[s \ {a}] = HoldQty[h] + f[(s \ {a}) \ {h}]
    BY <2>4, <2>5
  <2>7. f[s \ {h}] = HoldQty[a] + f[(s \ {h}) \ {a}]
    BY <2>3, <2>4, <2>5
  <2>8. (s \ {h}) \ {a} = (s \ {a}) \ {h}
    OBVIOUS
  <2>9. f[(s \ {a}) \ {h}] \in Nat /\ HoldQty[a] \in Nat /\ HoldQty[h] \in Nat
    BY <1>0, <1>1, <2>3
  <2>10. f[s \ {h}] = HoldQty[a] + f[(s \ {a}) \ {h}]
    BY <2>7, <2>8
  <2>11. \A x, y, z \in Nat : x + (y + z) = y + (x + z)
    OBVIOUS
  <2>12. f[s] = HoldQty[a] + (HoldQty[h] + f[(s \ {a}) \ {h}])
    BY <2>3, <2>6
  <2>13. f[s] = HoldQty[h] + f[s \ {h}]
    BY <2>9, <2>10, <2>11, <2>12
  <2> QED  BY <2>2, <2>13
<1> QED  BY <1>1, <1>2

\* The quantity of a set of holds, one hold at a time.
LEMMA TotalSteps ==
  ASSUME NEW T \in SUBSET Hold, IsFiniteSet(T)
  PROVE  /\ Total(T) \in Nat
         /\ T = {} => Total(T) = 0
         /\ \A h \in T : Total(T) = HoldQty[h] + Total(T \ {h})
<1> DEFINE F(S) == CHOOSE f : SumsUp(f, S)
<1>1. \A S \in SUBSET T : IsFiniteSet(S) /\ SumsUp(F(S), S)
  BY FS_Subset, SumsExist
<1> HIDE DEF F
<1>2. \A S \in SUBSET T : \A s \in SUBSET S :
         F(S)[s] \in Nat /\ (s = {} => F(S)[s] = 0) /\ \A h \in s : F(S)[s] = HoldQty[h] + F(S)[s \ {h}]
  <2> SUFFICES ASSUME NEW S \in SUBSET T, NEW s \in SUBSET S
      PROVE  F(S)[s] \in Nat /\ (s = {} => F(S)[s] = 0) /\ \A h \in s : F(S)[s] = HoldQty[h] + F(S)[s \ {h}]
    OBVIOUS
  <2>1. S \in SUBSET Hold /\ IsFiniteSet(S) /\ SumsUp(F(S), S)
    BY <1>1
  <2>2. F(S)[s] = Adds(F(S), s)
    BY <2>1 DEF SumsUp
  <2>3. s = {} => F(S)[s] = 0
    BY <2>2 DEF Adds
  <2> QED  BY <2>1, <2>3, AnyFirst
<1>3. \A S \in SUBSET T : \A s \in SUBSET S : F(S)[s] = F(T)[s]
  <2> SUFFICES ASSUME NEW S \in SUBSET T PROVE \A s \in SUBSET S : F(S)[s] = F(T)[s]
    OBVIOUS
  <2> DEFINE B == {s \in SUBSET S : F(S)[s] # F(T)[s]}
  <2> SUFFICES ASSUME B # {} PROVE FALSE
    OBVIOUS
  <2>1. PICK s \in B : \A r \in B : Cardinality(s) <= Cardinality(r)
    BY <1>1, Smallest
  <2>2. PICK h \in s : TRUE
    BY <1>2
  <2>3. s \ {h} \in SUBSET S /\ s \ {h} \notin B
    BY <1>1, <2>1, Smaller
  <2>4. F(S)[s] = HoldQty[h] + F(S)[s \ {h}] /\ F(T)[s] = HoldQty[h] + F(T)[s \ {h}]
    BY <1>2
  <2> QED  BY <2>3, <2>4
<1>4. \A S \in SUBSET T : Total(S) = F(T)[S]
  BY <1>3 DEF Total, F
<1> QED  BY <1>2, <1>4

\* Fewer holds reserve no more.
LEMMA TotalGrows ==
  ASSUME NEW T \in SUBSET Hold, IsFiniteSet(T), NEW S \in SUBSET T
  PROVE  Total(S) <= Total(T)
<1> DEFINE B == {U \in SUBSET T : S \subseteq U /\ ~(Total(S) <= Total(U))}
<1> SUFFICES ASSUME B # {} PROVE FALSE
  OBVIOUS
<1>0. \A U \in SUBSET T : IsFiniteSet(U) /\ Total(U) \in Nat /\ \A h \in U : Total(U) = HoldQty[h] + Total(U \ {h})
  BY FS_Subset, TotalSteps
<1>1. PICK U \in B : \A V \in B : Cardinality(U) <= Cardinality(V)
  BY <1>0, Smallest
<1>2. PICK h \in U \ S : TRUE
  BY <1>0
<1>3. U \ {h} \in SUBSET T /\ U \ {h} \notin B /\ S \subseteq U \ {h}
  BY <1>0, <1>1, <1>2, Smaller
<1>4. Total(S) <= Total(U \ {h}) /\ Total(U) = HoldQty[h] + Total(U \ {h}) /\ HoldQty[h] \in Nat
  BY <1>0, <1>2, <1>3, FlowConstants
<1> QED  BY <1>0, <1>3, <1>4
-----------------------------------------------------------------------------
USE PlacementConstants, FlowConstants
USE DEF Place, Fate, PromoStatus, HoldStatus, Refusals, Accepted, Answer, NoReply,
        GoTo, Respond, flow, local, store

\* What the constants say: a hold is a line of a call.
LEMMA HoldShape ==
    /\ \A h \in Hold : /\ h[1] \in Request
                      /\ h[2] \in 1 .. LineCount[h[1]]
                      /\ h = <<h[1], h[2]>>
    /\ \A r \in Request : \A i \in 1 .. LineCount[r] :
          <<r, i>> \in Hold /\ <<r, i>>[1] = r
  OBVIOUS

\* A 400 touches nothing but the answer.
LEMMA RejectKeeps ==
  ASSUME IInv, NEW c \in Request, Reject(c)
  PROVE  IInv'
<1> USE DEF IInv, TypeOK, FlowTypeOK, Reject
<1>1. TypeOK'
  BY DEF ProgressInv, Winners, HoldsOf
<1>2. ProgressInv'
  BY DEF ProgressInv, Winners, SameKey
<1>3. HoldInv'
  BY HoldShape DEF HoldInv, HoldsMatchPlace, HoldsOf, Counts, OnShelf
<1>4. OneOrderPerKey' /\ RepliesNameOrders' /\ EffectsInv'
  BY DEF ProgressInv, OneOrderPerKey, RepliesNameOrders, EffectsInv, Consumed,
         Redeemed, Winners, SameKey
<1>5. NoOrphanHold' /\ OrderKeepsItsHolds'
  BY HoldShape DEF ProgressInv, HoldInv, HoldsMatchPlace, NoOrphanHold,
         OrderKeepsItsHolds, InFlight, HoldsOf, Counts, OnShelf
<1> QED  BY <1>1, <1>2, <1>3, <1>4, <1>5

\* A replay by lookup names an order with the same key.
LEMMA LookupHitKeeps ==
  ASSUME IInv, NEW c \in Request, LookupHit(c)
  PROVE  IInv'
<1> USE DEF IInv, TypeOK, FlowTypeOK, LookupHit
<1>1. TypeOK'
  BY DEF ProgressInv, Winners, HoldsOf
<1>2. ProgressInv'
  BY DEF ProgressInv, Winners, SameKey
<1>3. HoldInv'
  BY HoldShape DEF HoldInv, HoldsMatchPlace, HoldsOf, Counts, OnShelf
<1>4. OneOrderPerKey' /\ RepliesNameOrders' /\ EffectsInv'
  BY DEF ProgressInv, OneOrderPerKey, RepliesNameOrders, EffectsInv, Consumed,
         Redeemed, Winners, SameKey
<1>5. NoOrphanHold' /\ OrderKeepsItsHolds'
  BY HoldShape DEF ProgressInv, HoldInv, HoldsMatchPlace, NoOrphanHold,
         OrderKeepsItsHolds, InFlight, HoldsOf, Counts, OnShelf
<1> QED  BY <1>1, <1>2, <1>3, <1>4, <1>5

\* A call that found no order holds nothing yet.
LEMMA LookupMissKeeps ==
  ASSUME IInv, NEW c \in Request, LookupMiss(c)
  PROVE  IInv'
<1> USE DEF IInv, TypeOK, FlowTypeOK, LookupMiss
<1>1. TypeOK'
  BY DEF ProgressInv, Winners, HoldsOf
<1>2. ProgressInv'
  BY DEF ProgressInv, Winners, SameKey
<1>3. HoldInv'
  BY HoldShape DEF HoldInv, HoldsMatchPlace, HoldsOf, Counts, OnShelf
<1>4. OneOrderPerKey' /\ RepliesNameOrders' /\ EffectsInv'
  BY DEF ProgressInv, OneOrderPerKey, RepliesNameOrders, EffectsInv, Consumed,
         Redeemed, Winners, SameKey
<1>5. NoOrphanHold' /\ OrderKeepsItsHolds'
  BY HoldShape DEF ProgressInv, HoldInv, HoldsMatchPlace, NoOrphanHold,
         OrderKeepsItsHolds, InFlight, HoldsOf, Counts, OnShelf
<1> QED  BY <1>1, <1>2, <1>3, <1>4, <1>5

\* One more line is reserved; the lines of the others are theirs.
LEMMA ReserveLineKeeps == ASSUME IInv, NEW c \in Request, ReserveLine(c) PROVE IInv'
<1> USE DEF IInv, ReserveLine, Reserve, CanReserve
<1> DEFINE n == nextLine[c]
           line == <<c, n>>
<1>1. /\ n \in 1 .. LineCount[c]
      /\ line \in Hold /\ line[1] = c /\ line[2] = n
  BY HoldShape DEF TypeOK, HoldInv, HoldsMatchPlace
<1>2. \A h \in Hold : holdState'[h] = IF h = line THEN "active" ELSE holdState[h]
  BY <1>1 DEF TypeOK, FlowTypeOK
<1>3. TypeOK'
  BY <1>1 DEF TypeOK, FlowTypeOK
<1>4. ProgressInv'
  BY DEF TypeOK, FlowTypeOK, ProgressInv, Winners, SameKey
<1>5. HoldInv'
  <2> SUFFICES ASSUME NEW r \in Request PROVE HoldsMatchPlace(r)'
    BY DEF HoldInv
  <2>1. CASE r # c
    <3>1. \A h \in Hold : h[1] = r => holdState'[h] = holdState[h]
      BY <1>1, <1>2, <2>1
    <3> QED  BY <2>1, <3>1, HoldShape DEF TypeOK, HoldInv,
               HoldsMatchPlace, HoldsOf, Counts, OnShelf
  <2>2. CASE r = c
    <3>1. /\ pc[c] = "reserving"
          /\ \A i \in 1 .. LineCount[c] :
                holdState'[<<c, i>>] \in IF i < n + 1 THEN OnShelf ELSE {"none"}
      <4> SUFFICES ASSUME NEW i \in 1 .. LineCount[c]
                   PROVE  holdState'[<<c, i>>] \in IF i < n + 1 THEN OnShelf ELSE {"none"}
        OBVIOUS
      <4>1. <<c, i>> \in Hold /\ (<<c, i>> = line <=> i = n)
        BY HoldShape
      <4>2. holdState[<<c, i>>] \in IF i < n THEN OnShelf ELSE {"none"}
        BY DEF HoldInv, HoldsMatchPlace
      <4> QED  BY <1>1, <1>2, <4>1, <4>2 DEF OnShelf
    <3>2. CASE n < LineCount[c]
      BY <1>1, <2>2, <3>1, <3>2 DEF TypeOK, HoldInv, HoldsMatchPlace, OnShelf
    <3>3. CASE n = LineCount[c]
      <4>1. \A h \in HoldsOf(c) : holdState'[h] \in OnShelf
        BY <3>1, <3>3, HoldShape DEF HoldsOf
      <4> QED  BY <2>2, <3>1, <3>3, <4>1 DEF TypeOK, HoldsMatchPlace
    <3>4. n < LineCount[c] \/ n = LineCount[c]
      <4>1. n \in Nat /\ LineCount[c] \in Nat
        BY <1>1 DEF TypeOK
      <4>2. n <= LineCount[c]
        BY <1>1
      <4> HIDE DEF n
      <4> QED  BY ONLY <4>1, <4>2
    <3> QED  BY <3>2, <3>3, <3>4
  <2> QED  BY <2>1, <2>2
<1>6. OneOrderPerKey' /\ RepliesNameOrders' /\ EffectsInv'
  BY DEF TypeOK, OneOrderPerKey, RepliesNameOrders, EffectsInv, Consumed, Redeemed,
         SameKey
<1>7. NoOrphanHold' /\ OrderKeepsItsHolds'
  BY <1>1, <1>2, HoldShape
     DEF TypeOK, ProgressInv, NoOrphanHold, OrderKeepsItsHolds, InFlight, HoldsOf, Counts
<1> QED  BY <1>3, <1>4, <1>5, <1>6, <1>7

\* A 409 leaves its holds to the TTL, and they are recorded as such.
LEMMA ReserveShortKeeps ==
  ASSUME IInv, NEW c \in Request, ReserveShort(c)
  PROVE  IInv'
<1> USE DEF IInv, TypeOK, FlowTypeOK, ReserveShort, GiveUp, Counting
<1>1. TypeOK'
  BY DEF ProgressInv, Winners, HoldsOf
<1>2. ProgressInv'
  BY DEF ProgressInv, Winners, SameKey
<1>3. HoldInv'
  BY HoldShape DEF HoldInv, HoldsMatchPlace, HoldsOf, Counts, OnShelf
<1>4. OneOrderPerKey' /\ RepliesNameOrders' /\ EffectsInv'
  BY DEF ProgressInv, OneOrderPerKey, RepliesNameOrders, EffectsInv, Consumed,
         Redeemed, Winners, SameKey
<1>5. NoOrphanHold' /\ OrderKeepsItsHolds'
  BY HoldShape DEF ProgressInv, HoldInv, HoldsMatchPlace, NoOrphanHold,
         OrderKeepsItsHolds, InFlight, HoldsOf, Counts, OnShelf
<1> QED  BY <1>1, <1>2, <1>3, <1>4, <1>5

\* So does any other error of the reservation loop.
LEMMA ReserveThrowsKeeps ==
  ASSUME IInv, NEW c \in Request, ReserveThrows(c)
  PROVE  IInv'
<1> USE DEF IInv, TypeOK, FlowTypeOK, ReserveThrows, GiveUp, Counting
<1>1. TypeOK'
  BY DEF ProgressInv, Winners, HoldsOf
<1>2. ProgressInv'
  BY DEF ProgressInv, Winners, SameKey
<1>3. HoldInv'
  BY HoldShape DEF HoldInv, HoldsMatchPlace, HoldsOf, Counts, OnShelf
<1>4. OneOrderPerKey' /\ RepliesNameOrders' /\ EffectsInv'
  BY DEF ProgressInv, OneOrderPerKey, RepliesNameOrders, EffectsInv, Consumed,
         Redeemed, Winners, SameKey
<1>5. NoOrphanHold' /\ OrderKeepsItsHolds'
  BY HoldShape DEF ProgressInv, HoldInv, HoldsMatchPlace, NoOrphanHold,
         OrderKeepsItsHolds, InFlight, HoldsOf, Counts, OnShelf
<1> QED  BY <1>1, <1>2, <1>3, <1>4, <1>5

\* Evaluating the promo consumes nothing.
LEMMA ReservePromoKeeps ==
  ASSUME IInv, NEW c \in Request, ReservePromo(c)
  PROVE  IInv'
<1> USE DEF IInv, TypeOK, FlowTypeOK, ReservePromo
<1>1. TypeOK'
  BY DEF ProgressInv, Winners, HoldsOf
<1>2. ProgressInv'
  BY DEF ProgressInv, Winners, SameKey
<1>3. HoldInv'
  BY HoldShape DEF HoldInv, HoldsMatchPlace, HoldsOf, Counts, OnShelf
<1>4. OneOrderPerKey' /\ RepliesNameOrders' /\ EffectsInv'
  BY DEF ProgressInv, OneOrderPerKey, RepliesNameOrders, EffectsInv, Consumed,
         Redeemed, Winners, SameKey
<1>5. NoOrphanHold' /\ OrderKeepsItsHolds'
  BY HoldShape DEF ProgressInv, HoldInv, HoldsMatchPlace, NoOrphanHold,
         OrderKeepsItsHolds, InFlight, HoldsOf, Counts, OnShelf
<1> QED  BY <1>1, <1>2, <1>3, <1>4, <1>5

\* The new order owns reserved lines, and its key had no order before.
LEMMA CreateStoredKeeps ==
  ASSUME IInv, NEW c \in Request, CreateStored(c)
  PROVE  IInv'
<1> USE DEF IInv, TypeOK, FlowTypeOK, CreateStored, Insert
<1>1. TypeOK'
  BY DEF ProgressInv, Winners, HoldsOf
<1>2. ProgressInv'
  BY DEF ProgressInv, Winners, SameKey
<1>3. HoldInv'
  BY HoldShape DEF HoldInv, HoldsMatchPlace, HoldsOf, Counts, OnShelf
<1>4. OneOrderPerKey' /\ RepliesNameOrders' /\ EffectsInv'
  BY DEF ProgressInv, OneOrderPerKey, RepliesNameOrders, EffectsInv, Consumed,
         Redeemed, Winners, SameKey
<1>5. NoOrphanHold' /\ OrderKeepsItsHolds'
  BY HoldShape DEF ProgressInv, HoldInv, HoldsMatchPlace, NoOrphanHold,
         OrderKeepsItsHolds, InFlight, HoldsOf, Counts, OnShelf
<1> QED  BY <1>1, <1>2, <1>3, <1>4, <1>5

\* The loser of the race remembers the winner and keeps no order.
LEMMA CreateReturnsWinnerKeeps ==
  ASSUME IInv, NEW c \in Request, CreateReturnsWinner(c)
  PROVE  IInv'
<1> USE DEF IInv, TypeOK, FlowTypeOK, CreateReturnsWinner
<1>1. TypeOK'
  BY DEF ProgressInv, Winners, HoldsOf
<1>2. ProgressInv'
  BY DEF ProgressInv, Winners, SameKey
<1>3. HoldInv'
  BY HoldShape DEF HoldInv, HoldsMatchPlace, HoldsOf, Counts, OnShelf
<1>4. OneOrderPerKey' /\ RepliesNameOrders' /\ EffectsInv'
  BY DEF ProgressInv, OneOrderPerKey, RepliesNameOrders, EffectsInv, Consumed,
         Redeemed, Winners, SameKey
<1>5. NoOrphanHold' /\ OrderKeepsItsHolds'
  BY HoldShape DEF ProgressInv, HoldInv, HoldsMatchPlace, NoOrphanHold,
         OrderKeepsItsHolds, InFlight, HoldsOf, Counts, OnShelf
<1> QED  BY <1>1, <1>2, <1>3, <1>4, <1>5

\* A duplicate-key error leaves the call without an order.
LEMMA CreateDuplicateKeeps ==
  ASSUME IInv, NEW c \in Request, CreateDuplicate(c)
  PROVE  IInv'
<1> USE DEF IInv, TypeOK, FlowTypeOK, CreateDuplicate
<1>1. TypeOK'
  BY DEF ProgressInv, Winners, HoldsOf
<1>2. ProgressInv'
  BY DEF ProgressInv, Winners, SameKey
<1>3. HoldInv'
  BY HoldShape DEF HoldInv, HoldsMatchPlace, HoldsOf, Counts, OnShelf
<1>4. OneOrderPerKey' /\ RepliesNameOrders' /\ EffectsInv'
  BY DEF ProgressInv, OneOrderPerKey, RepliesNameOrders, EffectsInv, Consumed,
         Redeemed, Winners, SameKey
<1>5. NoOrphanHold' /\ OrderKeepsItsHolds'
  BY HoldShape DEF ProgressInv, HoldInv, HoldsMatchPlace, NoOrphanHold,
         OrderKeepsItsHolds, InFlight, HoldsOf, Counts, OnShelf
<1> QED  BY <1>1, <1>2, <1>3, <1>4, <1>5

\* An insert reported as failed is the only order that may lose its holds.
LEMMA CreateThrowsKeeps ==
  ASSUME IInv, NEW c \in Request, CreateThrows(c)
  PROVE  IInv'
<1> USE DEF IInv, TypeOK, FlowTypeOK, CreateThrows, Insert
<1>1. TypeOK'
  BY DEF ProgressInv, Winners, HoldsOf
<1>2. ProgressInv'
  BY DEF ProgressInv, Winners, SameKey
<1>3. HoldInv'
  BY HoldShape DEF HoldInv, HoldsMatchPlace, HoldsOf, Counts, OnShelf
<1>4. OneOrderPerKey' /\ RepliesNameOrders' /\ EffectsInv'
  BY DEF ProgressInv, OneOrderPerKey, RepliesNameOrders, EffectsInv, Consumed,
         Redeemed, Winners, SameKey
<1>5. NoOrphanHold' /\ OrderKeepsItsHolds'
  BY HoldShape DEF ProgressInv, HoldInv, HoldsMatchPlace, NoOrphanHold,
         OrderKeepsItsHolds, InFlight, HoldsOf, Counts, OnShelf
<1> QED  BY <1>1, <1>2, <1>3, <1>4, <1>5

\* After the release only holds left to the TTL still count for the call.
LEMMA ReleaseHoldsKeeps == ASSUME IInv, NEW c \in Request, ReleaseHolds(c) PROVE IInv'
<1> USE DEF IInv, ReleaseHolds, Release, Counting
<1>1. PICK failing \in SUBSET Counting(HoldsOf(c)) :
         /\ Release(HoldsOf(c) \ failing)
         /\ leftToTTL' = leftToTTL \cup failing
  OBVIOUS
<1>2. \A h \in Hold : h[1] # c => holdState'[h] = holdState[h]
  BY <1>1 DEF TypeOK, FlowTypeOK, HoldsOf
<1>3. \A h \in HoldsOf(c) : Counts(h)' => h \in leftToTTL'
  BY <1>1 DEF TypeOK, FlowTypeOK, HoldsOf, Counts
<1>4. TypeOK'
  BY <1>1 DEF TypeOK, FlowTypeOK, HoldsOf
<1>5. ProgressInv'
  BY DEF TypeOK, FlowTypeOK, ProgressInv, Winners, SameKey
<1>6. HoldInv'
  <2> SUFFICES ASSUME NEW r \in Request PROVE HoldsMatchPlace(r)'
    BY DEF HoldInv
  <2>1. CASE r # c
    <3>1. \A h \in Hold : h[1] = r => holdState'[h] = holdState[h]
      BY <1>2, <2>1
    <3>2. pc'[r] = pc[r] /\ nextLine'[r] = nextLine[r] /\ leftToTTL \subseteq leftToTTL'
      BY <1>1, <2>1 DEF TypeOK
    <3>3. \A i \in 1 .. LineCount[r] : holdState'[<<r, i>>] = holdState[<<r, i>>]
      BY <3>1, HoldShape
    <3>4. \A h \in HoldsOf(r) : holdState'[h] = holdState[h]
      BY <3>1 DEF HoldsOf
    <3>5. HoldsMatchPlace(r)
      BY DEF HoldInv
    <3> HIDE DEF IInv, ReleaseHolds
    <3> QED  BY <3>2, <3>3, <3>4, <3>5 DEF HoldsMatchPlace, HoldsOf, Counts
  <2>2. CASE r = c
    BY <1>3, <2>2 DEF TypeOK, HoldInv, HoldsMatchPlace, HoldsOf
  <2> QED  BY <2>1, <2>2
<1>7. OneOrderPerKey' /\ RepliesNameOrders' /\ EffectsInv'
  BY DEF TypeOK, OneOrderPerKey, RepliesNameOrders, EffectsInv, Consumed, Redeemed,
         SameKey
<1>8. NoOrphanHold'
  BY <1>2, <1>3, HoldShape DEF TypeOK, NoOrphanHold, InFlight, HoldsOf, Counts
<1>9. OrderKeepsItsHolds'
  BY <1>2, HoldShape DEF TypeOK, ProgressInv, OrderKeepsItsHolds, HoldsOf
<1> QED  BY <1>4, <1>5, <1>6, <1>7, <1>8, <1>9

\* The replay answer names the winner that order.create returned.
LEMMA RollbackPromoKeeps ==
  ASSUME IInv, NEW c \in Request, RollbackPromo(c)
  PROVE  IInv'
<1> USE DEF IInv, TypeOK, FlowTypeOK, RollbackPromo, UndoPromo
<1>1. TypeOK'
  <2>1. got[c] \in Request \/ fate[c] # "replay"
    BY DEF ProgressInv, Winners
  <2>2. pc' \in [Request -> Place] /\ promo' \in [Request -> PromoStatus]
    OBVIOUS
  <2>3. reply' \in [Request -> [kind  : Refusals \cup Accepted \cup {"none"},
                               order : Request \cup {NoOrder}]]
    BY <2>1
  <2> QED  BY <2>2, <2>3
<1>2. ProgressInv'
  <2>1. \A r \in Request : r # c =>
           /\ pc'[r] = pc[r] /\ promo'[r] = promo[r] /\ reply'[r] = reply[r]
    OBVIOUS
  <2>2. pc'[c] \in {"finding", "done"} /\ (pc'[c] = "finding" => reply'[c] = reply[c])
    OBVIOUS
  <2> HIDE DEF UndoPromo
  <2> QED  BY <2>1, <2>2 DEF ProgressInv, Winners, SameKey
<1>3. HoldInv'
  BY HoldShape DEF HoldInv, HoldsMatchPlace, HoldsOf, Counts, OnShelf
<1>4. OneOrderPerKey' /\ RepliesNameOrders' /\ EffectsInv'
  BY DEF ProgressInv, OneOrderPerKey, RepliesNameOrders, EffectsInv, Consumed,
         Redeemed, Winners, SameKey
<1>5. NoOrphanHold' /\ OrderKeepsItsHolds'
  BY HoldShape DEF ProgressInv, HoldInv, HoldsMatchPlace, NoOrphanHold,
         OrderKeepsItsHolds, InFlight, HoldsOf, Counts, OnShelf
<1> QED  BY <1>1, <1>2, <1>3, <1>4, <1>5

\* The replay after a duplicate-key error names the winner.
LEMMA FindWinnerKeeps ==
  ASSUME IInv, NEW c \in Request, FindWinner(c)
  PROVE  IInv'
<1> USE DEF IInv, TypeOK, FlowTypeOK, FindWinner
<1>1. TypeOK'
  BY DEF ProgressInv, Winners, HoldsOf
<1>2. ProgressInv'
  BY DEF ProgressInv, Winners, SameKey
<1>3. HoldInv'
  BY HoldShape DEF HoldInv, HoldsMatchPlace, HoldsOf, Counts, OnShelf
<1>4. OneOrderPerKey' /\ RepliesNameOrders' /\ EffectsInv'
  BY DEF ProgressInv, OneOrderPerKey, RepliesNameOrders, EffectsInv, Consumed,
         Redeemed, Winners, SameKey
<1>5. NoOrphanHold' /\ OrderKeepsItsHolds'
  BY HoldShape DEF ProgressInv, HoldInv, HoldsMatchPlace, NoOrphanHold,
         OrderKeepsItsHolds, InFlight, HoldsOf, Counts, OnShelf
<1> QED  BY <1>1, <1>2, <1>3, <1>4, <1>5

\* Without a winner the call compensates again.
LEMMA FindNobodyKeeps ==
  ASSUME IInv, NEW c \in Request, FindNobody(c)
  PROVE  IInv'
<1> USE DEF IInv, TypeOK, FlowTypeOK, FindNobody
<1>1. TypeOK'
  BY DEF ProgressInv, Winners, HoldsOf
<1>2. ProgressInv'
  BY DEF ProgressInv, Winners, SameKey
<1>3. HoldInv'
  BY HoldShape DEF HoldInv, HoldsMatchPlace, HoldsOf, Counts, OnShelf
<1>4. OneOrderPerKey' /\ RepliesNameOrders' /\ EffectsInv'
  BY DEF ProgressInv, OneOrderPerKey, RepliesNameOrders, EffectsInv, Consumed,
         Redeemed, Winners, SameKey
<1>5. NoOrphanHold' /\ OrderKeepsItsHolds'
  BY HoldShape DEF ProgressInv, HoldInv, HoldsMatchPlace, NoOrphanHold,
         OrderKeepsItsHolds, InFlight, HoldsOf, Counts, OnShelf
<1> QED  BY <1>1, <1>2, <1>3, <1>4, <1>5

\* A voucher is redeemed only by a call whose order exists.
LEMMA CommitPromoKeeps ==
  ASSUME IInv, NEW c \in Request, CommitPromo(c)
  PROVE  IInv'
<1> USE DEF IInv, TypeOK, FlowTypeOK, CommitPromo, UndoPromo
<1>1. TypeOK'
  BY DEF ProgressInv, Winners, HoldsOf
<1>2. ProgressInv'
  BY DEF ProgressInv, Winners, SameKey
<1>3. HoldInv'
  BY HoldShape DEF HoldInv, HoldsMatchPlace, HoldsOf, Counts, OnShelf
<1>4. OneOrderPerKey' /\ RepliesNameOrders' /\ EffectsInv'
  BY DEF ProgressInv, OneOrderPerKey, RepliesNameOrders, EffectsInv, Consumed,
         Redeemed, Winners, SameKey
<1>5. NoOrphanHold' /\ OrderKeepsItsHolds'
  BY HoldShape DEF ProgressInv, HoldInv, HoldsMatchPlace, NoOrphanHold,
         OrderKeepsItsHolds, InFlight, HoldsOf, Counts, OnShelf
<1> QED  BY <1>1, <1>2, <1>3, <1>4, <1>5

\* The fresh answer and the payment are for the order of the call itself.
LEMMA AttachPaymentKeeps ==
  ASSUME IInv, NEW c \in Request, AttachPayment(c)
  PROVE  IInv'
<1> USE DEF IInv, TypeOK, FlowTypeOK, AttachPayment
<1>1. TypeOK'
  BY DEF ProgressInv, Winners, HoldsOf
<1>2. ProgressInv'
  BY DEF ProgressInv, Winners, SameKey
<1>3. HoldInv'
  BY HoldShape DEF HoldInv, HoldsMatchPlace, HoldsOf, Counts, OnShelf
<1>4. OneOrderPerKey' /\ RepliesNameOrders' /\ EffectsInv'
  BY DEF ProgressInv, OneOrderPerKey, RepliesNameOrders, EffectsInv, Consumed,
         Redeemed, Winners, SameKey
<1>5. NoOrphanHold' /\ OrderKeepsItsHolds'
  BY HoldShape DEF ProgressInv, HoldInv, HoldsMatchPlace, NoOrphanHold,
         OrderKeepsItsHolds, InFlight, HoldsOf, Counts, OnShelf
<1> QED  BY <1>1, <1>2, <1>3, <1>4, <1>5

\* A crash leaves the holds of a call without an order to the TTL.
LEMMA CrashKeeps ==
  ASSUME IInv, NEW c \in Request, Crash(c)
  PROVE  IInv'
<1> USE DEF IInv, TypeOK, FlowTypeOK, Crash, Counting
<1>1. TypeOK'
  BY DEF ProgressInv, Winners, HoldsOf
<1>2. ProgressInv'
  BY DEF ProgressInv, Winners, SameKey
<1>3. HoldInv'
  BY HoldShape DEF HoldInv, HoldsMatchPlace, HoldsOf, Counts, OnShelf
<1>4. OneOrderPerKey' /\ RepliesNameOrders' /\ EffectsInv'
  BY DEF ProgressInv, OneOrderPerKey, RepliesNameOrders, EffectsInv, Consumed,
         Redeemed, Winners, SameKey
<1>5. NoOrphanHold' /\ OrderKeepsItsHolds'
  BY HoldShape DEF ProgressInv, HoldInv, HoldsMatchPlace, NoOrphanHold,
         OrderKeepsItsHolds, InFlight, HoldsOf, Counts, OnShelf
<1> QED  BY <1>1, <1>2, <1>3, <1>4, <1>5

\* An evaluation that times out redeems nothing.
LEMMA PromoLapsesKeeps ==
  ASSUME IInv, NEW c \in Request, PromoLapses(c)
  PROVE  IInv'
<1> USE DEF IInv, TypeOK, FlowTypeOK, PromoLapses
<1>1. TypeOK'
  BY DEF ProgressInv, Winners, HoldsOf
<1>2. ProgressInv'
  BY DEF ProgressInv, Winners, SameKey
<1>3. HoldInv'
  BY HoldShape DEF HoldInv, HoldsMatchPlace, HoldsOf, Counts, OnShelf
<1>4. OneOrderPerKey' /\ RepliesNameOrders' /\ EffectsInv'
  BY DEF ProgressInv, OneOrderPerKey, RepliesNameOrders, EffectsInv, Consumed,
         Redeemed, Winners, SameKey
<1>5. NoOrphanHold' /\ OrderKeepsItsHolds'
  BY HoldShape DEF ProgressInv, HoldInv, HoldsMatchPlace, NoOrphanHold,
         OrderKeepsItsHolds, InFlight, HoldsOf, Counts, OnShelf
<1> QED  BY <1>1, <1>2, <1>3, <1>4, <1>5

\* The clocks change holds only along active, lapsed, expired.
LEMMA ClocksKeep == ASSUME IInv, HoldLapses \/ Sweep PROVE IInv'
<1> USE DEF IInv, HoldLapses, Sweep, Lapse, SweepHolds
<1>1. \A h \in Hold :
         \/ holdState'[h] = holdState[h]
         \/ holdState[h] \in {"active", "lapsed"} /\ holdState'[h] \in {"lapsed", "expired"}
  <2>1. CASE HoldLapses
    BY <2>1 DEF TypeOK, FlowTypeOK
  <2>2. CASE Sweep
    BY <2>2 DEF TypeOK, FlowTypeOK
  <2> QED  BY <2>1, <2>2
<1>2. \A h \in Hold : /\ holdState[h] = "none" <=> holdState'[h] = "none"
                      /\ holdState[h] \in OnShelf => holdState'[h] \in OnShelf
                      /\ Counts(h)' => Counts(h)
  BY <1>1 DEF OnShelf, Counts
<1>3. UNCHANGED <<onHand, local, store, promo, reply, leftToTTL>>
  OBVIOUS
<1>4. TypeOK'
  <2>1. holdState' \in [Hold -> HoldStatus]
    <3>1. CASE HoldLapses
      BY <3>1 DEF TypeOK, FlowTypeOK
    <3>2. CASE Sweep
      BY <3>2 DEF TypeOK, FlowTypeOK
    <3> QED  BY <3>1, <3>2
  <2> HIDE DEF HoldLapses, Sweep
  <2> QED  BY <1>3, <2>1 DEF TypeOK, FlowTypeOK
<1> HIDE DEF HoldLapses, Sweep
<1>5. ProgressInv'
  BY <1>3 DEF ProgressInv, Winners, SameKey
<1>6. HoldInv'
  <2> SUFFICES ASSUME NEW r \in Request PROVE HoldsMatchPlace(r)'
    BY DEF HoldInv
  <2>1. HoldsMatchPlace(r)
    BY DEF HoldInv
  <2>2. \A i \in 1 .. LineCount[r] :
           /\ holdState[<<r, i>>] = "none" => holdState'[<<r, i>>] = "none"
           /\ holdState[<<r, i>>] \in OnShelf => holdState'[<<r, i>>] \in OnShelf
    BY <1>2, HoldShape
  <2> HIDE DEF IInv
  <2> QED  BY <1>2, <1>3, <2>1, <2>2 DEF HoldsMatchPlace, HoldsOf
<1>7. OneOrderPerKey' /\ RepliesNameOrders' /\ EffectsInv'
  BY <1>3 DEF OneOrderPerKey, RepliesNameOrders, EffectsInv, Consumed, Redeemed,
              SameKey
<1>8. NoOrphanHold' /\ OrderKeepsItsHolds'
  BY <1>2, <1>3 DEF NoOrphanHold, OrderKeepsItsHolds, InFlight, HoldsOf, OnShelf
<1> QED  BY <1>4, <1>5, <1>6, <1>7, <1>8

-----------------------------------------------------------------------------
\* IInv holds at the start and is preserved by every step.
THEOREM InitEstablishes == Init => IInv
<1> SUFFICES ASSUME Init PROVE IInv
  OBVIOUS
<1> USE DEF Init, FlowInit
<1>1. TypeOK
  BY DEF TypeOK, FlowTypeOK
<1>2. ProgressInv /\ OneOrderPerKey /\ RepliesNameOrders /\ EffectsInv
  BY DEF ProgressInv, OneOrderPerKey, RepliesNameOrders, EffectsInv, Consumed, Redeemed
<1>3. HoldInv /\ NoOrphanHold /\ OrderKeepsItsHolds
  BY HoldShape DEF HoldInv, HoldsMatchPlace, HoldsOf, NoOrphanHold, OrderKeepsItsHolds,
         Counts
<1> QED  BY <1>1, <1>2, <1>3 DEF IInv

\* ... and every action of a call, a crash or a clock preserves it.
THEOREM NextKeeps == IInv /\ [Next]_vars => IInv'
<1> SUFFICES ASSUME IInv, [Next]_vars PROVE IInv'
  OBVIOUS
<1>1. ASSUME NEW c \in Request, Step(c) PROVE IInv'
  BY <1>1, RejectKeeps, LookupHitKeeps, LookupMissKeeps,
         ReserveLineKeeps, ReserveShortKeeps, ReserveThrowsKeeps,
         ReservePromoKeeps, CreateStoredKeeps, CreateReturnsWinnerKeeps,
         CreateDuplicateKeeps, CreateThrowsKeeps, ReleaseHoldsKeeps,
         RollbackPromoKeeps, FindWinnerKeeps, FindNobodyKeeps,
         CommitPromoKeeps, AttachPaymentKeeps
     DEF Step
<1>2. ASSUME NEW c \in Request, Crash(c) PROVE IInv'
  BY <1>2, CrashKeeps
<1>3. ASSUME NEW c \in Request, PromoLapses(c) PROVE IInv'
  BY <1>3, PromoLapsesKeeps
<1>4. CASE UNCHANGED vars
  BY <1>4 DEF vars, IInv, TypeOK, FlowTypeOK, ProgressInv, HoldInv, HoldsMatchPlace,
              OneOrderPerKey, RepliesNameOrders, EffectsInv, NoOrphanHold,
              OrderKeepsItsHolds, Winners, SameKey, Consumed, Redeemed, InFlight, Counts
<1> QED  BY <1>1, <1>2, <1>3, <1>4, ClocksKeep DEF Next

\* So IInv holds of every reachable state.
THEOREM Invariance == Spec => []IInv
<1> QED  BY InitEstablishes, NextKeeps, PTL DEF Spec

-----------------------------------------------------------------------------
\* Every variable keeps its type.
THEOREM TypeCorrect == Spec => []TypeOK
<1>1. IInv => TypeOK
  BY DEF IInv
<1> QED  BY <1>1, Invariance, PTL

\* Calls with one idempotency key are told about one order, whichever of the
\* four replay paths of executePlacement answers them.
THEOREM KeyNamesOneOrder == Spec => []SameKeySameOrder
<1>1. IInv => SameKeySameOrder
  <2> SUFFICES ASSUME IInv, NEW q \in Request, NEW r \in Request, SameKey(q, r),
                      reply[q].kind \in Accepted, reply[r].kind \in Accepted
               PROVE  /\ reply[q].order = reply[r].order
                      /\ reply[q].kind = "fresh" /\ reply[r].kind = "fresh" => q = r
    BY DEF SameKeySameOrder
  <2>1. SameKey(reply[q].order, q) /\ SameKey(reply[r].order, r)
    BY DEF IInv, RepliesNameOrders, SameKey
  <2>2. SameKey(reply[q].order, reply[r].order)
    BY <2>1 DEF SameKey
  <2> QED  BY <2>2 DEF IInv, RepliesNameOrders, OneOrderPerKey
<1> QED  BY <1>1, Invariance, PTL

\* No reservation is held for nobody.
THEOREM HoldsHaveOwners == Spec => []NoOrphanHold
<1>1. IInv => NoOrphanHold
  BY DEF IInv
<1> QED  BY <1>1, Invariance, PTL

\* No compensation takes away the stock of a stored order.
THEOREM OrdersKeepTheirHolds == Spec => []OrderKeepsItsHolds
<1>1. IInv => OrderKeepsItsHolds
  BY DEF IInv
<1> QED  BY <1>1, Invariance, PTL

\* A key pays and redeems at most once.
THEOREM KeyConsumesOnce == Spec => []EffectsOncePerKey
<1>1. IInv => EffectsOncePerKey
  BY DEF IInv, EffectsInv, OneOrderPerKey, EffectsOncePerKey
<1> QED  BY <1>1, Invariance, PTL

-----------------------------------------------------------------------------
\* Every step of executePlacement is a step of the contract of the endpoint,
\* or changes nothing the contract speaks of.
LEMMA StepRefines == IInv /\ [Next]_vars => [Contract!Next]_(Contract!vars)
<1> SUFFICES ASSUME IInv, [Next]_vars PROVE [Contract!Next]_(Contract!vars)
  OBVIOUS
<1> USE DEF IInv, TypeOK, Contract!Next, Contract!vars, Contract!Respond, Contract!Answer,
            Contract!NoReply, Contract!Refusals, Contract!SameKey, SameKey, Winners
<1>1. ASSUME NEW c \in Request, CreateStored(c) \/ CreateThrows(c)
      PROVE  Contract!Accept(c) \/ UNCHANGED <<orders, reply>>
  BY <1>1 DEF CreateStored, CreateThrows, Insert, ProgressInv, Contract!Accept
<1>2. ASSUME NEW c \in Request, Reject(c) \/ ReserveShort(c) \/ ReserveThrows(c)
      PROVE  Contract!Refuse(c)
  BY <1>2 DEF Reject, ReserveShort, ReserveThrows, GiveUp, ProgressInv, Contract!Refuse
<1>3. ASSUME NEW c \in Request, LookupHit(c) \/ FindWinner(c)
      PROVE  Contract!Replay(c)
  BY <1>3 DEF LookupHit, FindWinner, ProgressInv, Contract!Replay
<1>4. ASSUME NEW c \in Request, RollbackPromo(c)
      PROVE  Contract!Replay(c) \/ Contract!Refuse(c) \/ UNCHANGED <<orders, reply>>
  BY <1>4 DEF RollbackPromo, ProgressInv, Contract!Replay, Contract!Refuse
<1>5. ASSUME NEW c \in Request, AttachPayment(c)
      PROVE  Contract!Confirm(c)
  BY <1>5 DEF AttachPayment, ProgressInv, Contract!Confirm
<1>6. ASSUME NEW c \in Request,
             \/ LookupMiss(c) \/ ReserveLine(c) \/ ReservePromo(c)
             \/ CreateReturnsWinner(c) \/ CreateDuplicate(c) \/ ReleaseHolds(c)
             \/ FindNobody(c) \/ CommitPromo(c) \/ Crash(c) \/ PromoLapses(c)
      PROVE  UNCHANGED <<orders, reply>>
  BY <1>6 DEF LookupMiss, ReserveLine, ReservePromo, CreateReturnsWinner,
         CreateDuplicate,
              ReleaseHolds, FindNobody, CommitPromo, Crash, PromoLapses
<1>7. CASE HoldLapses \/ Sweep \/ UNCHANGED vars
  BY <1>7 DEF HoldLapses, Sweep, vars
<1> HIDE DEF IInv, TypeOK, Contract!Respond, Contract!Answer, Contract!NoReply,
            Contract!Refusals, Contract!SameKey, SameKey, Winners
<1> QED  BY <1>1, <1>2, <1>3, <1>4, <1>5, <1>6, <1>7 DEF Next, Step

\* POST /orders/place keeps the promise of PlacementContract.
THEOREM PlacementImplementsContract == Spec => ImplementsContract
<1>1. Init => Contract!Init
  BY DEF Init, Contract!Init, Contract!NoReply, Contract!Answer
<1> QED  BY <1>1, StepRefines, Invariance, PTL DEF Spec, ImplementsContract, Contract!Spec
-----------------------------------------------------------------------------
\* How many awaits a call has left at most, place by place.
Countdown ==
    [promo |-> 10, creating |-> 9, finding |-> 6, committing |-> 2, charging |-> 1,
     done |-> 0, crashed |-> 0]

AwaitsLeft(r) ==
    CASE pc[r] = "start"     -> 11 + LineCount[r]
      [] pc[r] = "reserving" -> 11 + LineCount[r] - nextLine[r]
      [] pc[r] = "releasing" -> IF fate[r] = "dup" THEN 8 ELSE 4
      [] pc[r] = "undoing"   -> IF fate[r] = "dup" THEN 7 ELSE 3
      [] OTHER               -> Countdown[pc[r]]

\* A call gets closer to its end with every step of its own, and no other
\* call, clock or cron sets it back.
RunsDown ==
    \A r \in Request :
        /\ AwaitsLeft(r) \in Nat /\ AwaitsLeft(r)' \in Nat
        /\ AwaitsLeft(r)' <= AwaitsLeft(r)
        /\ Step(r) \/ Crash(r) => AwaitsLeft(r)' < AwaitsLeft(r)

LEMMA AwaitsAreNat == ASSUME IInv, NEW r \in Request PROVE AwaitsLeft(r) \in Nat
<1>1. pc[r] \in Place /\ fate[r] \in Fate /\ LineCount[r] \in Nat /\ nextLine[r] \in Nat
  BY DEF IInv, TypeOK
<1>2. pc[r] = "reserving" => nextLine[r] \in 1 .. LineCount[r]
  BY DEF IInv, HoldInv, HoldsMatchPlace
<1> QED  BY <1>1, <1>2 DEF AwaitsLeft, Countdown

\* The steps of a call take it from place to place along the countdown.
LEMMA StepCounts ==
  ASSUME IInv, NEW c \in Request, Step(c) \/ Crash(c)
  PROVE  AwaitsLeft(c)' < AwaitsLeft(c)
<1> USE DEF AwaitsLeft, Countdown
<1>0. /\ LineCount[c] \in Nat \ {0} /\ nextLine[c] \in Nat /\ pc[c] \in Place /\ fate[c] \in Fate
      /\ pc[c] = "reserving" => nextLine[c] \in 1 .. LineCount[c]
      /\ pc[c] = "finding" => fate[c] = "dup"
      /\ pc \in [Request -> Place] /\ fate \in [Request -> Fate] /\ nextLine \in [Request -> Nat]
  BY DEF IInv, TypeOK, HoldInv, HoldsMatchPlace, ProgressInv
<1>1. CASE Reject(c) \/ LookupHit(c)
  BY <1>0, <1>1 DEF Reject, LookupHit
<1>2. CASE LookupMiss(c)
  <2>1. nextLine[c] = 1 /\ pc[c] = "start" /\ pc'[c] = "reserving" /\ nextLine'[c] = 1
    BY <1>0, <1>2 DEF LookupMiss, IInv, HoldInv, HoldsMatchPlace
  <2> QED  BY <1>0, <2>1
<1>3. CASE ReserveLine(c)
  BY <1>0, <1>3 DEF ReserveLine
<1>4. CASE ReserveShort(c) \/ ReserveThrows(c)
  BY <1>0, <1>4 DEF ReserveShort, ReserveThrows, GiveUp
<1>5. CASE ReservePromo(c)
  BY <1>0, <1>5 DEF ReservePromo
<1>6. CASE CreateStored(c) \/ CreateReturnsWinner(c) \/ CreateDuplicate(c) \/ CreateThrows(c)
  BY <1>0, <1>6 DEF CreateStored, CreateReturnsWinner, CreateDuplicate, CreateThrows
<1>7. CASE ReleaseHolds(c)
  BY <1>0, <1>7 DEF ReleaseHolds
<1>8. CASE RollbackPromo(c)
  BY <1>0, <1>8 DEF RollbackPromo
<1>9. CASE FindWinner(c) \/ FindNobody(c)
  BY <1>0, <1>9 DEF FindWinner, FindNobody
<1>10. CASE CommitPromo(c) \/ AttachPayment(c)
  BY <1>0, <1>10 DEF CommitPromo, AttachPayment
<1>11. CASE Crash(c)
  BY <1>0, <1>11 DEF Crash
<1> QED  BY <1>1, <1>2, <1>3, <1>4, <1>5, <1>6, <1>7, <1>8, <1>9, <1>10, <1>11 DEF Step

\* What a call does is its own business: the place of the others stays.
LEMMA OthersStay ==
  ASSUME IInv, NEW c \in Request, Step(c) \/ Crash(c) \/ PromoLapses(c), NEW r \in Request, r # c
  PROVE  pc'[r] = pc[r] /\ fate'[r] = fate[r] /\ nextLine'[r] = nextLine[r]
  BY DEF IInv, TypeOK, Step, Crash, PromoLapses, Reject, LookupHit, LookupMiss, ReserveLine,
         ReserveShort, ReserveThrows, GiveUp, ReservePromo, CreateStored, CreateReturnsWinner,
         CreateDuplicate, CreateThrows, ReleaseHolds, RollbackPromo, FindWinner, FindNobody,
         CommitPromo, AttachPayment

\* Every call has a bounded number of steps: compensating a duplicate-key
\* error does not start over, which is the safety half of CallsEnd.
THEOREM CallsRunDown == Spec => [][RunsDown]_vars
<1>1. IInv /\ IInv' /\ [Next]_vars => [RunsDown]_vars
  <2> SUFFICES ASSUME IInv, IInv', Next, NEW r \in Request
      PROVE  /\ AwaitsLeft(r) \in Nat /\ AwaitsLeft(r)' \in Nat
             /\ AwaitsLeft(r)' <= AwaitsLeft(r)
             /\ Step(r) \/ Crash(r) => AwaitsLeft(r)' < AwaitsLeft(r)
    BY DEF RunsDown
  <2>1. AwaitsLeft(r) \in Nat
    BY AwaitsAreNat
  <2>2. AwaitsLeft(r)' \in Nat
    <3>1. /\ pc'[r] \in Place /\ fate'[r] \in Fate /\ LineCount[r] \in Nat /\ nextLine'[r] \in Nat
          /\ pc'[r] = "reserving" => nextLine'[r] \in 1 .. LineCount[r]
      BY DEF IInv, TypeOK, HoldInv, HoldsMatchPlace
    <3> QED  BY <3>1 DEF AwaitsLeft, Countdown
  <2>3. Step(r) \/ Crash(r) => AwaitsLeft(r)' < AwaitsLeft(r)
    BY StepCounts
  <2>4. CASE pc'[r] = pc[r] /\ fate'[r] = fate[r] /\ nextLine'[r] = nextLine[r]
    <3>1. AwaitsLeft(r)' = AwaitsLeft(r)
      BY <2>4 DEF AwaitsLeft
    <3> QED  BY <2>1, <2>2, <2>3, <3>1
  <2>5. CASE Step(r) \/ Crash(r)
    BY <2>1, <2>2, <2>3, <2>5
  <2>6. PromoLapses(r) \/ HoldLapses \/ Sweep =>
           pc'[r] = pc[r] /\ fate'[r] = fate[r] /\ nextLine'[r] = nextLine[r]
    BY DEF PromoLapses, HoldLapses, Sweep
  <2> QED  BY <2>4, <2>5, <2>6, OthersStay DEF Next
<1> QED  BY <1>1, Invariance, PTL DEF Spec
-----------------------------------------------------------------------------
\* What is settled stays settled: an order is never deleted, repriced or
\* unpaid, a redeemed voucher stays redeemed, an answer is not taken back.
OrdersStand ==
    /\ orders \subseteq orders'
    /\ \A r \in orders : r \in discounted' <=> r \in discounted
    /\ paid \subseteq paid'
    /\ Redeemed \subseteq Redeemed'
    /\ \A r \in Request : reply[r] # NoReply => reply'[r] = reply[r]

\* A call that was refused for its lines or for stock leaves nothing behind
\* but reservations, and those wait for the sweeper.
RefusedLeavesOnlyHolds ==
    \A r \in Request : reply[r].kind \in {"rejected", "shortage"} =>
        /\ r \notin orders \cup Consumed
        /\ promo[r] = "none"
        /\ Counting(HoldsOf(r)) \subseteq leftToTTL

\* Until the promo is evaluated there is none; a refusal comes before.
PromoComesLate ==
    \A r \in Request :
        /\ pc[r] \in {"start", "reserving", "promo"} => promo[r] = "none"
        /\ reply[r].kind \in {"rejected", "shortage"} => r \notin orders /\ promo[r] = "none"

LEMMA PromoComesLateKept ==
  ASSUME IInv, PromoComesLate, [Next]_vars
  PROVE  PromoComesLate' /\ OrdersStand
<1> DEFINE Goal == PromoComesLate' /\ OrdersStand
<1> USE DEF IInv, TypeOK, ProgressInv, PromoComesLate, OrdersStand, Redeemed
<1>1. ASSUME NEW c \in Request, Reject(c) \/ LookupHit(c) \/ LookupMiss(c) PROVE Goal
  BY <1>1 DEF Reject, LookupHit, LookupMiss
<1>2. ASSUME NEW c \in Request, ReserveLine(c) PROVE Goal
  BY <1>2 DEF ReserveLine
<1>3. ASSUME NEW c \in Request, ReserveShort(c) \/ ReserveThrows(c) PROVE Goal
  BY <1>3 DEF ReserveShort, ReserveThrows, GiveUp
<1>4. ASSUME NEW c \in Request, ReservePromo(c) PROVE Goal
  BY <1>4 DEF ReservePromo
<1>5. ASSUME NEW c \in Request, CreateStored(c) PROVE Goal
  BY <1>5 DEF CreateStored, Insert
<1>6. ASSUME NEW c \in Request, CreateReturnsWinner(c) \/ CreateDuplicate(c) PROVE Goal
  BY <1>6 DEF CreateReturnsWinner, CreateDuplicate
<1>7. ASSUME NEW c \in Request, CreateThrows(c) PROVE Goal
  <2>1. /\ pc[c] = "creating" /\ pc' = [pc EXCEPT ![c] = "releasing"] /\ c \notin orders
        /\ UNCHANGED <<paid, promo, reply>>
    BY <1>7 DEF CreateThrows
  <2>2. CASE UNCHANGED <<orders, discounted>>
    BY <2>1, <2>2
  <2>3. CASE Insert(c)
    BY <2>1, <2>3 DEF Insert
  <2> QED  BY <1>7, <2>2, <2>3 DEF CreateThrows
<1>8. ASSUME NEW c \in Request, ReleaseHolds(c) PROVE Goal
  BY <1>8 DEF ReleaseHolds
<1>9. ASSUME NEW c \in Request, RollbackPromo(c) PROVE Goal
  BY <1>9 DEF RollbackPromo, UndoPromo
<1>10. ASSUME NEW c \in Request, FindWinner(c) \/ FindNobody(c) PROVE Goal
  BY <1>10 DEF FindWinner, FindNobody
<1>11. ASSUME NEW c \in Request, CommitPromo(c) PROVE Goal
  BY <1>11 DEF CommitPromo, UndoPromo
<1>12. ASSUME NEW c \in Request, AttachPayment(c) PROVE Goal
  BY <1>12 DEF AttachPayment
<1>13. ASSUME NEW c \in Request, Crash(c) \/ PromoLapses(c) PROVE Goal
  BY <1>13 DEF Crash, PromoLapses
<1>14. CASE HoldLapses \/ Sweep \/ UNCHANGED vars
  BY <1>14 DEF HoldLapses, Sweep, vars
<1> HIDE DEF IInv, PromoComesLate, OrdersStand
<1> QED  BY <1>1, <1>2, <1>3, <1>4, <1>5, <1>6, <1>7, <1>8, <1>9, <1>10, <1>11, <1>12, <1>13, <1>14
            DEF Next, Step

LEMMA PromoComesLateAlways == Spec => []PromoComesLate
<1>1. Init => PromoComesLate
  BY DEF Init, PromoComesLate
<1> QED  BY <1>1, PromoComesLateKept, Invariance, PTL DEF Spec

\* No replay, compensation, crash or clock undoes what was answered or bought.
THEOREM PlacementIsFinal == Spec => [][OrdersStand]_vars
<1>1. IInv /\ PromoComesLate /\ [Next]_vars => [OrdersStand]_vars
  BY PromoComesLateKept
<1> QED  BY <1>1, Invariance, PromoComesLateAlways, PTL DEF Spec

\* The half of order-placement.ts:154-155 that is true of the code: a refused
\* call has no order, no payment and no voucher, and what it still holds the
\* sweeper will free.
THEOREM RefusalsAreClean == Spec => []RefusedLeavesOnlyHolds
<1>1. IInv /\ PromoComesLate => RefusedLeavesOnlyHolds
  BY DEF IInv, TypeOK, ProgressInv, EffectsInv, Consumed, Redeemed, PromoComesLate,
         RefusedLeavesOnlyHolds, NoOrphanHold, InFlight, Counting, HoldsOf
<1> QED  BY <1>1, Invariance, PromoComesLateAlways, PTL
-----------------------------------------------------------------------------
\* The holds that count against a SKU, and the sum FlowStock takes over them.
Held(s) == {h \in Hold : HoldSku[h] = s /\ Counts(h)}

LEMMA ReservedIsTotal ==
  \A s \in Sku : Reserved(s) = Total(Held(s)) /\ Reserved(s)' = Total(Held(s)')
  BY DEF Reserved, MapThenSumSet, MapThenFoldSet, Total, SumsUp, Adds, AnyOf, Held, Counts

\* No more is reserved than there is.
NeverOversold == \A s \in Sku : Reserved(s) <= onHand[s]

\* No voucher is redeemed more often than it may be.
VoucherNotOverspent == IsFiniteSet(Redeemed) /\ Cardinality(Redeemed) <= VoucherUses

LimitsInv == IsFiniteSet(Counting(Hold)) /\ NeverOversold /\ VoucherNotOverspent

\* A step that takes out no hold reserves no more.
LEMMA NothingHeld ==
  ASSUME TypeOK, IsFiniteSet(Counting(Hold)), NeverOversold, UNCHANGED onHand,
         \A h \in Hold : Counts(h)' => Counts(h)
  PROVE  IsFiniteSet(Counting(Hold))' /\ NeverOversold'
<1>1. Counting(Hold)' \in SUBSET Counting(Hold)
  BY DEF Counting
<1>2. ASSUME NEW s \in Sku PROVE Reserved(s)' <= onHand'[s]
  <2>1. Held(s)' \in SUBSET Held(s) /\ Held(s) \in SUBSET Counting(Hold) /\ Held(s) \in SUBSET Hold
    BY DEF Held, Counting
  <2>2. IsFiniteSet(Held(s)) /\ IsFiniteSet(Held(s)')
    BY <2>1, FS_Subset
  <2>3. Total(Held(s)') <= Total(Held(s)) /\ Total(Held(s)') \in Nat /\ Total(Held(s)) \in Nat
    BY <2>1, <2>2, TotalGrows, TotalSteps
  <2>4. Total(Held(s)) <= onHand[s]
    BY ReservedIsTotal DEF NeverOversold
  <2>5. onHand[s] \in Nat /\ onHand'[s] = onHand[s]
    BY DEF TypeOK, FlowTypeOK
  <2> QED  BY <2>3, <2>4, <2>5, ReservedIsTotal
<1> QED  BY <1>1, <1>2, FS_Subset DEF NeverOversold

\* One line more is held: the quant had room for it.
LEMMA OneMoreHeld ==
  ASSUME TypeOK, IsFiniteSet(Counting(Hold)), NeverOversold, UNCHANGED onHand,
         NEW h \in Hold, Reserve(h)
  PROVE  IsFiniteSet(Counting(Hold))' /\ NeverOversold'
<1>1. /\ ~Counts(h) /\ Counts(h)'
      /\ \A g \in Hold \ {h} : Counts(g)' <=> Counts(g)
  BY DEF Reserve, CanReserve, Counts, TypeOK, FlowTypeOK
<1>2. Counting(Hold)' = Counting(Hold) \cup {h}
  BY <1>1 DEF Counting
<1>3. ASSUME NEW s \in Sku PROVE Reserved(s)' <= onHand'[s]
  <2>1. Held(s) \in SUBSET Counting(Hold) /\ Held(s)' \in SUBSET Hold
    BY DEF Held, Counting
  <2>2. IsFiniteSet(Held(s))
    BY <2>1, FS_Subset
  <2>3. onHand[s] \in Nat /\ onHand'[s] = onHand[s] /\ Total(Held(s)) <= onHand[s]
    BY ReservedIsTotal DEF TypeOK, FlowTypeOK, NeverOversold
  <2>4. CASE HoldSku[h] # s
    <3>1. Held(s)' = Held(s)
      BY <1>1, <2>4 DEF Held
    <3> QED  BY <3>1, <2>3, ReservedIsTotal
  <2>5. CASE HoldSku[h] = s
    <3>1. Held(s)' = Held(s) \cup {h} /\ h \notin Held(s)
      BY <1>1, <2>5 DEF Held
    <3>2. Held(s)' \ {h} = Held(s) /\ h \in Held(s)' /\ IsFiniteSet(Held(s)')
      BY <3>1, <2>2, FS_AddElement
    <3>3. Total(Held(s)') = HoldQty[h] + Total(Held(s)) /\ Total(Held(s)) \in Nat
      BY <3>2, <2>1, <2>2, TotalSteps
    <3>4. HoldQty[h] <= onHand[s] - Total(Held(s))
      BY <2>5, ReservedIsTotal DEF Reserve, CanReserve, Available
    <3>5. HoldQty[h] \in Nat
      OBVIOUS
    <3> QED  BY <3>3, <3>4, <3>5, <2>3, ReservedIsTotal
  <2> QED  BY <2>4, <2>5
<1> QED  BY <1>2, <1>3, FS_AddElement DEF NeverOversold

LEMMA StockLimit ==
  ASSUME IInv, LimitsInv, [Next]_vars
  PROVE  IsFiniteSet(Counting(Hold))' /\ NeverOversold'
<1> USE DEF IInv, LimitsInv
<1>1. ASSUME NEW c \in Request, ReserveLine(c) PROVE IsFiniteSet(Counting(Hold))' /\ NeverOversold'
  <2>1. <<c, nextLine[c]>> \in Hold
    BY <1>1, HoldShape DEF ReserveLine, HoldInv, HoldsMatchPlace
  <2> QED  BY <1>1, <2>1, OneMoreHeld DEF ReserveLine
<1>2. ASSUME NEW c \in Request, ReleaseHolds(c) PROVE \A h \in Hold : Counts(h)' => Counts(h)
  BY <1>2 DEF ReleaseHolds, Release, Counts, TypeOK, FlowTypeOK
<1>3. CASE HoldLapses
  BY <1>3, NothingHeld DEF HoldLapses, Lapse, Counts, TypeOK, FlowTypeOK
<1>4. CASE Sweep
  BY <1>4, NothingHeld DEF Sweep, SweepHolds, Counts, TypeOK, FlowTypeOK
<1>5. ASSUME UNCHANGED flow PROVE IsFiniteSet(Counting(Hold))' /\ NeverOversold'
  BY <1>5, NothingHeld DEF Counts
<1>6. ASSUME NEW c \in Request, Step(c) \/ Crash(c) \/ PromoLapses(c), ~ReserveLine(c), ~ReleaseHolds(c)
      PROVE  UNCHANGED flow
  BY <1>6 DEF Step, Crash, PromoLapses, Reject, LookupHit, LookupMiss, ReserveShort, ReserveThrows,
        GiveUp, ReservePromo, CreateStored, CreateReturnsWinner, CreateDuplicate, CreateThrows,
        RollbackPromo, FindWinner, FindNobody, CommitPromo, AttachPayment
<1>7. ASSUME NEW c \in Request, ReleaseHolds(c) PROVE UNCHANGED onHand
  BY <1>7 DEF ReleaseHolds
<1> QED  BY <1>1, <1>2, <1>3, <1>4, <1>5, <1>6, <1>7, NothingHeld DEF Next, vars

LEMMA VoucherLimit == ASSUME IInv, LimitsInv, [Next]_vars PROVE VoucherNotOverspent'
<1> USE DEF IInv, LimitsInv, VoucherNotOverspent
<1>1. ASSUME Redeemed' \in SUBSET Redeemed PROVE VoucherNotOverspent'
  <2>1. IsFiniteSet(Redeemed') /\ Cardinality(Redeemed') <= Cardinality(Redeemed)
    BY <1>1, FS_Subset
  <2>2. Cardinality(Redeemed) \in Nat /\ Cardinality(Redeemed') \in Nat
    BY <2>1, FS_CardinalityType
  <2> QED  BY <2>1, <2>2
<1>2. ASSUME NEW c \in Request, CommitPromo(c) PROVE VoucherNotOverspent'
  <2>1. CASE promo'[c] = "committed"
    <3>1. Redeemed' = Redeemed \cup {c} /\ (c \in Redeemed \/ Cardinality(Redeemed) < VoucherUses)
      BY <1>2, <2>1 DEF CommitPromo, UndoPromo, Redeemed, TypeOK
    <3>2. Cardinality(Redeemed) \in Nat /\ IsFiniteSet(Redeemed')
      BY <3>1, FS_CardinalityType, FS_AddElement
    <3>3. Cardinality(Redeemed') = IF c \in Redeemed THEN Cardinality(Redeemed) ELSE Cardinality(Redeemed) + 1
      BY <3>1, FS_AddElement
    <3>4. Cardinality(Redeemed') <= VoucherUses
      BY <3>1, <3>2, <3>3
    <3> QED  BY <3>2, <3>4
  <2>2. CASE promo'[c] # "committed"
    <3>1. Redeemed' = Redeemed
      BY <1>2, <2>2 DEF CommitPromo, UndoPromo, Redeemed, TypeOK
    <3> QED  BY <3>1, <1>1
  <2> QED  BY <2>1, <2>2
<1>3. ASSUME NEW c \in Request, ReservePromo(c) PROVE Redeemed' \in SUBSET Redeemed
  BY <1>3 DEF ReservePromo, Redeemed, TypeOK
<1>4. ASSUME NEW c \in Request, RollbackPromo(c) PROVE Redeemed' = Redeemed
  BY <1>4 DEF RollbackPromo, UndoPromo, Redeemed, TypeOK
<1>5. ASSUME NEW c \in Request, PromoLapses(c) PROVE Redeemed' = Redeemed
  BY <1>5 DEF PromoLapses, Redeemed, TypeOK
<1>6. ASSUME UNCHANGED promo PROVE Redeemed' = Redeemed
  BY <1>6 DEF Redeemed
<1>7. ASSUME NEW c \in Request, Step(c) \/ Crash(c), ~ReservePromo(c), ~RollbackPromo(c), ~CommitPromo(c)
      PROVE  UNCHANGED promo
  BY <1>7 DEF Step, Crash, Reject, LookupHit, LookupMiss, ReserveLine, ReserveShort, ReserveThrows,
        GiveUp, CreateStored, CreateReturnsWinner, CreateDuplicate, CreateThrows,
        ReleaseHolds, FindWinner, FindNobody, AttachPayment
<1>8. HoldLapses \/ Sweep \/ UNCHANGED vars => UNCHANGED promo
  BY DEF HoldLapses, Sweep, vars
<1> QED  BY <1>1, <1>2, <1>3, <1>4, <1>5, <1>6, <1>7, <1>8 DEF Next

\* However many calls reserve, crash, retry and compensate at once, the
\* reservations never exceed the stock and a voucher its uses.
THEOREM LimitsHold == Spec => [](NeverOversold /\ VoucherNotOverspent)
<1>1. Init => LimitsInv
  <2> SUFFICES ASSUME Init PROVE LimitsInv
    OBVIOUS
  <2>1. Counting(Hold) = {} /\ Redeemed = {} /\ onHand \in [Sku -> Nat] /\ \A s \in Sku : Held(s) = {}
    BY DEF Init, FlowInit, Counting, Redeemed, Held, Counts
  <2>2. Total({}) = 0
    BY TotalSteps, FS_EmptySet
  <2>3. ASSUME NEW s \in Sku PROVE Reserved(s) <= onHand[s]
    <3>1. Reserved(s) = Total(Held(s)) /\ Held(s) = {} /\ onHand[s] \in Nat
      BY <2>1, ReservedIsTotal
    <3>2. Reserved(s) = 0
      BY <2>2, <3>1
    <3> QED  BY <3>1, <3>2
  <2>4. IsFiniteSet(Counting(Hold))
    BY <2>1, FS_EmptySet
  <2>5. IsFiniteSet(Redeemed) /\ Cardinality(Redeemed) = 0
    BY <2>1, FS_EmptySet
  <2> QED  BY <2>3, <2>4, <2>5 DEF LimitsInv, NeverOversold, VoucherNotOverspent
<1>2. IInv /\ LimitsInv /\ [Next]_vars => LimitsInv'
  BY StockLimit, VoucherLimit DEF LimitsInv
<1>3. LimitsInv => NeverOversold /\ VoucherNotOverspent
  BY DEF LimitsInv
<1> QED  BY <1>1, <1>2, <1>3, Invariance, PTL DEF Spec

-----------------------------------------------------------------------------
\* How far a reservation has come.  Settled ones are equally old.
Age == [s \in HoldStatus |-> IF s = "none" THEN 0 ELSE
                             IF s = "active" THEN 1 ELSE
                             IF s = "lapsed" THEN 2 ELSE 3]

\* A reservation only ever moves on, and settles once: a late sweep, a second
\* compensation or a retry neither renews one nor settles it again, and what
\* is left to the sweeper stays with it.
HoldsMoveOn ==
    /\ \A h \in Hold : holdState'[h] # holdState[h] => Age[holdState[h]] < Age[holdState'[h]]
    /\ leftToTTL \subseteq leftToTTL'

LEMMA HoldsMoveOnStep == ASSUME IInv, [Next]_vars PROVE HoldsMoveOn
<1>0. /\ Age["none"] = 0 /\ Age["active"] = 1 /\ Age["lapsed"] = 2
      /\ Age["released"] = 3 /\ Age["expired"] = 3
  BY DEF Age, HoldStatus
<1>1. holdState \in [Hold -> HoldStatus]
  BY DEF IInv, TypeOK, FlowTypeOK
<1>2. ASSUME NEW c \in Request, ReserveLine(c) PROVE HoldsMoveOn
  <2> DEFINE k == <<c, nextLine[c]>>
  <2>1. /\ holdState[k] = "none" /\ holdState' = [holdState EXCEPT ![k] = "active"]
        /\ leftToTTL' = leftToTTL
    BY <1>2 DEF ReserveLine, Reserve, CanReserve
  <2> HIDE DEF k
  <2>2. \A h \in Hold : holdState'[h] # holdState[h] =>
              holdState[h] = "none" /\ holdState'[h] = "active"
    BY <1>1, <2>1
  <2> QED  BY <1>0, <2>1, <2>2 DEF HoldsMoveOn
<1>3. ASSUME NEW c \in Request, ReleaseHolds(c) PROVE HoldsMoveOn
  BY <1>0, <1>1, <1>3 DEF ReleaseHolds, Release, Counts, HoldsMoveOn, HoldStatus
<1>4. CASE HoldLapses
  BY <1>0, <1>1, <1>4 DEF HoldLapses, Lapse, HoldsMoveOn, HoldStatus
<1>5. CASE Sweep
  BY <1>0, <1>1, <1>5 DEF Sweep, SweepHolds, HoldsMoveOn, HoldStatus
<1>6. ASSUME UNCHANGED flow, leftToTTL \subseteq leftToTTL' PROVE HoldsMoveOn
  BY <1>6 DEF flow, HoldsMoveOn
<1>7. ASSUME NEW c \in Request, Step(c) \/ Crash(c) \/ PromoLapses(c), ~ReserveLine(c), ~ReleaseHolds(c)
      PROVE  UNCHANGED flow /\ leftToTTL \subseteq leftToTTL'
  BY <1>7 DEF Step, Crash, PromoLapses, Reject, LookupHit, LookupMiss, ReserveShort, ReserveThrows,
        GiveUp, ReservePromo, CreateStored, CreateReturnsWinner, CreateDuplicate, CreateThrows,
        RollbackPromo, FindWinner, FindNobody, CommitPromo, AttachPayment
<1> QED  BY <1>2, <1>3, <1>4, <1>5, <1>6, <1>7 DEF Next, vars

\* The safety half of HoldsComeBack: whatever the calls, crashes and the cron
\* do, stock once given back is not taken again under the same reservation.
THEOREM HoldsOnlyMoveOn == Spec => [][HoldsMoveOn]_vars
<1>1. IInv /\ [Next]_vars => [HoldsMoveOn]_vars
  BY HoldsMoveOnStep
<1> QED  BY <1>1, Invariance, PTL DEF Spec
=============================================================================
