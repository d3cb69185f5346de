--------------------------- MODULE HashRingProofs ---------------------------
(***************************************************************************)
(* With callers that are careful and hashes that do not collide, the ring  *)
(* is determined by its members after any calls (CarefulRing), and from    *)
(* that follows that a write disturbs as few names as it can               *)
(* (CarefulWritesDisturbLittle) and that a walk of GetN answers the owners *)
(* that come first (CarefulWalksFindTheClosest) after few rounds           *)
(* (CarefulWalksShorten).  Of any callers: the types (RingTyping), and     *)
(* that Get answers the owner of the next hash after that of its name      *)
(* (GetFindsOwner).  For any elements, names, hashes and number of         *)
(* replicas.                                                               *)
(***************************************************************************)
EXTENDS HashRing, RingProofs, FiniteSetTheorems

\* The invariant with the types it needs.
RingInv ==
    /\ members \subseteq Addrs /\ IsFiniteSet(members)
    /\ DOMAIN circle \subseteq Nat /\ circle \in [DOMAIN circle -> Addrs]
    /\ RingIsItsMembers

Careful == CarefulCallers /\ NoCollision

LEMMA RingInvInit == Init => RingInv
<1> SUFFICES ASSUME Init PROVE RingInv
  OBVIOUS
<1>1. members = {} /\ circle = EmptyCircle /\ count = 0
  BY DEF Init
<1>2. IsFiniteSet({}) /\ Cardinality({}) = 0
  BY FS_EmptySet
<1>3. DOMAIN circle = {} /\ circle \in [{} -> Addrs]
  BY <1>1 DEF EmptyCircle
<1> QED
  BY <1>1, <1>2, <1>3 DEF RingInv, RingIsItsMembers

LEMMA AddKeepsRing ==
    ASSUME Careful, RingInv, NEW elt \in Addrs, Add(elt)
    PROVE  RingInv'
<1>1. /\ elt \notin members /\ members' = members \cup {elt} /\ count' = count + 1
      /\ circle' = CirclePut(circle, elt)
  BY DEF Add, Store, Careful
<1>2. Points(elt) \subseteq Nat
  BY PointsAreHashes
<1>3. /\ DOMAIN circle' = DOMAIN circle \cup Points(elt)
      /\ \A h \in DOMAIN circle' : circle'[h] = IF h \in Points(elt) THEN elt ELSE circle[h]
  BY <1>1 DEF CirclePut
<1>4. DOMAIN circle' = UNION {Points(e) : e \in members'}
  BY <1>1, <1>3 DEF RingInv, RingIsItsMembers
<1>5. \A h \in DOMAIN circle' : circle'[h] \in members' /\ h \in Points(circle'[h])
  BY <1>1, <1>3 DEF RingInv, RingIsItsMembers
<1>6. IsFiniteSet(members') /\ count' = Cardinality(members')
  BY <1>1, FS_AddElement DEF RingInv, RingIsItsMembers
<1>7. members' \subseteq Addrs /\ DOMAIN circle' \subseteq Nat
  BY <1>1, <1>2, <1>3 DEF RingInv
<1>8. circle' = [h \in DOMAIN circle' |-> circle'[h]]
  BY <1>1 DEF CirclePut
<1> QED
  BY <1>4, <1>5, <1>6, <1>7, <1>8 DEF RingInv, RingIsItsMembers

LEMMA RemoveKeepsRing ==
    ASSUME Careful, RingInv, NEW elt \in Addrs, Remove(elt)
    PROVE  RingInv'
<1>1. /\ elt \in members /\ members' = members \ {elt} /\ count' = count - 1
      /\ circle' = CircleDrop(circle, elt)
  BY DEF Remove, Store, Careful
<1>2. /\ DOMAIN circle' = DOMAIN circle \ Points(elt)
      /\ \A h \in DOMAIN circle' : circle'[h] = circle[h]
  BY <1>1 DEF CircleDrop
<1>3. \A e \in members' : Points(e) \cap Points(elt) = {}
  BY <1>1 DEF Careful, NoCollision, RingInv
<1>4. DOMAIN circle' = UNION {Points(e) : e \in members'}
  BY <1>1, <1>2, <1>3 DEF RingInv, RingIsItsMembers
<1>5. \A h \in DOMAIN circle' : circle'[h] \in members' /\ h \in Points(circle'[h])
  BY <1>1, <1>2 DEF RingInv, RingIsItsMembers
<1>6. IsFiniteSet(members') /\ count' = Cardinality(members')
  BY <1>1, FS_RemoveElement DEF RingInv, RingIsItsMembers
<1>7. members' \subseteq Addrs /\ DOMAIN circle' \subseteq Nat
  BY <1>1, <1>2 DEF RingInv
<1>8. circle' = [h \in DOMAIN circle' |-> circle'[h]]
  BY <1>1 DEF CircleDrop
<1> QED
  BY <1>4, <1>5, <1>6, <1>7, <1>8 DEF RingInv, RingIsItsMembers

\* The places that Set adds are as many as the new elements of its sequence.
LEMMA FreshPlacesFacts ==
    ASSUME NEW elts \in Seq(Addrs)
    PROVE  /\ FreshPlaces(elts) \in SUBSET DOMAIN elts
           /\ {elts[i] : i \in FreshPlaces(elts)} = Range(elts) \ members
           /\ IsFiniteSet(Range(elts))
           /\ Cardinality(FreshPlaces(elts)) = Cardinality(Range(elts) \ members)
<1> DEFINE F == FreshPlaces(elts)
           N == Range(elts) \ members
<1>1. F \in SUBSET DOMAIN elts /\ DOMAIN elts = 1 .. Len(elts) /\ Len(elts) \in Nat
  BY DEF FreshPlaces
<1>2. ASSUME NEW e \in N PROVE \E i \in F : elts[i] = e
  <2> DEFINE at == {i \in DOMAIN elts : elts[i] = e}
  <2>1. at # {} /\ at \in SUBSET Nat
    BY <1>1 DEF Range
  <2>2. Least(at) \in at /\ \A g \in at : Least(at) <= g
    BY <2>1, LeastIsLeast
  <2>3. Least(at) \in Nat /\ Least(at) <= Len(elts) /\ elts[Least(at)] = e
    BY <1>1, <2>2
  <2>4. ASSUME NEW j \in 1 .. Least(at) - 1 PROVE elts[j] # e
    <3>1. j \in DOMAIN elts /\ j \in Nat /\ ~(Least(at) <= j)
      BY <1>1, <2>3
    <3> QED
      BY <2>2, <3>1
  <2> QED
    BY <2>2, <2>3, <2>4 DEF FreshPlaces
<1>3. \A i \in F : elts[i] \in N
  BY <1>1 DEF FreshPlaces, Range
<1>4. {elts[i] : i \in F} = N
  BY <1>2, <1>3
<1>5. IsFiniteSet(DOMAIN elts)
  BY <1>1, FS_Interval
<1>6. IsFiniteSet(Range(elts))
  <2>1. elts \in [DOMAIN elts -> Range(elts)]
    BY <1>1 DEF Range
  <2>2. elts \in Surjection(DOMAIN elts, Range(elts))
    BY <2>1 DEF Surjection, Range
  <2> QED
    BY <2>2, <1>5, FS_Surjection
<1>7. Cardinality(F) = Cardinality(N)
  <2> DEFINE g == [i \in F |-> elts[i]]
  <2>1. IsFiniteSet(F)
    BY <1>1, <1>5, FS_Subset
  <2>2. g \in [F -> N]
    BY <1>3
  <2>3. ASSUME NEW a \in F, NEW b \in F, g[a] = g[b] PROVE a = b
    <3>1. elts[a] = elts[b] /\ a \in Nat /\ b \in Nat /\ a >= 1 /\ b >= 1
      BY <1>1, <2>3
    <3>2. ~(a < b)
      BY <3>1 DEF FreshPlaces
    <3>3. ~(b < a)
      BY <3>1 DEF FreshPlaces
    <3> QED
      BY <3>1, <3>2, <3>3
  <2>4. g \in Injection(F, N)
    BY <2>2, <2>3 DEF Injection, IsInjective
  <2>5. g \in Surjection(F, N)
    BY <1>2, <2>2 DEF Surjection
  <2>6. g \in Bijection(F, N)
    BY <2>4, <2>5 DEF Bijection
  <2> QED
    BY <2>1, <2>6, FS_Bijection DEF ExistsBijection
<1> QED
  BY <1>1, <1>4, <1>6, <1>7

LEMMA SetKeepsRing ==
    ASSUME Careful, RingInv, NEW elts \in EltLists, Set(elts)
    PROVE  RingInv'
<1> DEFINE gone == members \ Range(elts)
           fresh == FreshPlaces(elts)
           dropped == UNION {Points(e) : e \in gone}
           kept == [h \in DOMAIN circle \ dropped |-> circle[h]]
<1>1. elts \in Seq(Addrs)
  BY HashRingAssumption
<1>2. /\ circle' = PutAll(kept, elts, fresh)
      /\ members' = Range(elts)
      /\ count' = count - Cardinality(gone) + Cardinality(fresh)
  BY DEF Set, Store, FreshPlaces
<1>3. /\ fresh \in SUBSET DOMAIN elts
      /\ {elts[i] : i \in fresh} = Range(elts) \ members
      /\ IsFiniteSet(Range(elts))
      /\ Cardinality(fresh) = Cardinality(Range(elts) \ members)
  BY <1>1, FreshPlacesFacts
<1> DEFINE new == Claimed(elts, fresh)
<1>4. new = UNION {Points(e) : e \in Range(elts) \ members}
  BY <1>3 DEF Claimed
<1>5. Range(elts) \subseteq Addrs
  BY <1>1 DEF Range
<1> HIDE DEF fresh, kept
<1>6. /\ new \subseteq Nat
      /\ DOMAIN circle' = DOMAIN kept \cup new
      /\ \A h \in new : circle'[h] \in Range(elts) \ members /\ h \in Points(circle'[h])
      /\ \A h \in DOMAIN kept \ new : circle'[h] = kept[h]
  <2> DEFINE c == PutAll(kept, elts, fresh)
  <2>1. new \subseteq Nat
    BY <1>1, <1>3, PutAllFacts
  <2>2. DOMAIN c = DOMAIN kept \cup new
    BY <1>1, <1>3, PutAllFacts
  <2>3. \A h \in new : c[h] \in {elts[i] : i \in fresh} /\ h \in Points(c[h])
    BY <1>1, <1>3, PutAllFacts
  <2>4. ASSUME NEW h \in DOMAIN kept, h \notin new PROVE c[h] = kept[h]
    BY <2>2, <2>4 DEF PutAll
  <2>5. circle' = c
    BY <1>2
  <2> HIDE DEF c, new
  <2> QED
    BY <1>3, <2>1, <2>2, <2>3, <2>4, <2>5
<1>7. /\ DOMAIN kept = DOMAIN circle \ dropped
      /\ \A h \in DOMAIN kept : kept[h] = circle[h]
  BY DEF kept
<1>8. ASSUME NEW h \in DOMAIN circle
      PROVE  h \in dropped <=> circle[h] \notin Range(elts)
  <2>1. circle[h] \in members /\ h \in Points(circle[h]) /\ circle[h] \in Addrs
    BY DEF RingInv, RingIsItsMembers
  <2>2. ASSUME NEW e \in members, h \in Points(e) PROVE e = circle[h]
    BY <2>1, <2>2 DEF Careful, NoCollision, RingInv
  <2> QED
    BY <2>1, <2>2
<1>9. \A h \in DOMAIN circle' : circle'[h] \in members' /\ h \in Points(circle'[h])
  <2>1. ASSUME NEW h \in new PROVE circle'[h] \in members' /\ h \in Points(circle'[h])
    BY <1>2, <1>6
  <2>2. ASSUME NEW h \in DOMAIN kept, h \notin new
        PROVE circle'[h] \in members' /\ h \in Points(circle'[h])
    <3>1. circle'[h] = circle[h] /\ h \in DOMAIN circle /\ h \notin dropped
      BY <1>6, <1>7, <2>2
    <3> QED
      BY <3>1, <1>2, <1>8 DEF RingInv, RingIsItsMembers
  <2> QED
    BY <1>6, <2>1, <2>2
<1>10. DOMAIN circle' = UNION {Points(e) : e \in members'}
  <2>1. ASSUME NEW e \in Range(elts), NEW h \in Points(e) PROVE h \in DOMAIN circle'
    <3>1. CASE e \notin members
      BY <3>1, <1>4, <1>6
    <3>2. CASE e \in members
      <4>1. h \in DOMAIN circle
        BY <3>2 DEF RingInv, RingIsItsMembers
      <4>2. h \notin dropped
        BY <3>2, <1>5 DEF Careful, NoCollision, RingInv
      <4> QED
        BY <4>1, <4>2, <1>6, <1>7
    <3> QED
      BY <3>1, <3>2
  <2> QED
    BY <1>2, <1>9, <2>1
<1>11. count' = Cardinality(members')
  <2> DEFINE R == Range(elts)
  <2>1. /\ IsFiniteSet(members) /\ IsFiniteSet(R)
        /\ IsFiniteSet(R \ members) /\ IsFiniteSet(R \cap members)
    BY <1>3, FS_Difference, FS_Intersection DEF RingInv
  <2>2. /\ Cardinality(members) \in Nat /\ Cardinality(R) \in Nat
        /\ Cardinality(R \cap members) \in Nat
    BY <2>1, FS_CardinalityType
  <2>3. Cardinality(members \ R) = Cardinality(members) - Cardinality(members \cap R)
    BY <2>1, FS_Difference
  <2>4. Cardinality(R \ members) = Cardinality(R) - Cardinality(R \cap members)
    BY <2>1, FS_Difference
  <2>5. Cardinality(members \cap R) = Cardinality(R \cap members)
    <3>1. members \cap R = R \cap members
      OBVIOUS
    <3> QED
      BY <3>1, Zenon
  <2>6. count = Cardinality(members)
    BY DEF RingInv, RingIsItsMembers
  <2>7. count' = count - Cardinality(members \ R) + Cardinality(R \ members)
    BY <1>2, <1>3
  <2> DEFINE m == Cardinality(members)
             r == Cardinality(R)
             both == Cardinality(R \cap members)
  <2>8. count' = m - (m - both) + (r - both)
    BY <2>3, <2>4, <2>5, <2>6, <2>7, Zenon
  <2>9. m \in Nat /\ r \in Nat /\ both \in Nat
    BY <2>2
  <2> HIDE DEF m, r, both
  <2>10. count' = r
    BY <2>8, <2>9
  <2> QED
    BY <1>2, <2>10 DEF r, R
<1>12. DOMAIN circle' \subseteq Nat
  BY <1>6, <1>7 DEF RingInv
<1>13. circle' = [h \in DOMAIN circle' |-> circle'[h]]
  BY <1>2 DEF PutAll
<1> QED
  BY <1>2, <1>3, <1>5, <1>9, <1>10, <1>11, <1>12, <1>13 DEF RingInv, RingIsItsMembers

\* Every step, a walk included, keeps the invariant.
LEMMA RingInvNext ==
    ASSUME Careful, RingInv, [Next]_vars
    PROVE  RingInv'
<1>1. CASE \E elt \in Addrs : Add(elt)
  BY <1>1, AddKeepsRing
<1>2. CASE \E elt \in Addrs : Remove(elt)
  BY <1>2, RemoveKeepsRing
<1>3. CASE \E elts \in EltLists : Set(elts)
  BY <1>3, SetKeepsRing
<1>4. CASE UNCHANGED <<circle, members, sortedHashes, count>>
  BY <1>4 DEF RingInv, RingIsItsMembers
<1>5. ASSUME WalkGetN \/ WalkGetTwo
      PROVE  UNCHANGED <<circle, members, sortedHashes, count>>
  BY <1>5, Zenon DEF WalkGetN, WalkGetTwo
<1>6. ASSUME NEW name \in Versions, GetTwo(name) \/ \E n \in RequestSizes : GetN(name, n)
      PROVE  UNCHANGED <<circle, members, sortedHashes, count>>
  BY <1>6, Zenon DEF GetTwo, GetN
<1> QED
  BY <1>1, <1>2, <1>3, <1>4, <1>5, <1>6 DEF Next, vars

(***************************************************************************)
(* After any calls of careful callers the ring is what its members make    *)
(* it: the same servers give the same owners, however the ring was built.  *)
(***************************************************************************)
THEOREM CarefulRing == Careful => (Spec => []RingIsItsMembers)
<1> SUFFICES ASSUME Careful PROVE Spec => []RingIsItsMembers
  OBVIOUS
<1>1. Init => RingInv
  BY RingInvInit
<1>2. RingInv /\ [Next]_vars => RingInv'
  BY RingInvNext
<1>3. RingInv => RingIsItsMembers
  BY DEF RingInv
<1> QED
  BY <1>1, <1>2, <1>3, PTL DEF Spec

\* Two rings of members: a name moves only from a member that the second lacks
\* or to one that the first lacks.
LEMMA DisruptionIsMinimal ==
    ASSUME NoCollision, RingInv, RingInv', NEW name \in Versions, Moved(name)
    PROVE  \/ Owner(circle, name) \notin members'
           \/ Owner(circle', name) \notin members
<1> DEFINE key == NameHash[name]
           p == NextPoint(DOMAIN circle, key)
           q == NextPoint(DOMAIN circle', key)
<1> SUFFICES ASSUME circle[p] \in members', circle'[q] \in members PROVE FALSE
  BY DEF Owner
<1>1. key \in Nat
  BY RingAssumption
<1>2. DOMAIN circle # {} /\ DOMAIN circle' # {}
  BY DEF Moved, EmptyCircle, RingInv
<1>3. DOMAIN circle \in SUBSET Nat /\ DOMAIN circle' \in SUBSET Nat
  BY DEF RingInv
<1>4. p \in DOMAIN circle /\ q \in DOMAIN circle'
  BY <1>1, <1>2, <1>3, NextPointOnCircle
<1>5. p \in Points(circle[p]) /\ q \in Points(circle'[q])
  BY <1>4 DEF RingInv, RingIsItsMembers
<1>6. p \in DOMAIN circle' /\ q \in DOMAIN circle
  BY <1>5 DEF RingInv, RingIsItsMembers
<1>7. p = q
  BY <1>1, <1>2, <1>3, <1>6, SharedPointIsNext
<1>8. circle[p] \in Addrs /\ circle'[q] \in Addrs
  BY <1>4 DEF RingInv
<1>9. circle[p] = circle'[q]
  BY <1>5, <1>7, <1>8 DEF NoCollision
<1> QED
  BY <1>9 DEF Moved, Owner

(***************************************************************************)
(* A call of Add, Remove or Set moves a name only away from an element     *)
(* that leaves the ring or to one that comes.                              *)
(***************************************************************************)
THEOREM CarefulWritesDisturbLittle == Careful => (Spec => MinimalDisruption)
<1> SUFFICES ASSUME Careful PROVE Spec => MinimalDisruption
  OBVIOUS
<1>1. Init => RingInv
  BY RingInvInit
<1>2. RingInv /\ [Next]_vars => RingInv'
  BY RingInvNext
<1>3. ASSUME RingInv, RingInv'
      PROVE  [\A name \in Versions : Moved(name) =>
                \/ Owner(circle, name) \notin members'
                \/ Owner(circle', name) \notin members]_vars
  BY <1>3, DisruptionIsMinimal DEF Careful
<1> QED
  BY <1>1, <1>2, <1>3, PTL DEF Spec, MinimalDisruption
-----------------------------------------------------------------------------
(* The sorted keys of the circle.                                          *)

\* How many hashes are below one of them.
Rank(hashes, h) == Cardinality({g \in hashes : g < h})

LEMMA RankIsInjective ==
    ASSUME NEW hashes \in SUBSET Nat, IsFiniteSet(hashes), NEW h \in hashes
    PROVE  /\ Rank(hashes, h) \in 0 .. Cardinality(hashes) - 1
           /\ \A k \in hashes : h < k => Rank(hashes, h) < Rank(hashes, k)
<1> DEFINE below(k) == {g \in hashes : g < k}
<1>1. ASSUME NEW k \in hashes PROVE IsFiniteSet(below(k)) /\ Cardinality(below(k)) \in Nat
  <2>1. below(k) \in SUBSET hashes
    OBVIOUS
  <2> QED
    BY <2>1, FS_Subset, FS_CardinalityType
<1>2. /\ IsFiniteSet(hashes \ {h}) /\ Cardinality(hashes \ {h}) = Cardinality(hashes) - 1
      /\ Cardinality(hashes) \in Nat
  BY FS_RemoveElement, FS_CardinalityType
<1>3. Cardinality(below(h)) <= Cardinality(hashes) - 1
  <2>1. below(h) \in SUBSET (hashes \ {h})
    OBVIOUS
  <2> QED
    BY <2>1, <1>2, FS_Subset
<1>4. ASSUME NEW k \in hashes, h < k PROVE Cardinality(below(h)) < Cardinality(below(k))
  <2>1. h \notin below(h)
    OBVIOUS
  <2>2. /\ IsFiniteSet(below(h) \cup {h})
        /\ Cardinality(below(h) \cup {h}) = Cardinality(below(h)) + 1
    BY <2>1, <1>1, FS_AddElement
  <2>3. below(h) \cup {h} \in SUBSET below(k)
    <3>1. \A x \in Nat : x < h => x < k
      BY <1>4
    <3>2. \A g \in hashes : g < h => g < k
      BY <3>1
    <3> QED
      BY <1>4, <3>2, Zenon
  <2>4. Cardinality(below(h) \cup {h}) <= Cardinality(below(k))
    BY <2>3, <1>1, FS_Subset
  <2> DEFINE a == Cardinality(below(h))
             b == Cardinality(below(k))
  <2>5. a \in Nat /\ b \in Nat /\ a + 1 <= b
    BY <2>2, <2>4, <1>1, Zenon
  <2> HIDE DEF a, b
  <2>6. a < b
    BY <2>5
  <2> QED
    BY <2>6 DEF a, b
<1> QED
  BY <1>1, <1>2, <1>3, <1>4 DEF Rank

\* There is a hash for each rank, because there are as many ranks as hashes.
LEMMA RankIsSurjective ==
    ASSUME NEW hashes \in SUBSET Nat, IsFiniteSet(hashes),
           NEW i \in 1 .. Cardinality(hashes)
    PROVE  \E h \in hashes : Rank(hashes, h) = i - 1
<1> DEFINE n == Cardinality(hashes)
           r == [h \in hashes |-> Rank(hashes, h)]
<1>1. n \in Nat
  BY FS_CardinalityType
<1>2. IsFiniteSet(0 .. n - 1) /\ Cardinality(0 .. n - 1) = n
  <2>1. n - 1 \in Int /\ 0 \in Int
    BY <1>1
  <2> HIDE DEF n
  <2>2. /\ IsFiniteSet(0 .. n - 1)
        /\ Cardinality(0 .. n - 1) = IF 0 > n - 1 THEN 0 ELSE (n - 1) - 0 + 1
    BY <2>1, FS_Interval, Zenon
  <2>3. (IF 0 > n - 1 THEN 0 ELSE (n - 1) - 0 + 1) = n
    BY <1>1
  <2> QED
    BY <2>2, <2>3
<1>3. r \in [hashes -> 0 .. n - 1]
  BY RankIsInjective
<1>4. ASSUME NEW h \in hashes, NEW k \in hashes, r[h] = r[k] PROVE h = k
  <2>1. h \in Nat /\ k \in Nat
    OBVIOUS
  <2>2. Rank(hashes, h) \in Int /\ Rank(hashes, k) \in Int
    BY RankIsInjective
  <2>3. ~(h < k) /\ ~(k < h)
    BY <1>4, <2>2, RankIsInjective
  <2> QED
    BY <2>1, <2>3
<1>5. r \in Injection(hashes, 0 .. n - 1)
  BY <1>3, <1>4 DEF Injection, IsInjective
<1>6. r \in Surjection(hashes, 0 .. n - 1)
  BY <1>2, <1>5, FS_Injection
<1>7. i - 1 \in 0 .. n - 1
  BY <1>1
<1> QED
  BY <1>6, <1>7 DEF Surjection

\* The sorted hashes are the hashes, each once, in increasing order.
LEMMA SortedHashesFacts ==
    ASSUME NEW hashes \in SUBSET Nat, IsFiniteSet(hashes)
    PROVE  /\ SortedHashes(hashes) \in Seq(hashes)
           /\ Len(SortedHashes(hashes)) = Cardinality(hashes)
           /\ Cardinality(hashes) \in Nat
           /\ \A i, j \in 1 .. Cardinality(hashes) :
                 i < j => SortedHashes(hashes)[i] < SortedHashes(hashes)[j]
           /\ \A h \in hashes : \E i \in 1 .. Cardinality(hashes) : SortedHashes(hashes)[i] = h
<1> DEFINE n == Cardinality(hashes)
           s == SortedHashes(hashes)
<1>1. n \in Nat
  BY FS_CardinalityType
<1>2. ASSUME NEW i \in 1 .. n PROVE s[i] \in hashes /\ Rank(hashes, s[i]) = i - 1
  <2>1. s[i] = CHOOSE h \in hashes : Rank(hashes, h) = i - 1
    BY DEF SortedHashes, Rank
  <2> QED
    BY <2>1, RankIsSurjective
<1>3. s \in [1 .. n -> hashes]
  BY <1>2 DEF SortedHashes
<1> HIDE DEF s
<1>4. s \in Seq(hashes) /\ Len(s) = n
  BY <1>1, <1>3
<1>5. ASSUME NEW h \in hashes, NEW k \in hashes, Rank(hashes, h) < Rank(hashes, k)
      PROVE  h < k
  <2>1. h \in Nat /\ k \in Nat /\ Rank(hashes, h) \in Int /\ Rank(hashes, k) \in Int
    BY RankIsInjective
  <2>2. ~(k < h) /\ h # k
    BY <1>5, <2>1, RankIsInjective
  <2> QED
    BY <2>1, <2>2
<1>6. ASSUME NEW i \in 1 .. n, NEW j \in 1 .. n, i < j PROVE s[i] < s[j]
  <2>1. Rank(hashes, s[i]) < Rank(hashes, s[j])
    BY <1>1, <1>2, <1>6
  <2> QED
    BY <2>1, <1>2, <1>5
<1>7. ASSUME NEW h \in hashes PROVE \E i \in 1 .. n : s[i] = h
  <2> DEFINE i == Rank(hashes, h) + 1
  <2>1. i \in 1 .. n
    BY <1>1, RankIsInjective
  <2>2. s[i] \in hashes /\ Rank(hashes, s[i]) = Rank(hashes, h)
    <3>1. Rank(hashes, s[i]) = i - 1 /\ s[i] \in hashes
      BY <2>1, <1>2
    <3>2. Rank(hashes, h) \in Int
      BY RankIsInjective
    <3> QED
      BY <3>1, <3>2
  <2>3. s[i] = h
    <3>1. s[i] \in Nat /\ h \in Nat /\ Rank(hashes, h) \in Int
      <4>1. Rank(hashes, h) \in Int
        BY RankIsInjective
      <4> HIDE DEF i
      <4> QED
        BY <2>2, <4>1
    <3>2. ~(s[i] < h) /\ ~(h < s[i])
      BY <2>2, <3>1, RankIsInjective
    <3> QED
      BY <3>1, <3>2
  <2> QED
    BY <2>1, <2>3
<1>8. /\ \A i, j \in 1 .. n : i < j => s[i] < s[j]
      /\ \A h \in hashes : \E i \in 1 .. n : s[i] = h
  BY <1>6, <1>7
<1> QED
  BY <1>1, <1>4, <1>8, Zenon DEF s

\* The circle and its sorted keys after any writes.
SortedInv ==
    /\ DOMAIN circle \subseteq Nat /\ IsFiniteSet(DOMAIN circle)
    /\ circle \in [DOMAIN circle -> Addrs]
    /\ members \subseteq Addrs
    /\ sortedHashes = SortedHashes(DOMAIN circle)
    /\ count \in -MaxCount .. MaxCount

WalkerType ==
    [pc : {"walk", "done"}, op : {"GetN", "GetTwo"}, name : Versions, asked : Nat, n : Nat,
     start : Nat, i : Nat, res : Seq(Addrs)]

ReaderInv ==
    \/ reader = Idle
    \/ reader \in WalkerType /\ reader.res # <<>> /\ (reader.pc = "walk" => circle # EmptyCircle)

LEMMA FinitePoints ==
    ASSUME NEW elt \in Addrs
    PROVE  IsFiniteSet(Points(elt))
<1> DEFINE f == [idx \in Replicas |-> PointHash[<<elt, idx>>]]
<1>1. f \in Surjection(Replicas, Points(elt))
  BY DEF Surjection, Points
<1>2. IsFiniteSet(Replicas)
  BY RingAssumption, FS_Interval DEF Replicas
<1> QED
  BY <1>1, <1>2, FS_Surjection

LEMMA FiniteClaim ==
    ASSUME NEW elts \in Seq(Addrs), NEW places \in SUBSET DOMAIN elts
    PROVE  IsFiniteSet(Claimed(elts, places))
<1> DEFINE all == {Points(elts[i]) : i \in places}
           f == [i \in places |-> Points(elts[i])]
<1>1. IsFiniteSet(places)
  <2>1. DOMAIN elts = 1 .. Len(elts) /\ Len(elts) \in Int
    OBVIOUS
  <2> QED
    BY <2>1, FS_Interval, FS_Subset
<1>2. f \in Surjection(places, all)
  BY DEF Surjection
<1>3. IsFiniteSet(all)
  BY <1>1, <1>2, FS_Surjection
<1>4. ASSUME NEW T \in all PROVE IsFiniteSet(T)
  BY FinitePoints
<1>5. IsFiniteSet(UNION all)
  BY <1>3, <1>4, FS_UNION
<1> QED
  BY <1>5 DEF Claimed

LEMMA SortedInvInit == Init => SortedInv /\ ReaderInv
<1> SUFFICES ASSUME Init PROVE SortedInv /\ ReaderInv
  OBVIOUS
<1>1. /\ members = {} /\ circle = EmptyCircle /\ count = 0 /\ sortedHashes = <<>>
      /\ reader = Idle
  BY DEF Init
<1>2. IsFiniteSet({}) /\ Cardinality({}) = 0
  BY FS_EmptySet
<1>3. DOMAIN circle = {} /\ circle \in [{} -> Addrs]
  BY <1>1 DEF EmptyCircle
<1>4. SortedHashes({}) = <<>>
  <2>1. SortedHashes({}) \in Seq({}) /\ Len(SortedHashes({})) = 0
    BY <1>2, SortedHashesFacts
  <2> QED
    BY <2>1
<1>5. count \in -MaxCount .. MaxCount
  BY <1>1, HashRingAssumption
<1> QED
  BY <1>1, <1>2, <1>3, <1>4, <1>5 DEF SortedInv, ReaderInv

\* A write that stores a finite circle of elements.
LEMMA StoreFacts ==
    ASSUME NEW c, DOMAIN c \subseteq Nat, IsFiniteSet(DOMAIN c),
           c = [h \in DOMAIN c |-> c[h]], \A h \in DOMAIN c : c[h] \in Addrs,
           Store(c), members' \subseteq Addrs, count' \in -MaxCount .. MaxCount, reader' = Idle
    PROVE  SortedInv' /\ ReaderInv'
<1>1. circle' = c /\ sortedHashes' = SortedHashes(DOMAIN c)
  BY DEF Store
<1>2. c \in [DOMAIN c -> Addrs]
  OBVIOUS
<1>3. ReaderInv'
  BY DEF ReaderInv, Idle
<1>4. sortedHashes' = SortedHashes(DOMAIN circle)'
  BY <1>1 DEF SortedHashes
<1> QED
  BY <1>1, <1>2, <1>3, <1>4 DEF SortedInv

LEMMA WritesSort ==
    ASSUME SortedInv,
           \/ \E elt \in Addrs : Add(elt) \/ Remove(elt)
           \/ \E elts \in EltLists : Set(elts)
    PROVE  SortedInv' /\ ReaderInv'
<1> USE DEF SortedInv
<1>1. ASSUME NEW elt \in Addrs, Add(elt) PROVE SortedInv' /\ ReaderInv'
  <2> DEFINE c == CirclePut(circle, elt)
  <2>1. DOMAIN c = DOMAIN circle \cup Points(elt)
    BY DEF CirclePut
  <2>2. DOMAIN c \subseteq Nat /\ IsFiniteSet(DOMAIN c)
    BY <2>1, PointsAreHashes, FinitePoints, FS_Union
  <2>3. c = [h \in DOMAIN c |-> c[h]] /\ \A h \in DOMAIN c : c[h] \in Addrs
    BY DEF CirclePut
  <2>4. count' \in -MaxCount .. MaxCount
    BY <1>1, HashRingAssumption DEF Add
  <2>5. Store(c) /\ members' \subseteq Addrs /\ reader' = Idle
    BY <1>1 DEF Add
  <2> HIDE DEF c
  <2> QED
    BY <2>2, <2>3, <2>4, <2>5, StoreFacts
<1>2. ASSUME NEW elt \in Addrs, Remove(elt) PROVE SortedInv' /\ ReaderInv'
  <2> DEFINE c == CircleDrop(circle, elt)
  <2>1. DOMAIN c = DOMAIN circle \ Points(elt)
    BY DEF CircleDrop
  <2>2. DOMAIN c \subseteq Nat /\ IsFiniteSet(DOMAIN c)
    BY <2>1, FS_Difference
  <2>3. c = [h \in DOMAIN c |-> c[h]] /\ \A h \in DOMAIN c : c[h] \in Addrs
    BY DEF CircleDrop
  <2>4. count' \in -MaxCount .. MaxCount
    BY <1>2, HashRingAssumption DEF Remove
  <2>5. Store(c) /\ members' \subseteq Addrs /\ reader' = Idle
    BY <1>2 DEF Remove
  <2> HIDE DEF c
  <2> QED
    BY <2>2, <2>3, <2>4, <2>5, StoreFacts
<1>3. ASSUME NEW elts \in EltLists, Set(elts) PROVE SortedInv' /\ ReaderInv'
  <2> DEFINE gone == members \ Range(elts)
             dropped == UNION {Points(e) : e \in gone}
             kept == [h \in DOMAIN circle \ dropped |-> circle[h]]
             fresh == FreshPlaces(elts)
             c == PutAll(kept, elts, fresh)
  <2>1. elts \in Seq(Addrs)
    BY HashRingAssumption
  <2>2. /\ fresh \in SUBSET DOMAIN elts
        /\ \A i \in fresh : elts[i] \in Addrs
        /\ Range(elts) \subseteq Addrs
    BY <2>1 DEF FreshPlaces, Range
  <2>3. Store(c) /\ members' = Range(elts) /\ reader' = Idle
    BY <1>3 DEF Set
  <2>4. count' \in -MaxCount .. MaxCount
    BY <1>3 DEF Set
  <2>5. /\ DOMAIN kept \subseteq Nat /\ IsFiniteSet(DOMAIN kept)
        /\ \A h \in DOMAIN kept : kept[h] \in Addrs
    <3>1. IsFiniteSet(DOMAIN circle \ dropped)
      BY FS_Difference
    <3> QED
      BY <3>1
  <2> HIDE DEF fresh, kept
  <2>6. /\ Claimed(elts, fresh) \subseteq Nat
        /\ DOMAIN c = DOMAIN kept \cup Claimed(elts, fresh)
        /\ \A h \in Claimed(elts, fresh) : c[h] \in {elts[i] : i \in fresh}
        /\ \A h \in DOMAIN kept \ Claimed(elts, fresh) : c[h] = kept[h]
    <3>1. Claimed(elts, fresh) \subseteq Nat
      BY <2>1, <2>2, PutAllFacts
    <3>2. DOMAIN c = DOMAIN kept \cup Claimed(elts, fresh)
      BY <2>1, <2>2, PutAllFacts
    <3>3. \A h \in Claimed(elts, fresh) : c[h] \in {elts[i] : i \in fresh}
      BY <2>1, <2>2, PutAllFacts
    <3>4. ASSUME NEW h \in DOMAIN kept, h \notin Claimed(elts, fresh) PROVE c[h] = kept[h]
      BY <3>2, <3>4 DEF PutAll
    <3> HIDE DEF c
    <3> QED
      BY <3>1, <3>2, <3>3, <3>4
  <2>7. DOMAIN c \subseteq Nat /\ IsFiniteSet(DOMAIN c)
    BY <2>1, <2>2, <2>5, <2>6, FiniteClaim, FS_Union
  <2>8. \A h \in DOMAIN c : c[h] \in Addrs
    BY <2>2, <2>5, <2>6
  <2>9. c = [h \in DOMAIN c |-> c[h]]
    BY DEF PutAll
  <2> HIDE DEF c
  <2> QED
    BY <2>2, <2>3, <2>4, <2>7, <2>8, <2>9, StoreFacts
<1> QED
  BY <1>1, <1>2, <1>3

-----------------------------------------------------------------------------
(* search, and Get.                                                        *)

\* The places of the sorted hashes, from 0 as in the code.
Places == 0 .. Len(sortedHashes) - 1
HashAt(x) == sortedHashes[x + 1]

LEMMA SortedFacts ==
    ASSUME SortedInv
    PROVE  /\ Len(sortedHashes) \in Nat
           /\ \A x \in Places : HashAt(x) \in DOMAIN circle
           /\ \A x, y \in Places : x < y => HashAt(x) < HashAt(y)
           /\ \A h \in DOMAIN circle : \E x \in Places : HashAt(x) = h
           /\ circle # EmptyCircle => Len(sortedHashes) > 0
<1> DEFINE hashes == DOMAIN circle
           n == Cardinality(hashes)
<1>1. hashes \in SUBSET Nat /\ IsFiniteSet(hashes) /\ sortedHashes = SortedHashes(hashes)
  BY DEF SortedInv
<1> HIDE DEF hashes
<1>2. /\ sortedHashes \in Seq(hashes) /\ Len(sortedHashes) = n /\ n \in Nat
      /\ \A i, j \in 1 .. n : i < j => sortedHashes[i] < sortedHashes[j]
      /\ \A h \in hashes : \E i \in 1 .. n : sortedHashes[i] = h
  BY <1>1, SortedHashesFacts, Zenon
<1> HIDE DEF n
<1>3. \A x \in Places : x + 1 \in 1 .. n /\ x \in Int
  BY <1>2 DEF Places
<1>4. \A x \in Places : HashAt(x) \in hashes
  BY <1>2, <1>3 DEF HashAt
<1>5. ASSUME NEW x \in Places, NEW y \in Places, x < y PROVE HashAt(x) < HashAt(y)
  <2>1. x + 1 < y + 1
    BY <1>3, <1>5
  <2> QED
    BY <2>1, <1>2, <1>3 DEF HashAt
<1>6. ASSUME NEW h \in hashes PROVE \E x \in Places : HashAt(x) = h
  <2>1. PICK i \in 1 .. n : sortedHashes[i] = h
    BY <1>2
  <2>2. i - 1 \in Places /\ (i - 1) + 1 = i
    BY <1>2 DEF Places
  <2> QED
    BY <2>1, <2>2 DEF HashAt
<1>7. ASSUME circle # EmptyCircle PROVE Len(sortedHashes) > 0
  <2>1. hashes # {}
    BY <1>7 DEF EmptyCircle, SortedInv, hashes
  <2>2. PICK x \in Places : TRUE
    BY <1>6, <2>1
  <2> QED
    BY <2>2, <1>2 DEF Places
<1> QED
  BY <1>2, <1>4, <1>5, <1>6, <1>7 DEF hashes

\* Where search finds a key: the places from there on, and no others, are above
\* it; or none is, and the place is the first one.
LEMMA SearchFacts ==
    ASSUME SortedInv, circle # EmptyCircle, NEW key \in Nat
    PROVE  /\ SearchIndex(key) \in Places
           /\ \/ \A x \in Places : HashAt(x) > key <=> x >= SearchIndex(key)
              \/ SearchIndex(key) = 0 /\ \A x \in Places : HashAt(x) <= key
<1> DEFINE above == {x \in Places : HashAt(x) > key}
           s == SearchIndex(key)
<1>1. s = IF above = {} THEN 0 ELSE Least(above)
  BY DEF SearchIndex, Places, HashAt
<1> HIDE DEF s
<1>2. /\ Len(sortedHashes) \in Nat /\ Len(sortedHashes) > 0
      /\ \A x \in Places : HashAt(x) \in Nat /\ x \in Nat
  BY SortedFacts DEF SortedInv, Places
<1>3. CASE above = {}
  <2>1. s = 0 /\ 0 \in Places
    BY <1>1, <1>2, <1>3 DEF Places
  <2>2. \A x \in Places : HashAt(x) <= key
    BY <1>2, <1>3
  <2> QED
    BY <2>1, <2>2 DEF s
<1>4. CASE above # {}
  <2>1. s \in above /\ \A g \in above : s <= g
    BY <1>1, <1>2, <1>4, LeastIsLeast
  <2>2. ASSUME NEW x \in Places, x >= s PROVE HashAt(x) > key
    <3>1. HashAt(x) >= HashAt(s)
      BY <1>2, <2>1, <2>2, SortedFacts
    <3> QED
      BY <3>1, <1>2, <2>1
  <2>3. \A x \in Places : HashAt(x) > key <=> x >= s
    BY <1>2, <2>1, <2>2
  <2> QED
    BY <2>1, <2>3 DEF s
<1> QED
  BY <1>3, <1>4

\* What search finds is the point that comes next on the circle.
LEMMA SearchFindsNext ==
    ASSUME SortedInv, circle # EmptyCircle, NEW key \in Nat
    PROVE  HashAt(SearchIndex(key)) = NextPoint(DOMAIN circle, key)
<1> DEFINE s == SearchIndex(key)
           hashes == DOMAIN circle
           above == {h \in hashes : h > key}
<1>1. /\ s \in Places
      /\ \/ \A x \in Places : HashAt(x) > key <=> x >= s
         \/ s = 0 /\ \A x \in Places : HashAt(x) <= key
  BY SearchFacts
<1> HIDE DEF s
<1>2. /\ \A x \in Places : HashAt(x) \in hashes /\ HashAt(x) \in Nat /\ x \in Nat
      /\ \A h \in hashes : \E x \in Places : HashAt(x) = h
      /\ hashes \in SUBSET Nat
  BY SortedFacts DEF SortedInv, Places
<1>3. \A x, y \in Places : x <= y => HashAt(x) <= HashAt(y)
  BY <1>2, SortedFacts
<1> HIDE DEF hashes
<1>4. CASE \A x \in Places : HashAt(x) > key <=> x >= s
  <2>1. HashAt(s) \in above
    BY <1>1, <1>2, <1>4
  <2>2. Least(above) \in above /\ \A g \in above : Least(above) <= g
    <3>1. above \in SUBSET Nat /\ above # {}
      BY <2>1, <1>2
    <3> HIDE DEF above
    <3> QED
      BY <3>1, LeastIsLeast
  <2>3. PICK y \in Places : HashAt(y) = Least(above)
    BY <1>2, <2>2
  <2>4. s <= y
    BY <1>1, <1>2, <1>4, <2>2, <2>3
  <2>5. HashAt(s) <= Least(above) /\ Least(above) <= HashAt(s)
    BY <1>1, <1>3, <2>1, <2>2, <2>3, <2>4
  <2>6. HashAt(s) = Least(above)
    <3>1. Least(above) \in Nat /\ HashAt(s) \in Nat
      BY <1>1, <1>2, <2>2
    <3> QED
      BY <2>5, <3>1
  <2> QED
    BY <2>1, <2>6 DEF NextPoint, hashes, s
<1>5. CASE s = 0 /\ \A x \in Places : HashAt(x) <= key
  <2>1. above = {}
    <3>1. ASSUME NEW h \in hashes PROVE ~(h > key)
      <4>1. PICK x \in Places : HashAt(x) = h
        BY <1>2
      <4> QED
        BY <4>1, <1>2, <1>5
    <3> QED
      BY <3>1
  <2>2. Least(hashes) \in hashes /\ \A g \in hashes : Least(hashes) <= g
    BY <1>1, <1>2, LeastIsLeast
  <2>3. PICK y \in Places : HashAt(y) = Least(hashes)
    BY <1>2, <2>2
  <2>4. s <= y
    BY <1>2, <1>5
  <2>5. HashAt(s) <= Least(hashes) /\ Least(hashes) <= HashAt(s)
    BY <1>1, <1>2, <1>3, <2>2, <2>3, <2>4
  <2>6. HashAt(s) = Least(hashes)
    <3>1. Least(hashes) \in Nat /\ HashAt(s) \in Nat
      BY <1>1, <1>2, <2>2
    <3> QED
      BY <2>5, <3>1
  <2> QED
    BY <2>1, <2>6 DEF NextPoint, hashes, s
<1> QED
  BY <1>1, <1>4, <1>5

\* The binary search of Get finds the owner of a name.
LEMMA SortedGetIsOwner ==
    ASSUME SortedInv
    PROVE  GetIsOwner
<1> SUFFICES ASSUME circle # EmptyCircle, NEW name \in Versions
             PROVE  Get(name) = Owner(circle, name)
  BY DEF GetIsOwner
<1>1. NameHash[name] \in Nat
  BY RingAssumption
<1>2. HashAt(SearchIndex(NameHash[name])) = NextPoint(DOMAIN circle, NameHash[name])
  BY <1>1, SearchFindsNext
<1> QED
  BY <1>2 DEF Get, OwnerAt, Owner, HashAt

-----------------------------------------------------------------------------
(* The walks of GetN and GetTwo.                                           *)

\* The place a round of either loop looks at.
NextPlace == IF reader.i >= Len(sortedHashes) THEN 0 ELSE reader.i

LEMMA PlaceHasOwner ==
    ASSUME SortedInv, NEW x \in Places
    PROVE  OwnerAt(x) = circle[HashAt(x)] /\ OwnerAt(x) \in Addrs
<1>1. HashAt(x) \in DOMAIN circle
  BY SortedFacts
<1> QED
  BY <1>1 DEF SortedInv, OwnerAt, HashAt

LEMMA NextPlaceFacts ==
    ASSUME SortedInv, circle # EmptyCircle, reader.i \in Nat
    PROVE  NextPlace \in Places
  BY SortedFacts DEF NextPlace, Places

\* What a call of GetN or GetTwo starts with.
Call(op, name, asked, n, pc) ==
    Walker(op, name, asked, n, SearchIndex(NameHash[name]) + 1,
           <<OwnerAt(SearchIndex(NameHash[name]))>>, pc)

LEMMA CallFacts ==
    ASSUME SortedInv, NEW op \in {"GetN", "GetTwo"}, NEW name \in Versions,
           NEW asked \in Nat, NEW n \in Nat, NEW pc \in {"walk", "done"},
           circle # EmptyCircle
    PROVE  LET i == SearchIndex(NameHash[name])
               w == Call(op, name, asked, n, pc)
           IN  /\ w \in WalkerType /\ w.res = <<OwnerAt(i)>> /\ w.res # <<>>
               /\ w.pc = pc /\ w.op = op /\ w.name = name /\ w.asked = asked /\ w.n = n
               /\ w.start = i /\ w.i = i + 1
<1> DEFINE i == SearchIndex(NameHash[name])
<1>1. NameHash[name] \in Nat
  BY RingAssumption
<1>2. i \in Places
  BY <1>1, SearchFacts
<1>3. i \in Nat /\ OwnerAt(i) \in Addrs
  BY <1>2, PlaceHasOwner DEF Places
<1> HIDE DEF i
<1>4. <<OwnerAt(i)>> \in Seq(Addrs) /\ <<OwnerAt(i)>> # <<>>
  BY <1>3
<1> QED
  BY <1>3, <1>4 DEF Call, Walker, WalkerType, i

LEMMA GetNFacts ==
    ASSUME SortedInv, NEW name \in Versions, NEW n \in RequestSizes, GetN(name, n)
    PROVE  /\ circle # EmptyCircle
           /\ n \in Nat \ {0} /\ Want(n) \in Nat
           /\ reader' \in WalkerType /\ reader'.res = <<OwnerAt(SearchIndex(NameHash[name]))>>
           /\ reader'.pc = IF Want(n) = 1 THEN "done" ELSE "walk"
           /\ reader'.op = "GetN" /\ reader'.name = name /\ reader'.asked = n
           /\ reader'.n = Want(n)
           /\ reader'.start = SearchIndex(NameHash[name]) /\ reader'.i = reader'.start + 1
           /\ UNCHANGED <<circle, members, sortedHashes, count>>
<1> DEFINE i == SearchIndex(NameHash[name])
           pc == IF Want(n) = 1 THEN "done" ELSE "walk"
<1>1. n \in Nat \ {0}
  BY HashRingAssumption
<1>2. Want(n) \in Int /\ Want(n) >= 0
  BY <1>1, HashRingAssumption DEF GetN, Want, SortedInv
<1>3. /\ circle # EmptyCircle
      /\ reader' = Call("GetN", name, n, Want(n), pc)
      /\ UNCHANGED <<circle, members, sortedHashes, count>>
  BY DEF GetN, Call
<1>4. pc \in {"walk", "done"} /\ Want(n) \in Nat /\ n \in Nat
  BY <1>1, <1>2
<1> HIDE DEF pc
<1>5. /\ reader' \in WalkerType /\ reader'.res = <<OwnerAt(i)>>
      /\ reader'.pc = pc /\ reader'.op = "GetN" /\ reader'.name = name
      /\ reader'.asked = n /\ reader'.n = Want(n)
      /\ reader'.start = i /\ reader'.i = i + 1
  <2> DEFINE w == Call("GetN", name, n, Want(n), pc)
  <2>1. /\ w \in WalkerType /\ w.res = <<OwnerAt(i)>>
        /\ w.pc = pc /\ w.op = "GetN" /\ w.name = name
        /\ w.asked = n /\ w.n = Want(n) /\ w.start = i /\ w.i = i + 1
    BY <1>3, <1>4, CallFacts
  <2> QED
    BY <1>3, <2>1
<1> QED
  BY <1>1, <1>3, <1>4, <1>5 DEF pc

LEMMA GetTwoFacts ==
    ASSUME SortedInv, NEW name \in Versions, GetTwo(name)
    PROVE  /\ circle # EmptyCircle
           /\ reader' \in WalkerType /\ reader'.res = <<OwnerAt(SearchIndex(NameHash[name]))>>
           /\ reader'.pc = IF count = 1 THEN "done" ELSE "walk"
           /\ reader'.op = "GetTwo" /\ reader'.name = name /\ reader'.asked = 2
           /\ reader'.n = 2
           /\ reader'.start = SearchIndex(NameHash[name]) /\ reader'.i = reader'.start + 1
           /\ UNCHANGED <<circle, members, sortedHashes, count>>
<1> DEFINE i == SearchIndex(NameHash[name])
           pc == IF count = 1 THEN "done" ELSE "walk"
<1>1. /\ circle # EmptyCircle
      /\ reader' = Call("GetTwo", name, 2, 2, pc)
      /\ UNCHANGED <<circle, members, sortedHashes, count>>
  BY DEF GetTwo, Call
<1>2. pc \in {"walk", "done"} /\ 2 \in Nat
  OBVIOUS
<1> HIDE DEF pc
<1>3. /\ reader' \in WalkerType /\ reader'.res = <<OwnerAt(i)>>
      /\ reader'.pc = pc /\ reader'.op = "GetTwo" /\ reader'.name = name
      /\ reader'.asked = 2 /\ reader'.n = 2
      /\ reader'.start = i /\ reader'.i = i + 1
  <2> DEFINE w == Call("GetTwo", name, 2, 2, pc)
  <2>1. /\ w \in WalkerType /\ w.res = <<OwnerAt(i)>>
        /\ w.pc = pc /\ w.op = "GetTwo" /\ w.name = name
        /\ w.asked = 2 /\ w.n = 2 /\ w.start = i /\ w.i = i + 1
    BY <1>1, <1>2, CallFacts
  <2> QED
    BY <1>1, <2>1
<1> QED
  BY <1>1, <1>3 DEF pc

\* What a round changes: where the walk is, what it found and whether it goes on.
Round(w, i, res, pc) == [w EXCEPT !.i = i, !.res = res, !.pc = pc]

LEMMA RoundFacts ==
    ASSUME NEW w \in WalkerType, NEW i \in Nat, NEW res \in Seq(Addrs),
           NEW pc \in {"walk", "done"}, NEW w1, w1 = Round(w, i, res, pc)
    PROVE  /\ w1 \in WalkerType
           /\ w1.i = i /\ w1.res = res /\ w1.pc = pc
           /\ w1.op = w.op /\ w1.name = w.name /\ w1.asked = w.asked /\ w1.n = w.n
           /\ w1.start = w.start
  BY DEF WalkerType, Round

Kept == /\ reader'.op = reader.op /\ reader'.name = reader.name
        /\ reader'.asked = reader.asked /\ reader'.n = reader.n
        /\ reader'.start = reader.start

LEMMA WalkGetNFacts ==
    ASSUME SortedInv, ReaderInv, WalkGetN
    PROVE  LET x == NextPlace
               res == IF OwnerAt(x) \in Range(reader.res) THEN reader.res
                      ELSE Append(reader.res, OwnerAt(x))
           IN  /\ reader \in WalkerType /\ reader.pc = "walk" /\ reader.op = "GetN"
               /\ circle # EmptyCircle /\ x \in Places
               /\ reader' \in WalkerType /\ Kept
               /\ reader'.i = x + 1 /\ reader'.res = res /\ res # <<>>
               /\ reader'.pc = IF Len(res) = reader.n \/ x + 1 = reader.start
                               THEN "done" ELSE "walk"
               /\ UNCHANGED <<circle, members, sortedHashes, count>>
<1> DEFINE x == NextPlace
           res == IF OwnerAt(x) \in Range(reader.res) THEN reader.res
                  ELSE Append(reader.res, OwnerAt(x))
           pc == IF Len(res) = reader.n \/ x + 1 = reader.start THEN "done" ELSE "walk"
<1>1. reader.pc = "walk" /\ reader.op = "GetN"
  BY DEF WalkGetN
<1>2. reader \in WalkerType /\ reader.res # <<>> /\ circle # EmptyCircle
  BY <1>1 DEF ReaderInv, Idle
<1>3. x \in Places
  BY <1>2, NextPlaceFacts DEF WalkerType
<1>4. OwnerAt(x) \in Addrs /\ x + 1 \in Nat /\ reader.res \in Seq(Addrs)
  BY <1>2, <1>3, PlaceHasOwner DEF Places, WalkerType
<1>5. res \in Seq(Addrs) /\ res # <<>>
  <2>1. Append(reader.res, OwnerAt(x)) \in Seq(Addrs)
    BY <1>4
  <2>2. Len(Append(reader.res, OwnerAt(x))) = Len(reader.res) + 1 /\ Len(reader.res) \in Nat
    BY <1>4
  <2>3. Append(reader.res, OwnerAt(x)) # <<>>
    <3>1. Len(<<>>) = 0 /\ Len(reader.res) + 1 # 0
      BY <2>2
    <3> QED
      BY <2>2, <3>1, Zenon
  <2> QED
    BY <1>2, <1>4, <2>1, <2>3
<1>6. reader' = Round(reader, x + 1, res, pc)
  BY DEF WalkGetN, NextPlace, Contains, Round
<1>7. pc \in {"walk", "done"}
  OBVIOUS
<1>8. UNCHANGED <<circle, members, sortedHashes, count>>
  BY DEF WalkGetN
<1> HIDE DEF x, res, pc
<1> DEFINE next == x + 1
<1>9. next \in Nat /\ reader' = Round(reader, next, res, pc)
  BY <1>4, <1>6
<1> HIDE DEF next
<1>10. /\ reader' \in WalkerType /\ Kept
       /\ reader'.i = next /\ reader'.res = res /\ reader'.pc = pc
  <2>1. reader \in WalkerType
    BY <1>2
  <2>2. res \in Seq(Addrs)
    BY <1>5
  <2>3. /\ reader' \in WalkerType
        /\ reader'.i = next /\ reader'.res = res /\ reader'.pc = pc
        /\ reader'.op = reader.op /\ reader'.name = reader.name
        /\ reader'.asked = reader.asked /\ reader'.n = reader.n
        /\ reader'.start = reader.start
    BY <2>1, <2>2, <1>7, <1>9, RoundFacts
  <2> QED
    BY <2>3 DEF Kept
<1> QED
  BY <1>1, <1>2, <1>3, <1>5, <1>8, <1>10, Zenon DEF x, next, res, pc

LEMMA WalkGetTwoFacts ==
    ASSUME SortedInv, ReaderInv, WalkGetTwo
    PROVE  LET x == NextPlace
               a == Head(reader.res)
               b == OwnerAt(x)
           IN  /\ reader \in WalkerType /\ reader.pc = "walk" /\ reader.op = "GetTwo"
               /\ circle # EmptyCircle /\ x \in Places
               /\ a \in Addrs /\ b \in Addrs
               /\ reader' \in WalkerType /\ Kept
               /\ reader'.i = x + 1 /\ reader'.res = <<a, b>> /\ <<a, b>> # <<>>
               /\ reader'.pc = IF b # a \/ x + 1 = reader.start THEN "done" ELSE "walk"
               /\ UNCHANGED <<circle, members, sortedHashes, count>>
<1> DEFINE x == NextPlace
           a == Head(reader.res)
           b == OwnerAt(x)
           next == x + 1
           res == <<a, b>>
           pc == IF b # a \/ x + 1 = reader.start THEN "done" ELSE "walk"
<1>1. reader.pc = "walk" /\ reader.op = "GetTwo"
  BY DEF WalkGetTwo
<1>2. reader \in WalkerType /\ reader.res # <<>> /\ circle # EmptyCircle
  BY <1>1 DEF ReaderInv, Idle
<1>3. x \in Places
  BY <1>2, NextPlaceFacts DEF WalkerType
<1>4. b \in Addrs /\ x + 1 \in Nat /\ reader.res \in Seq(Addrs)
  BY <1>2, <1>3, PlaceHasOwner DEF Places, WalkerType
<1>5. a \in Addrs
  BY <1>2, <1>4
<1>6. reader' = Round(reader, next, res, pc)
  BY DEF WalkGetTwo, NextPlace, Round
<1>7. pc \in {"walk", "done"}
  OBVIOUS
<1>8. UNCHANGED <<circle, members, sortedHashes, count>>
  BY DEF WalkGetTwo
<1> HIDE DEF x, a, b, pc
<1>9. res \in Seq(Addrs) /\ res # <<>>
  BY <1>4, <1>5
<1>10. next \in Nat
  BY <1>4
<1> HIDE DEF res, next
<1>11. /\ reader' \in WalkerType /\ Kept
       /\ reader'.i = next /\ reader'.res = res /\ reader'.pc = pc
  <2>1. reader \in WalkerType
    BY <1>2
  <2>2. res \in Seq(Addrs)
    BY <1>9
  <2>3. /\ reader' \in WalkerType
        /\ reader'.i = next /\ reader'.res = res /\ reader'.pc = pc
        /\ reader'.op = reader.op /\ reader'.name = reader.name
        /\ reader'.asked = reader.asked /\ reader'.n = reader.n
        /\ reader'.start = reader.start
    BY <2>1, <2>2, <1>7, <1>6, <1>10, RoundFacts
  <2> QED
    BY <2>3 DEF Kept
<1> QED
  BY <1>1, <1>2, <1>3, <1>4, <1>5, <1>8, <1>9, <1>10, <1>11, Zenon DEF x, a, b, next, res, pc

LEMMA SortedInvNext ==
    ASSUME SortedInv, ReaderInv, [Next]_vars
    PROVE  SortedInv' /\ ReaderInv'
<1>1. CASE \/ \E elt \in Addrs : Add(elt) \/ Remove(elt)
           \/ \E elts \in EltLists : Set(elts)
  BY <1>1, WritesSort
<1>2. ASSUME UNCHANGED <<circle, members, sortedHashes, count>> PROVE SortedInv'
  BY <1>2 DEF SortedInv, SortedHashes
<1>3. ASSUME NEW name \in Versions, NEW n \in RequestSizes, GetN(name, n)
      PROVE  SortedInv' /\ ReaderInv'
  <2>1. /\ reader' \in WalkerType /\ reader'.res = <<OwnerAt(SearchIndex(NameHash[name]))>>
        /\ circle # EmptyCircle /\ UNCHANGED <<circle, members, sortedHashes, count>>
    BY <1>3, GetNFacts
  <2>2. ReaderInv'
    BY <2>1 DEF ReaderInv, EmptyCircle
  <2> QED
    BY <1>2, <2>1, <2>2
<1>4. ASSUME NEW name \in Versions, GetTwo(name)
      PROVE  SortedInv' /\ ReaderInv'
  <2>1. /\ reader' \in WalkerType /\ reader'.res = <<OwnerAt(SearchIndex(NameHash[name]))>>
        /\ circle # EmptyCircle /\ UNCHANGED <<circle, members, sortedHashes, count>>
    BY <1>4, GetTwoFacts
  <2>2. ReaderInv'
    BY <2>1 DEF ReaderInv, EmptyCircle
  <2> QED
    BY <1>2, <2>1, <2>2
<1>5. CASE WalkGetN
  <2>1. /\ reader' \in WalkerType /\ reader'.res # <<>>
        /\ circle # EmptyCircle /\ UNCHANGED <<circle, members, sortedHashes, count>>
    BY <1>5, WalkGetNFacts, Zenon
  <2>2. ReaderInv'
    BY <2>1 DEF ReaderInv, EmptyCircle
  <2> QED
    BY <1>2, <2>1, <2>2
<1>6. CASE WalkGetTwo
  <2>1. /\ reader' \in WalkerType /\ reader'.res # <<>>
        /\ circle # EmptyCircle /\ UNCHANGED <<circle, members, sortedHashes, count>>
    BY <1>6, WalkGetTwoFacts, Zenon
  <2>2. ReaderInv'
    BY <2>1 DEF ReaderInv, EmptyCircle
  <2> QED
    BY <1>2, <2>1, <2>2
<1>7. CASE UNCHANGED vars
  <2>1. UNCHANGED <<circle, members, sortedHashes, count>> /\ reader' = reader
    BY <1>7 DEF vars
  <2>2. ReaderInv'
    BY <2>1 DEF ReaderInv, EmptyCircle, Idle, WalkerType
  <2> QED
    BY <1>2, <2>1, <2>2
<1> QED
  BY <1>1, <1>3, <1>4, <1>5, <1>6, <1>7 DEF Next

LEMMA SortedAlways == Spec => [](SortedInv /\ ReaderInv)
<1>1. Init => SortedInv /\ ReaderInv
  BY SortedInvInit
<1>2. (SortedInv /\ ReaderInv) /\ [Next]_vars => (SortedInv /\ ReaderInv)'
  BY SortedInvNext
<1> QED
  BY <1>1, <1>2, PTL DEF Spec

(***************************************************************************)
(* After any calls, of careful callers or not and with hashes that may     *)
(* collide, the sorted keys are keys of the circle and its values are      *)
(* elements.                                                               *)
(***************************************************************************)
THEOREM RingTyping == Spec => []TypeOK
<1>1. ASSUME SortedInv, ReaderInv PROVE TypeOK
  <2>1. sortedHashes \in Seq(DOMAIN circle)
    BY <1>1, SortedHashesFacts DEF SortedInv
  <2>2. reader.pc \in {"idle", "walk", "done"}
    BY <1>1 DEF ReaderInv, Idle, WalkerType
  <2> QED
    BY <1>1, <2>1, <2>2 DEF TypeOK, SortedInv
<1> QED
  BY <1>1, SortedAlways, PTL

(***************************************************************************)
(* The binary search of Get over the sorted keys finds the owner of a name *)
(* after any calls, of careful callers or not: every write sorts the keys  *)
(* again, and there are as many places as keys.                            *)
(***************************************************************************)
THEOREM GetFindsOwner == Spec => []GetIsOwner
<1>1. SortedInv => GetIsOwner
  BY SortedGetIsOwner
<1> QED
  BY <1>1, SortedAlways, PTL

-----------------------------------------------------------------------------
(* What a walk has seen, and what it has found there.                      *)

Owners(V) == {OwnerAt(x) : x \in V}

\* The places from the start of a walk up to the one before i, past the end
\* of the sorted hashes and on from 0 if need be.
Visited(s, i) == {x \in Places : IF i > s THEN s <= x /\ x < i ELSE s <= x \/ x < i}

\* A walk from s comes to place x before it comes to y.
Precedes(s, x, y) == \/ s <= x /\ x < y
                     \/ y < s /\ s <= x
                     \/ x < y /\ y < s

\* The elements of res are the closest to the name, closest first.
Found(name, res) ==
    /\ IsInjective(res)
    /\ Range(res) \subseteq members
    /\ \A a \in DOMAIN res : \A f \in members \ {res[j] : j \in 1 .. a} :
           Closer(name, res[a], f)

LEMMA VisitedFacts ==
    ASSUME Len(sortedHashes) \in Nat, NEW s \in Places, NEW i \in 1 .. Len(sortedHashes), i # s,
           NEW x, x = IF i >= Len(sortedHashes) THEN 0 ELSE i
    PROVE  /\ x \in Places /\ x + 1 \in 1 .. Len(sortedHashes)
           /\ \/ Visited(s, i) = Places
              \/ /\ x \notin Visited(s, i)
                 /\ \A y \in Places \ (Visited(s, i) \cup {x}) : Precedes(s, x, y)
                 /\ x + 1 # s => Visited(s, x + 1) = Visited(s, i) \cup {x}
                 /\ x + 1 = s => Visited(s, i) \cup {x} = Places
<1> DEFINE L == Len(sortedHashes)
<1>1. L \in Nat /\ s \in 0 .. L - 1 /\ Places = 0 .. L - 1 /\ i \in 1 .. L
  BY DEF Places
<1> HIDE DEF L
<1>2. x = IF i >= L THEN 0 ELSE i
  BY DEF L
<1>3. x \in Places /\ x + 1 \in 1 .. L
  BY <1>1, <1>2
<1>4. CASE s = 0 /\ i = L
  <2>1. Visited(s, i) = Places
    BY <1>1, <1>4 DEF Visited
  <2> QED
    BY <1>3, <2>1 DEF L
<1>5. CASE ~(s = 0 /\ i = L)
  <2>1. x \notin Visited(s, i)
    BY <1>1, <1>2, <1>5 DEF Visited
  <2>2. ASSUME NEW y \in Places, y \notin Visited(s, i), y # x PROVE Precedes(s, x, y)
    BY <1>1, <1>2, <1>5, <2>2 DEF Visited, Precedes
  <2>3. ASSUME x + 1 # s PROVE Visited(s, x + 1) = Visited(s, i) \cup {x}
    <3>1. ASSUME NEW y \in Places
          PROVE  (IF x + 1 > s THEN s <= y /\ y < x + 1 ELSE s <= y \/ y < x + 1)
                 <=> ((IF i > s THEN s <= y /\ y < i ELSE s <= y \/ y < i) \/ y = x)
      BY <1>1, <1>2, <1>5, <2>3
    <3> QED
      BY <1>3, <3>1, Zenon DEF Visited
  <2>4. ASSUME x + 1 = s PROVE Visited(s, i) \cup {x} = Places
    <3>1. ASSUME NEW y \in Places
          PROVE  (IF i > s THEN s <= y /\ y < i ELSE s <= y \/ y < i) \/ y = x
      BY <1>1, <1>2, <1>5, <2>4
    <3> QED
      BY <1>3, <3>1, Zenon DEF Visited
  <2> QED
    BY <1>3, <2>1, <2>2, <2>3, <2>4 DEF L
<1> QED
  BY <1>4, <1>5

LEMMA FirstVisited ==
    ASSUME Len(sortedHashes) \in Nat, NEW s \in Places
    PROVE  /\ s + 1 \in 1 .. Len(sortedHashes) /\ s + 1 # s
           /\ Visited(s, s + 1) = {s}
           /\ \A y \in Places \ {s} : Precedes(s, s, y)
<1> DEFINE L == Len(sortedHashes)
<1>1. L \in Nat /\ Places = 0 .. L - 1
  BY DEF Places
<1> HIDE DEF L
<1>2. s + 1 \in 1 .. L /\ s + 1 # s
  BY <1>1
<1>3. \A y \in Places : (IF s + 1 > s THEN s <= y /\ y < s + 1 ELSE s <= y \/ y < s + 1) <=> y = s
  BY <1>1
<1>4. Visited(s, s + 1) = {s}
  BY <1>3, Zenon DEF Visited
<1>5. \A y \in Places \ {s} : Precedes(s, s, y)
  BY <1>1 DEF Precedes
<1> QED
  BY <1>2, <1>4, <1>5 DEF L

\* The order of a walk is that of the clockwise distances from the name.
LEMMA WalkOrder ==
    ASSUME SortedInv, circle # EmptyCircle, NEW key \in Nat,
           NEW x \in Places, NEW y \in Places, Precedes(SearchIndex(key), x, y)
    PROVE  Before(Clockwise(key, HashAt(x)), Clockwise(key, HashAt(y)))
<1> DEFINE s == SearchIndex(key)
           g == HashAt(x)
           h == HashAt(y)
<1>1. /\ s \in Places /\ s \in Nat /\ x \in Nat /\ y \in Nat
      /\ \/ \A z \in Places : HashAt(z) > key <=> z >= s
         \/ s = 0 /\ \A z \in Places : HashAt(z) <= key
  <2>1. \A z \in Places : z \in Nat
    BY SortedFacts DEF Places
  <2> HIDE DEF s
  <2> QED
    BY <2>1, SearchFacts DEF s
<1>2. g \in Nat /\ h \in Nat
  BY SortedFacts DEF SortedInv
<1>3. x < y => g < h
  BY SortedFacts
<1>4. Precedes(s, x, y)
  OBVIOUS
<1>5. \/ (g > key <=> x >= s) /\ (h > key <=> y >= s)
      \/ s = 0 /\ g <= key /\ h <= key
  BY <1>1
<1> HIDE DEF s, g, h
<1>6. Clockwise(key, g)[1] = (IF g > key THEN 0 ELSE 1) /\ Clockwise(key, g)[2] = g
  BY DEF Clockwise
<1>7. Clockwise(key, h)[1] = (IF h > key THEN 0 ELSE 1) /\ Clockwise(key, h)[2] = h
  BY DEF Clockwise
<1>8. CASE x < y
  <2>1. g < h
    BY <1>3, <1>8
  <2>2. g > key <=> h > key
    BY <1>1, <1>2, <1>4, <1>5, <1>8 DEF Precedes
  <2> QED
    BY <1>6, <1>7, <2>1, <2>2 DEF Before, g, h
<1>9. CASE ~(x < y)
  <2>1. y < s /\ s <= x
    BY <1>1, <1>4, <1>9 DEF Precedes
  <2>2. g > key /\ ~(h > key)
    BY <1>1, <1>5, <2>1
  <2> QED
    BY <1>6, <1>7, <2>2 DEF Before, g, h
<1> QED
  BY <1>8, <1>9

\* A hash of a member is at a place that the member owns.
LEMMA PlaceOfPoint ==
    ASSUME NoCollision, SortedInv, RingInv, NEW e \in members, NEW h \in Points(e)
    PROVE  \E x \in Places : HashAt(x) = h /\ OwnerAt(x) = e
<1>1. h \in DOMAIN circle
  BY DEF RingInv, RingIsItsMembers
<1>2. PICK x \in Places : HashAt(x) = h
  BY <1>1, SortedFacts
<1>3. OwnerAt(x) = circle[h]
  BY <1>2, PlaceHasOwner
<1>4. circle[h] \in Addrs /\ e \in Addrs /\ h \in Points(circle[h])
  BY <1>1 DEF RingInv, RingIsItsMembers
<1>5. circle[h] = e
  BY <1>4 DEF NoCollision
<1> QED
  BY <1>2, <1>3, <1>5

LEMMA OwnerIsMember ==
    ASSUME SortedInv, RingInv, NEW x \in Places
    PROVE  OwnerAt(x) \in members /\ HashAt(x) \in Points(OwnerAt(x))
<1>1. HashAt(x) \in DOMAIN circle
  BY SortedFacts
<1> QED
  BY <1>1, PlaceHasOwner DEF RingInv, RingIsItsMembers

LEMMA AllOwners ==
    ASSUME NoCollision, SortedInv, RingInv
    PROVE  Owners(Places) = members
<1>1. ASSUME NEW e \in members PROVE \E x \in Places : OwnerAt(x) = e
  <2>1. e \in Addrs
    BY DEF RingInv
  <2>2. PICK h \in Points(e) : TRUE
    BY <2>1, PointsAreHashes
  <2> QED
    BY PlaceOfPoint
<1> QED
  BY <1>1, OwnerIsMember DEF Owners

LEMMA InjectiveLength ==
    ASSUME NEW S, NEW res \in Seq(S), IsInjective(res)
    PROVE  Cardinality(Range(res)) = Len(res) /\ Len(res) \in Nat
<1>1. Len(res) \in Nat /\ DOMAIN res = 1 .. Len(res)
  OBVIOUS
<1>2. res \in [1 .. Len(res) -> Range(res)]
  BY <1>1 DEF Range
<1>3. res \in Injection(1 .. Len(res), Range(res))
  BY <1>1, <1>2 DEF Injection, IsInjective
<1>4. res \in Surjection(1 .. Len(res), Range(res))
  BY <1>1, <1>2 DEF Surjection, Range
<1>5. ExistsBijection(1 .. Len(res), Range(res))
  BY <1>3, <1>4 DEF ExistsBijection, Bijection
<1> QED
  BY <1>1, <1>5, FS_CountingElements

LEMMA FoundAll ==
    ASSUME NEW res \in Seq(Addrs), IsInjective(res), Range(res) = members
    PROVE  Len(res) = Cardinality(members)
  BY InjectiveLength

\* An element that a walk meets at a place is closer than the members it has
\* not met before and does not meet there.
LEMMA MetIsCloser ==
    ASSUME NoCollision, SortedInv, RingInv, circle # EmptyCircle, NEW name \in Versions,
           NEW V \in SUBSET Places, NEW x \in Places,
           \A y \in Places \ (V \cup {x}) : Precedes(SearchIndex(NameHash[name]), x, y),
           NEW f \in members, f \notin Owners(V), f # OwnerAt(x)
    PROVE  Closer(name, OwnerAt(x), f)
<1> DEFINE key == NameHash[name]
           h == HashAt(x)
<1>1. key \in Nat
  BY RingAssumption
<1>2. h \in Points(OwnerAt(x))
  BY OwnerIsMember
<1>3. ASSUME NEW g \in Points(f) PROVE Before(Clockwise(key, h), Clockwise(key, g))
  <2>1. PICK y \in Places : HashAt(y) = g /\ OwnerAt(y) = f
    BY PlaceOfPoint
  <2>2. y \notin V /\ y # x
    BY <2>1 DEF Owners
  <2>3. Precedes(SearchIndex(key), x, y)
    BY <2>2
  <2> QED
    BY <1>1, <2>1, <2>3, WalkOrder
<1> QED
  BY <1>2, <1>3 DEF Closer

\* A walk that has found the closest elements and meets one that is not among
\* them has found one more.
LEMMA FoundOneMore ==
    ASSUME NoCollision, SortedInv, RingInv, circle # EmptyCircle, NEW name \in Versions,
           NEW res \in Seq(Addrs), Found(name, res),
           NEW V \in SUBSET Places, Range(res) = Owners(V), NEW x \in Places,
           \A y \in Places \ (V \cup {x}) : Precedes(SearchIndex(NameHash[name]), x, y),
           OwnerAt(x) \notin Range(res)
    PROVE  LET more == Append(res, OwnerAt(x))
           IN  /\ Found(name, more) /\ Len(more) = Len(res) + 1
               /\ Range(more) = Owners(V \cup {x})
<1> DEFINE e == OwnerAt(x)
           more == Append(res, e)
           n == Len(res)
<1>1. e \in Addrs /\ e \in members
  BY PlaceHasOwner, OwnerIsMember
<1>2. n \in Nat /\ DOMAIN res = 1 .. n
  OBVIOUS
<1> HIDE DEF e
<1>3. /\ more \in Seq(Addrs) /\ Len(more) = n + 1 /\ DOMAIN more = 1 .. n + 1
      /\ \A j \in 1 .. n : more[j] = res[j]
      /\ more[n + 1] = e
  BY <1>1
<1> HIDE DEF more, n
<1>4. Range(more) = Range(res) \cup {e}
  <2>1. ASSUME NEW j \in 1 .. n + 1 PROVE more[j] \in Range(res) \cup {e}
    <3>1. j = n + 1 \/ j \in 1 .. n
      BY <1>2
    <3> QED
      BY <3>1, <1>2, <1>3 DEF Range
  <2>2. n + 1 \in 1 .. n + 1 /\ \A j \in 1 .. n : j \in 1 .. n + 1
    BY <1>2
  <2>3. e \in Range(more)
    BY <2>2, <1>3 DEF Range
  <2>4. ASSUME NEW f \in Range(res) PROVE f \in Range(more)
    <3>1. PICK j \in 1 .. n : f = res[j]
      BY <1>2 DEF Range
    <3> QED
      BY <3>1, <2>2, <1>3 DEF Range
  <2>5. \A f \in Range(more) : f \in Range(res) \cup {e}
    BY <2>1, <1>3 DEF Range
  <2> QED
    BY <2>3, <2>4, <2>5
<1>5. Owners(V \cup {x}) = Owners(V) \cup {e}
  BY DEF Owners, e
<1>6. IsInjective(more)
  <2>1. ASSUME NEW a \in 1 .. n, NEW b \in 1 .. n, res[a] = res[b] PROVE a = b
    BY <1>2, <2>1 DEF Found, IsInjective
  <2>2. \A a \in 1 .. n : res[a] # e
    BY <1>2 DEF Range, e
  <2>3. ASSUME NEW a \in 1 .. n + 1, NEW b \in 1 .. n + 1, more[a] = more[b] PROVE a = b
    <3>1. (a = n + 1 \/ a \in 1 .. n) /\ (b = n + 1 \/ b \in 1 .. n)
      BY <1>2
    <3> QED
      BY <3>1, <1>3, <2>1, <2>2, <2>3
  <2> QED
    BY <1>3, <2>3 DEF IsInjective
<1>7. ASSUME NEW a \in 1 .. n + 1, NEW f \in members \ {more[j] : j \in 1 .. a}
      PROVE  Closer(name, more[a], f)
  <2>1. CASE a \in 1 .. n
    <3>1. \A j \in 1 .. a : j \in 1 .. n
      BY <1>2, <2>1
    <3>2. {more[j] : j \in 1 .. a} = {res[j] : j \in 1 .. a}
      BY <1>3, <3>1
    <3>3. f \in members \ {res[j] : j \in 1 .. a}
      BY <3>2
    <3> QED
      BY <1>2, <1>3, <2>1, <3>3 DEF Found
  <2>2. CASE a \notin 1 .. n
    <3>1. a = n + 1
      BY <1>2, <2>2
    <3>2. f \notin Range(more)
      BY <1>3, <3>1 DEF Range
    <3>3. f \notin Owners(V) /\ f # OwnerAt(x)
      BY <3>2, <1>4 DEF e
    <3>4. Closer(name, OwnerAt(x), f)
      BY <3>3, MetIsCloser
    <3> QED
      BY <1>3, <3>1, <3>4 DEF e
  <2> QED
    BY <2>1, <2>2
<1>8. Range(more) \subseteq members
  BY <1>1, <1>4 DEF Found
<1>9. Found(name, more)
  BY <1>3, <1>6, <1>7, <1>8 DEF Found
<1> QED
  BY <1>3, <1>4, <1>5, <1>9, Zenon DEF e, more, n

\* The elements found so far: GetTwo also keeps what it last looked at.
Firsts(w) == IF w.op = "GetN" THEN w.res ELSE <<Head(w.res)>>

\* As many as there are, or as many as were asked for.
Fewest(asked) == IF Cardinality(members) < asked THEN Cardinality(members) ELSE asked

\* A walk goes on as long as it has found too few of the elements, and it has
\* found the owners of all places it has seen.
WalkOk(w) ==
    /\ w.pc = "walk" =>
          /\ w.start = SearchIndex(NameHash[w.name])
          /\ w.i \in 1 .. Len(sortedHashes) /\ w.i # w.start
          /\ Found(w.name, Firsts(w))
          /\ Range(Firsts(w)) = Owners(Visited(w.start, w.i))
          /\ Len(Firsts(w)) < w.n
          /\ w.n = Fewest(w.asked)
          /\ w.op = "GetTwo" => w.asked = 2
    /\ w.pc = "done" => ClosestDistinct(w.name, w.asked, w.res)

WalkInv == WalkOk(reader)

AllInv == NoCollision /\ SortedInv /\ ReaderInv /\ RingInv /\ WalkInv

LEMMA FoundIsClosest ==
    ASSUME NEW name \in Versions, NEW asked, NEW res, Found(name, res), Len(res) = Fewest(asked)
    PROVE  ClosestDistinct(name, asked, res)
  BY DEF Found, ClosestDistinct, Fewest

LEMMA FewestFacts ==
    ASSUME RingInv, NEW asked \in Nat
    PROVE  /\ Fewest(asked) \in Nat /\ Fewest(asked) <= Cardinality(members)
           /\ Fewest(asked) <= asked /\ Cardinality(members) \in Nat
           /\ Fewest(asked) = IF count < asked THEN count ELSE asked
<1>1. Cardinality(members) \in Nat /\ count = Cardinality(members)
  BY FS_CardinalityType DEF RingInv, RingIsItsMembers
<1> QED
  BY <1>1 DEF Fewest

LEMMA SomeMember ==
    ASSUME SortedInv, RingInv, circle # EmptyCircle
    PROVE  count \in Nat \ {0}
<1>1. Len(sortedHashes) > 0 /\ Len(sortedHashes) \in Nat
  BY SortedFacts
<1>2. 0 \in Places
  BY <1>1 DEF Places
<1>3. members # {}
  BY <1>2, OwnerIsMember
<1> QED
  BY <1>3, FS_EmptySet, FS_CardinalityType DEF RingInv, RingIsItsMembers

\* The element a call starts with.
LEMMA FirstIsFound ==
    ASSUME NoCollision, SortedInv, RingInv, circle # EmptyCircle, NEW name \in Versions
    PROVE  LET s == SearchIndex(NameHash[name])
               res == <<OwnerAt(s)>>
           IN  /\ s \in Places /\ s + 1 \in 1 .. Len(sortedHashes) /\ s + 1 # s
               /\ Found(name, res) /\ Len(res) = 1 /\ res = <<Head(res)>>
               /\ Range(res) = Owners(Visited(s, s + 1))
<1> DEFINE s == SearchIndex(NameHash[name])
           res == <<OwnerAt(s)>>
<1>1. NameHash[name] \in Nat
  BY RingAssumption
<1>2. s \in Places /\ Len(sortedHashes) \in Nat
  BY <1>1, SearchFacts, SortedFacts
<1>3. /\ s + 1 \in 1 .. Len(sortedHashes) /\ s + 1 # s
      /\ Visited(s, s + 1) = {s}
      /\ \A y \in Places \ {s} : Precedes(s, s, y)
  BY <1>2, FirstVisited
<1>4. OwnerAt(s) \in Addrs
  BY <1>2, PlaceHasOwner
<1>5. /\ <<>> \in Seq(Addrs) /\ Found(name, <<>>)
      /\ Range(<<>>) = {} /\ Owners({}) = {}
  BY DEF Found, IsInjective, Range, Owners
<1>6. \A y \in Places \ ({} \cup {s}) : Precedes(s, s, y)
  BY <1>3
<1>7. /\ Found(name, Append(<<>>, OwnerAt(s)))
      /\ Range(Append(<<>>, OwnerAt(s))) = Owners({} \cup {s})
  <2> DEFINE none == <<>>
             V == {}
             x == s
  <2>1. /\ none \in Seq(Addrs) /\ Found(name, none) /\ Range(none) = Owners(V)
        /\ V \in SUBSET Places /\ OwnerAt(x) \notin Range(none) /\ x \in Places
    BY <1>2, <1>5
  <2>2. \A y \in Places \ (V \cup {x}) : Precedes(SearchIndex(NameHash[name]), x, y)
    BY <1>6
  <2> HIDE DEF none, V, x
  <2>3. /\ Found(name, Append(none, OwnerAt(x)))
        /\ Range(Append(none, OwnerAt(x))) = Owners(V \cup {x})
    BY <2>1, <2>2, FoundOneMore
  <2> QED
    BY <2>3 DEF none, V, x
<1>8. Append(<<>>, OwnerAt(s)) = res /\ Len(res) = 1 /\ res = <<Head(res)>>
  BY <1>4
<1>9. {} \cup {s} = {s}
  OBVIOUS
<1> QED
  BY <1>2, <1>3, <1>7, <1>8, <1>9, Zenon

\* A round of a walk that goes on: it meets an element it has found before, and
\* then there are places left; or it finds one more.
LEMMA RoundFinds ==
    ASSUME AllInv, reader \in WalkerType, reader.pc = "walk", circle # EmptyCircle,
           Firsts(reader) \in Seq(Addrs)
    PROVE  LET x == NextPlace
               res == Firsts(reader)
               more == Append(res, OwnerAt(x))
           IN  /\ x \in Places /\ x + 1 \in 1 .. Len(sortedHashes)
               /\ Len(res) \in Nat
               /\ \/ /\ OwnerAt(x) \in Range(res) /\ x + 1 # reader.start
                     /\ Range(res) = Owners(Visited(reader.start, x + 1))
                  \/ /\ OwnerAt(x) \notin Range(res)
                     /\ Found(reader.name, more) /\ Len(more) = Len(res) + 1
                     /\ Len(more) <= reader.n
                     /\ x + 1 = reader.start => Len(more) = reader.n
                     /\ x + 1 # reader.start =>
                           Range(more) = Owners(Visited(reader.start, x + 1))
<1> DEFINE x == NextPlace
           s == reader.start
           i == reader.i
           n == reader.n
           name == reader.name
           V == Visited(s, i)
           res == Firsts(reader)
           more == Append(res, OwnerAt(x))
<1>1. /\ s = SearchIndex(NameHash[name]) /\ i \in 1 .. Len(sortedHashes) /\ i # s
      /\ Found(name, res) /\ Range(res) = Owners(V) /\ Len(res) < n
      /\ n = Fewest(reader.asked) /\ reader.asked \in Nat /\ name \in Versions
  BY DEF AllInv, WalkInv, WalkOk, WalkerType
<1>2. NameHash[name] \in Nat
  BY <1>1, RingAssumption
<1>3. s \in Places /\ Len(sortedHashes) \in Nat
  BY <1>1, <1>2, SearchFacts, SortedFacts DEF AllInv
<1>4. x = IF i >= Len(sortedHashes) THEN 0 ELSE i
  BY DEF NextPlace
<1>5. res \in Seq(Addrs) /\ V \in SUBSET Places
  BY DEF Visited
<1> HIDE DEF x, s, i, n, name, V, res, more
<1>6. /\ x \in Places /\ x + 1 \in 1 .. Len(sortedHashes)
      /\ \/ V = Places
         \/ /\ x \notin V
            /\ \A y \in Places \ (V \cup {x}) : Precedes(s, x, y)
            /\ x + 1 # s => Visited(s, x + 1) = V \cup {x}
            /\ x + 1 = s => V \cup {x} = Places
  BY <1>1, <1>3, <1>4, VisitedFacts DEF V
<1>7. Len(res) \in Nat /\ n \in Nat /\ n <= Cardinality(members) /\ Cardinality(members) \in Nat
  <2>1. Len(res) \in Nat
    BY <1>5
  <2>2. n \in Nat /\ n <= Cardinality(members) /\ Cardinality(members) \in Nat
    BY <1>1, FewestFacts DEF AllInv
  <2> QED
    BY <2>1, <2>2
<1>8. ASSUME NEW r \in Seq(Addrs), Found(name, r), Range(r) = Owners(Places)
      PROVE  Len(r) = Cardinality(members)
  BY <1>8, AllOwners, FoundAll DEF AllInv, Found
<1>9. V # Places
  <2> SUFFICES ASSUME V = Places PROVE FALSE
    OBVIOUS
  <2>1. Len(res) = Cardinality(members)
    BY <1>1, <1>5, <1>8
  <2> QED
    BY <2>1, <1>1, <1>7
<1>10. Owners(V \cup {x}) = Owners(V) \cup {OwnerAt(x)}
  BY DEF Owners
<1>11. CASE OwnerAt(x) \in Range(res)
  <2>1. Range(res) = Owners(V \cup {x})
    BY <1>1, <1>10, <1>11
  <2>2. x + 1 # s
    <3> SUFFICES ASSUME x + 1 = s PROVE FALSE
      OBVIOUS
    <3>1. Range(res) = Owners(Places)
      BY <2>1, <1>6, <1>9
    <3>2. Len(res) = Cardinality(members)
      BY <1>1, <1>5, <1>8, <3>1
    <3> QED
      BY <3>2, <1>1, <1>7
  <2>3. Range(res) = Owners(Visited(s, x + 1))
    BY <2>1, <2>2, <1>6, <1>9
  <2> QED
    BY <1>6, <1>7, <1>11, <2>2, <2>3 DEF x, s, res
<1>12. CASE OwnerAt(x) \notin Range(res)
  <2>1. /\ Found(name, more) /\ Len(more) = Len(res) + 1
        /\ Range(more) = Owners(V \cup {x})
    BY <1>1, <1>5, <1>6, <1>9, <1>12, FoundOneMore DEF AllInv, more
  <2>2. Len(more) <= n
    BY <2>1, <1>1, <1>7
  <2>3. ASSUME x + 1 = s PROVE Len(more) = n
    <3>1. Range(more) = Owners(Places)
      BY <2>1, <2>3, <1>6, <1>9
    <3>2. more \in Seq(Addrs)
      BY <1>5, <1>6, PlaceHasOwner DEF more, AllInv
    <3>3. Len(more) = Cardinality(members)
      BY <2>1, <3>1, <3>2, <1>8
    <3> QED
      BY <2>2, <3>3, <1>7
  <2>4. x + 1 # s => Range(more) = Owners(Visited(s, x + 1))
    BY <2>1, <1>6, <1>9
  <2> QED
    BY <1>6, <1>7, <1>12, <2>1, <2>2, <2>3, <2>4, Zenon DEF x, s, n, name, res, more
<1> QED
  BY <1>11, <1>12

\* A step that leaves the ring as it is and makes a good walk.
LEMMA SameRing ==
    ASSUME UNCHANGED <<circle, members, sortedHashes, count>>, WalkOk(reader')
    PROVE  WalkInv'
<1>1. \A key : SearchIndex(key)' = SearchIndex(key)
  BY DEF SearchIndex
<1>2. \A name, res : Found(name, res)' = Found(name, res)
  BY DEF Found, Closer
<1>3. \A s, i : Owners(Visited(s, i))' = Owners(Visited(s, i))
  BY DEF Owners, Visited, Places, OwnerAt
<1>4. \A n : Fewest(n)' = Fewest(n)
  BY DEF Fewest
<1>5. \A name, n, res : ClosestDistinct(name, n, res)' = ClosestDistinct(name, n, res)
  BY DEF ClosestDistinct, Closer
<1>6. Len(sortedHashes)' = Len(sortedHashes)
  OBVIOUS
<1> QED
  BY <1>1, <1>2, <1>3, <1>4, <1>5, <1>6 DEF WalkInv, WalkOk, Firsts

LEMMA CallsAreOk ==
    ASSUME AllInv, NEW name \in Versions, GetTwo(name) \/ \E n \in RequestSizes : GetN(name, n)
    PROVE  WalkInv'
<1> DEFINE s == SearchIndex(NameHash[name])
           first == <<OwnerAt(s)>>
<1>1. ASSUME circle # EmptyCircle
      PROVE  /\ s + 1 \in 1 .. Len(sortedHashes) /\ s + 1 # s
             /\ Found(name, first) /\ Len(first) = 1 /\ first = <<Head(first)>>
             /\ Range(first) = Owners(Visited(s, s + 1))
             /\ count \in Nat \ {0} /\ count = Cardinality(members)
  BY <1>1, FirstIsFound, SomeMember DEF AllInv, RingInv, RingIsItsMembers
<1> HIDE DEF s, first
<1>2. ASSUME NEW n \in RequestSizes, GetN(name, n) PROVE WalkInv'
  <2> DEFINE w == reader'
  <2>1. /\ circle # EmptyCircle
        /\ n \in Nat \ {0} /\ Want(n) \in Nat
        /\ w.res = first
        /\ w.pc = IF Want(n) = 1 THEN "done" ELSE "walk"
        /\ w.op = "GetN" /\ w.name = name /\ w.asked = n
        /\ w.n = Want(n)
        /\ w.start = s /\ w.i = w.start + 1
        /\ UNCHANGED <<circle, members, sortedHashes, count>>
    BY <1>2, GetNFacts DEF AllInv, s, first
  <2> HIDE DEF w
  <2>2. Want(n) = Fewest(n) /\ Want(n) # 0
    BY <1>1, <2>1 DEF Want, Fewest
  <2>3. Firsts(w) = first
    BY <2>1 DEF Firsts
  <2>4. CASE Want(n) = 1
    <3>1. ClosestDistinct(name, n, first)
      BY <1>1, <2>1, <2>2, <2>4, FoundIsClosest
    <3>2. WalkOk(w)
      BY <2>1, <2>4, <3>1 DEF WalkOk
    <3> QED
      BY <2>1, <3>2, SameRing DEF w
  <2>5. CASE Want(n) # 1
    <3>0. Len(first) = 1
      BY <1>1, <2>1
    <3>1. w.pc = "walk" /\ Len(first) < Want(n)
      BY <2>1, <2>2, <2>5, <3>0
    <3>2. WalkOk(w)
      BY <1>1, <2>1, <2>2, <2>3, <3>1 DEF WalkOk, s
    <3> QED
      BY <2>1, <3>2, SameRing DEF w
  <2> QED
    BY <2>4, <2>5
<1>3. CASE GetTwo(name)
  <2> DEFINE w == reader'
  <2>1. /\ circle # EmptyCircle
        /\ w.res = first
        /\ w.pc = IF count = 1 THEN "done" ELSE "walk"
        /\ w.op = "GetTwo" /\ w.name = name /\ w.asked = 2
        /\ w.n = 2
        /\ w.start = s /\ w.i = w.start + 1
        /\ UNCHANGED <<circle, members, sortedHashes, count>>
    BY <1>3, GetTwoFacts DEF AllInv, s, first
  <2> HIDE DEF w
  <2>2. Firsts(w) = first
    BY <1>1, <2>1 DEF Firsts
  <2>3. CASE count = 1
    <3>0. Fewest(2) = 1 /\ Len(first) = 1 /\ Found(name, first)
      BY <1>1, <2>1, <2>3 DEF Fewest
    <3>1. ClosestDistinct(name, 2, first)
      BY <3>0, FoundIsClosest
    <3>2. WalkOk(w)
      BY <2>1, <2>3, <3>1 DEF WalkOk
    <3> QED
      BY <2>1, <3>2, SameRing DEF w
  <2>4. CASE count # 1
    <3>0. Cardinality(members) \in Nat \ {0, 1} /\ Len(first) = 1
      BY <1>1, <2>1, <2>4
    <3>1. w.pc = "walk" /\ Len(first) < 2 /\ Fewest(2) = 2
      BY <2>1, <2>4, <3>0 DEF Fewest
    <3>2. WalkOk(w)
      BY <1>1, <2>1, <2>2, <3>1 DEF WalkOk, s
    <3> QED
      BY <2>1, <3>2, SameRing DEF w
  <2> QED
    BY <2>3, <2>4
<1> QED
  BY <1>2, <1>3

LEMMA GetNStaysOk ==
    ASSUME AllInv, WalkGetN
    PROVE  WalkInv'
<1> DEFINE x == NextPlace
           res == reader.res
           more == Append(res, OwnerAt(x))
           res1 == IF OwnerAt(x) \in Range(res) THEN res ELSE more
           s == reader.start
           n == reader.n
           name == reader.name
           w == reader'
<1>1. /\ reader \in WalkerType /\ reader.pc = "walk" /\ reader.op = "GetN"
      /\ circle # EmptyCircle /\ Kept
      /\ w.i = x + 1 /\ w.res = res1
      /\ w.pc = IF Len(res1) = n \/ x + 1 = s THEN "done" ELSE "walk"
      /\ UNCHANGED <<circle, members, sortedHashes, count>>
  BY WalkGetNFacts DEF AllInv
<1>2. Firsts(reader) = res /\ res \in Seq(Addrs)
  BY <1>1 DEF Firsts, WalkerType
<1>3. /\ s = SearchIndex(NameHash[name])
      /\ Found(name, res) /\ Len(res) < n /\ n = Fewest(reader.asked)
      /\ reader.asked \in Nat /\ name \in Versions /\ n \in Nat
  BY <1>1, <1>2 DEF AllInv, WalkInv, WalkOk, WalkerType
<1>4. /\ x + 1 \in 1 .. Len(sortedHashes)
      /\ Len(res) \in Nat
      /\ \/ /\ OwnerAt(x) \in Range(res) /\ x + 1 # s
            /\ Range(res) = Owners(Visited(s, x + 1))
         \/ /\ OwnerAt(x) \notin Range(res)
            /\ Found(name, more) /\ Len(more) = Len(res) + 1
            /\ Len(more) <= n
            /\ x + 1 = s => Len(more) = n
            /\ x + 1 # s => Range(more) = Owners(Visited(s, x + 1))
  BY <1>1, <1>2, RoundFinds
<1>5. /\ w.op = "GetN" /\ w.name = name /\ w.asked = reader.asked /\ w.n = n /\ w.start = s
  BY <1>1 DEF Kept
<1>6. Firsts(w) = w.res
  BY <1>5 DEF Firsts
<1> HIDE DEF x, s, n, name, w, res, more
<1>7. CASE OwnerAt(x) \in Range(res)
  <2>1. w.res = res /\ w.pc = "walk" /\ x + 1 # s /\ Range(res) = Owners(Visited(s, x + 1))
    BY <1>1, <1>3, <1>4, <1>7
  <2>2. WalkOk(w)
    BY <1>1, <1>3, <1>4, <1>5, <1>6, <2>1 DEF WalkOk
  <2> QED
    BY <1>1, <2>2, SameRing DEF w
<1>8. CASE OwnerAt(x) \notin Range(res)
  <2>1. /\ w.res = more
        /\ Found(name, more) /\ Len(more) \in Nat /\ Len(more) <= n
        /\ x + 1 = s => Len(more) = n
        /\ x + 1 # s => Range(more) = Owners(Visited(s, x + 1))
    BY <1>1, <1>4, <1>8
  <2>2. CASE Len(more) = n
    <3>1. ClosestDistinct(name, reader.asked, more)
      BY <1>3, <2>1, <2>2, FoundIsClosest
    <3>2. w.pc = "done"
      BY <1>1, <1>8, <2>2
    <3>3. WalkOk(w)
      BY <1>5, <2>1, <3>1, <3>2 DEF WalkOk
    <3> QED
      BY <1>1, <3>3, SameRing DEF w
  <2>3. CASE Len(more) # n
    <3>1. w.pc = "walk" /\ x + 1 # s /\ Len(more) < n
      BY <1>1, <1>3, <1>8, <2>1, <2>3
    <3>2. WalkOk(w)
      BY <1>1, <1>3, <1>4, <1>5, <1>6, <2>1, <3>1 DEF WalkOk
    <3> QED
      BY <1>1, <3>2, SameRing DEF w
  <2> QED
    BY <2>2, <2>3
<1> QED
  BY <1>7, <1>8

LEMMA AppendPair ==
    ASSUME NEW S, NEW a \in S, NEW b \in S
    PROVE  Append(<<a>>, b) = <<a, b>>
<1> DEFINE p == Append(<<a>>, b)
           q == <<a, b>>
<1>1. p \in Seq(S) /\ Len(p) = 2 /\ p[1] = a /\ p[2] = b
  OBVIOUS
<1>2. q \in Seq(S) /\ Len(q) = 2 /\ q[1] = a /\ q[2] = b
  OBVIOUS
<1> HIDE DEF p, q
<1>3. p \in [1 .. 2 -> S] /\ q \in [1 .. 2 -> S]
  BY <1>1, <1>2
<1>4. \A j \in 1 .. 2 : p[j] = q[j]
  BY <1>1, <1>2
<1>5. p = q
  BY <1>3, <1>4
<1> QED
  BY <1>5 DEF p, q

LEMMA GetTwoStaysOk ==
    ASSUME AllInv, WalkGetTwo
    PROVE  WalkInv'
<1> DEFINE x == NextPlace
           a == Head(reader.res)
           b == OwnerAt(x)
           res == <<a>>
           more == Append(res, b)
           s == reader.start
           n == reader.n
           name == reader.name
           w == reader'
<1>1. /\ reader \in WalkerType /\ reader.pc = "walk" /\ reader.op = "GetTwo"
      /\ circle # EmptyCircle /\ Kept /\ a \in Addrs /\ b \in Addrs
      /\ w.i = x + 1 /\ w.res = <<a, b>>
      /\ w.pc = IF b # a \/ x + 1 = s THEN "done" ELSE "walk"
      /\ UNCHANGED <<circle, members, sortedHashes, count>>
  BY WalkGetTwoFacts DEF AllInv
<1>2. Firsts(reader) = res /\ res \in Seq(Addrs)
  BY <1>1 DEF Firsts
<1>3. /\ s = SearchIndex(NameHash[name])
      /\ Found(name, res) /\ Len(res) < n /\ n = Fewest(reader.asked)
      /\ reader.asked = 2 /\ name \in Versions /\ n \in Nat
  BY <1>1, <1>2 DEF AllInv, WalkInv, WalkOk, WalkerType
<1>4. /\ x + 1 \in 1 .. Len(sortedHashes)
      /\ \/ /\ b \in Range(res) /\ x + 1 # s
            /\ Range(res) = Owners(Visited(s, x + 1))
         \/ /\ b \notin Range(res)
            /\ Found(name, more) /\ Len(more) = Len(res) + 1 /\ Len(more) <= n
  BY <1>1, <1>2, RoundFinds
<1>5. /\ w.op = "GetTwo" /\ w.name = name /\ w.asked = 2 /\ w.n = n /\ w.start = s
  BY <1>1, <1>3 DEF Kept
<1>6. Firsts(w) = res /\ Len(res) = 1 /\ Range(res) = {a}
  BY <1>1, <1>5 DEF Firsts, Range
<1>7. n = 2
  <2>1. n <= 2
    BY <1>3, FewestFacts DEF AllInv
  <2> QED
    BY <2>1, <1>3, <1>6
<1>8. more = <<a, b>>
  <2>1. a \in Addrs /\ b \in Addrs
    BY <1>1
  <2> HIDE DEF a, b
  <2> QED
    BY <2>1, AppendPair
<1> HIDE DEF x, s, n, name, w, res, more, a, b
<1>9. CASE b = a
  <2>1. b \in Range(res)
    BY <1>6, <1>9
  <2>2. w.pc = "walk" /\ x + 1 # s /\ Range(res) = Owners(Visited(s, x + 1))
    BY <1>1, <1>4, <1>9, <2>1
  <2>3. WalkOk(w)
    BY <1>1, <1>3, <1>4, <1>5, <1>6, <2>2 DEF WalkOk
  <2> QED
    BY <1>1, <2>3, SameRing DEF w
<1>10. CASE b # a
  <2>1. Found(name, more) /\ Len(more) = 2
    BY <1>4, <1>6, <1>10
  <2>2. ClosestDistinct(name, 2, more)
    BY <1>3, <1>7, <2>1, FoundIsClosest
  <2>3. w.pc = "done" /\ w.res = more
    BY <1>1, <1>8, <1>10
  <2>4. WalkOk(w)
    BY <1>5, <2>2, <2>3 DEF WalkOk
  <2> QED
    BY <1>1, <2>4, SameRing DEF w
<1> QED
  BY <1>9, <1>10

LEMMA WalkInvNext ==
    ASSUME AllInv, [Next]_vars
    PROVE  WalkInv'
<1>1. CASE \/ \E elt \in Addrs : Add(elt) \/ Remove(elt)
           \/ \E elts \in EltLists : Set(elts)
  <2>1. reader' = Idle
    BY <1>1 DEF Add, Remove, Set
  <2> QED
    BY <2>1 DEF WalkInv, WalkOk, Idle
<1>2. CASE UNCHANGED vars
  <2>1. UNCHANGED <<circle, members, sortedHashes, count>> /\ reader' = reader
    BY <1>2 DEF vars
  <2>2. WalkOk(reader')
    BY <2>1 DEF AllInv, WalkInv
  <2> QED
    BY <2>1, <2>2, SameRing
<1> QED
  BY <1>1, <1>2, CallsAreOk, GetNStaysOk, GetTwoStaysOk DEF Next

LEMMA CarefulWalksAreOk ==
    Careful => (Spec => [](SortedInv /\ ReaderInv /\ RingInv /\ WalkInv))
<1> SUFFICES ASSUME Careful PROVE Spec => [](SortedInv /\ ReaderInv /\ RingInv /\ WalkInv)
  OBVIOUS
<1> DEFINE Inv == SortedInv /\ ReaderInv /\ RingInv /\ WalkInv
<1>1. Init => Inv
  <2>1. Init => WalkInv
    BY DEF Init, Idle, WalkInv, WalkOk
  <2> QED
    BY <2>1, SortedInvInit, RingInvInit
<1>2. Inv /\ [Next]_vars => Inv'
  <2> SUFFICES ASSUME Inv, [Next]_vars PROVE Inv'
    OBVIOUS
  <2>1. AllInv
    BY DEF AllInv, Careful
  <2> QED
    BY <2>1, WalkInvNext, SortedInvNext, RingInvNext
<1> QED
  BY <1>1, <1>2, PTL DEF Spec

(***************************************************************************)
(* With careful callers and hashes that do not collide, GetN and GetTwo    *)
(* return the closest distinct elements, closest first, as many as asked   *)
(* for or all of them: a walk that has seen every place has found every    *)
(* element, so that the wrap to index 0 never makes it miss one.           *)
(***************************************************************************)
THEOREM CarefulWalksFindTheClosest == Careful => (Spec => []WalksFindTheClosest)
<1>1. WalkInv => WalksFindTheClosest
  BY DEF WalkInv, WalkOk, WalksFindTheClosest
<1> QED
  BY <1>1, CarefulWalksAreOk, PTL

-----------------------------------------------------------------------------
(***************************************************************************)
(* Why a walk ends (WalksEnd): each round comes closer to the end.  That   *)
(* rounds follow each other is left to the fairness of Spec.               *)
(***************************************************************************)
\* The places that a walk has not seen: up to its start, round the end if need be.
PlacesLeft ==
    IF NextPlace < reader.start THEN reader.start - NextPlace
    ELSE Len(sortedHashes) - NextPlace + reader.start

WalksShorten ==
    [][reader.pc = "walk" =>
           \/ reader'.pc = "done"
           \/ reader'.pc = "walk" /\ PlacesLeft' \in Nat /\ PlacesLeft' < PlacesLeft]_vars

\* A walk that goes on has not seen all places: it would have found every element.  In
\* particular one that started at index 0 is not at the end of the sorted hashes, from
\* where it would begin anew.
LEMMA WalkIsNotOver ==
    ASSUME AllInv, reader \in WalkerType, reader.pc = "walk", Firsts(reader) \in Seq(Addrs)
    PROVE  /\ reader.start \in Places /\ reader.i \in 1 .. Len(sortedHashes)
           /\ Len(sortedHashes) \in Nat /\ Places = 0 .. Len(sortedHashes) - 1
           /\ reader.start = 0 => reader.i # Len(sortedHashes)
<1> DEFINE s == reader.start
           i == reader.i
           n == reader.n
           L == Len(sortedHashes)
           res == Firsts(reader)
<1>1. /\ s = SearchIndex(NameHash[reader.name]) /\ i \in 1 .. L
      /\ Found(reader.name, res) /\ Range(res) = Owners(Visited(s, i)) /\ Len(res) < n
      /\ n = Fewest(reader.asked) /\ reader.asked \in Nat /\ reader.name \in Versions
  BY DEF AllInv, WalkInv, WalkOk, WalkerType
<1>2. L \in Nat /\ circle # EmptyCircle
  <2>1. L \in Nat
    BY SortedFacts DEF AllInv
  <2>2. DOMAIN circle # {}
    BY <1>1, <2>1, SortedFacts DEF AllInv, Places
  <2> QED
    BY <2>1, <2>2 DEF EmptyCircle
<1>3. s \in Places
  <2>1. NameHash[reader.name] \in Nat
    BY <1>1, RingAssumption
  <2> QED
    BY <1>1, <1>2, <2>1, SearchFacts DEF AllInv
<1>4. ASSUME s = 0, i = L PROVE FALSE
  <2>1. Visited(s, i) = Places
    BY <1>1, <1>2, <1>4 DEF Visited, Places
  <2>2. Range(res) = members
    BY <1>1, <2>1, AllOwners DEF AllInv
  <2>3. Len(res) = Cardinality(members)
    BY <1>1, <2>2, FoundAll DEF Found
  <2>4. n <= Cardinality(members) /\ Cardinality(members) \in Nat /\ n \in Nat
    BY <1>1, FewestFacts DEF AllInv
  <2> QED
    BY <1>1, <2>3, <2>4
<1> QED
  BY <1>1, <1>2, <1>3, <1>4 DEF Places

LEMMA FirstsType ==
    ASSUME ReaderInv, reader.pc = "walk"
    PROVE  reader \in WalkerType /\ Firsts(reader) \in Seq(Addrs)
<1>1. reader \in WalkerType /\ reader.res # <<>> /\ reader.res \in Seq(Addrs)
  BY DEF ReaderInv, Idle, WalkerType
<1>2. Head(reader.res) \in Addrs
  BY <1>1
<1>3. <<Head(reader.res)>> \in Seq(Addrs)
  BY <1>2
<1> QED
  BY <1>1, <1>3 DEF Firsts

NotOver == reader.pc = "walk" /\ reader.start = 0 => reader.i # Len(sortedHashes)

LEMMA RoundShortens ==
    ASSUME AllInv, NotOver', reader.pc = "walk", reader'.pc = "walk", WalkGetN \/ WalkGetTwo
    PROVE  PlacesLeft' \in Nat /\ PlacesLeft' < PlacesLeft
<1> DEFINE s == reader.start
           i == reader.i
           x == NextPlace
           y == NextPlace'
           L == Len(sortedHashes)
<1>1. /\ s \in 0 .. L - 1 /\ i \in 1 .. L /\ L \in Nat /\ (s = 0 => i # L)
  BY FirstsType, WalkIsNotOver DEF AllInv
<1>2. x = IF i >= L THEN 0 ELSE i
  BY DEF NextPlace
<1>3. reader'.i = x + 1 /\ reader'.start = s /\ sortedHashes' = sortedHashes /\ x + 1 # s
  <2>1. CASE WalkGetN
    BY <2>1, WalkGetNFacts DEF AllInv, Kept
  <2>2. CASE WalkGetTwo
    BY <2>2, WalkGetTwoFacts DEF AllInv, Kept
  <2> QED
    BY <2>1, <2>2
<1>4. s = 0 => x + 1 # L
  BY <1>3 DEF NotOver
<1>5. y = IF x + 1 >= L THEN 0 ELSE x + 1
  BY <1>3 DEF NextPlace
<1>6. PlacesLeft = IF x < s THEN s - x ELSE L - x + s
  BY DEF PlacesLeft
<1>7. PlacesLeft' = IF y < s THEN s - y ELSE L - y + s
  BY <1>3 DEF PlacesLeft
<1> HIDE DEF s, i, x, y, L
<1> QED
  BY <1>1, <1>2, <1>3, <1>4, <1>5, <1>6, <1>7

(***************************************************************************)
(* With careful callers and hashes that do not collide, the loops of GetN  *)
(* and GetTwo (consistent.go:163-171, 202-213) come closer to their end    *)
(* with each round, also after the wrap to index 0 and for a walk that     *)
(* starts there, which never meets its start again: no walk makes more     *)
(* rounds than there are hashes.                                           *)
(***************************************************************************)
THEOREM CarefulWalksShorten == Careful => (Spec => WalksShorten)
<1> SUFFICES ASSUME Careful PROVE Spec => WalksShorten
  OBVIOUS
<1> DEFINE Inv == SortedInv /\ ReaderInv /\ RingInv /\ WalkInv
           Shorter == reader.pc = "walk" =>
                         \/ reader'.pc = "done"
                         \/ reader'.pc = "walk" /\ PlacesLeft' \in Nat /\ PlacesLeft' < PlacesLeft
<1>1. Spec => [](Inv /\ NotOver)
  <2>1. Inv => NotOver
    BY FirstsType, WalkIsNotOver DEF AllInv, Careful, NotOver
  <2> QED
    BY <2>1, CarefulWalksAreOk, PTL
<1>2. Inv /\ NotOver' /\ [Next]_vars => [Shorter]_vars
  <2> SUFFICES ASSUME Inv, NotOver', Next, reader.pc = "walk" PROVE Shorter
    OBVIOUS
  <2>1. AllInv
    BY DEF AllInv, Careful
  <2>2. WalkGetN \/ WalkGetTwo
    BY DEF Next, Add, Remove, Set, WriteLock, GetN, GetTwo
  <2>3. reader'.pc \in {"walk", "done"}
    BY <2>1, <2>2, WalkGetNFacts, WalkGetTwoFacts DEF AllInv
  <2> QED
    BY <2>1, <2>2, <2>3, RoundShortens
<1>3. Spec => [][Shorter]_vars
  BY <1>1, <1>2, PTL DEF Spec
<1> QED
  BY <1>3 DEF WalksShorten
=============================================================================
