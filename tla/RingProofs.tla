----------------------------- MODULE RingProofs -----------------------------
(***************************************************************************)
(* Facts about the circle of Ring, for any elements, names and hashes: the *)
(* circle that SetAddr makes of a list is that of the loop it stands for   *)
(* (PutAllIsTheLoop), does not depend on the order of the list             *)
(* (OrderOfServersIsFree), and differs little from that of another list    *)
(* (RebuildsDisturbLittle).                                                *)
(***************************************************************************)
EXTENDS Ring, Sequences, WellFoundedInduction, TLAPS

\* A nonempty set of naturals has a least member, which Least gives.
LEMMA LeastIsLeast ==
    ASSUME NEW S \in SUBSET Nat, S # {}
    PROVE  Least(S) \in S /\ \A g \in S : Least(S) <= g
<1> DEFINE Lt == OpToRel(<, Nat)
<1>0. Lt = {ss \in Nat \X Nat : ss[1] < ss[2]}
  BY Zenon DEF OpToRel
<1>1. \A x, y \in Nat : x < y => <<x, y>> \in Lt
  BY <1>0
<1>2. IsWellFoundedOn(Lt, Nat)
  BY NatLessThanWellFounded
<1> HIDE DEF Lt
<1>3. PICK h \in S : \A g \in S : ~(<<g, h>> \in Lt)
  BY <1>2, WFMin
<1>4. ASSUME NEW g \in S PROVE h <= g
  <2>1. ~(<<g, h>> \in Lt)
    BY <1>3
  <2>2. g \in Nat /\ h \in Nat
    OBVIOUS
  <2>3. ~(g < h)
    BY <2>1, <2>2, <1>1
  <2> QED
    BY <2>2, <2>3
<1> QED
  BY <1>4 DEF Least

\* A nonempty set of indices of a sequence has a greatest member.
LEMMA GreatestExists ==
    ASSUME NEW n \in Nat, NEW S \in SUBSET (1 .. n), S # {}
    PROVE  \E i \in S : \A j \in S : j <= i
<1> DEFINE T == {m \in Nat : n - m \in S}
<1>1. PICK s \in S : TRUE
  OBVIOUS
<1>2. n - s \in T
  BY <1>1
<1>3. Least(T) \in T /\ \A g \in T : Least(T) <= g
  BY <1>2, LeastIsLeast
<1> DEFINE m == Least(T)
<1>4. n - m \in S /\ m \in Nat
  BY <1>3
<1>5. ASSUME NEW j \in S PROVE j <= n - m
  <2>1. n - j \in T
    OBVIOUS
  <2>2. m <= n - j
    BY <2>1, <1>3
  <2> QED
    BY <2>2, <1>4
<1> QED
  BY <1>4, <1>5

\* The point a key falls on is one of the circle.
LEMMA NextPointOnCircle ==
    ASSUME NEW hashes \in SUBSET Nat, hashes # {}, NEW key \in Nat
    PROVE  NextPoint(hashes, key) \in hashes
<1> DEFINE above == {h \in hashes : h > key}
<1>1. CASE above # {}
  <2>1. Least(above) \in above
    BY <1>1, LeastIsLeast
  <2> QED
    BY <1>1, <2>1 DEF NextPoint
<1>2. CASE above = {}
  <2>1. Least(hashes) \in hashes
    BY LeastIsLeast
  <2> QED
    BY <1>2, <2>1 DEF NextPoint
<1> QED
  BY <1>1, <1>2

\* The virtual nodes of an element are natural numbers, and there is one.
LEMMA PointsAreHashes ==
    ASSUME NEW elt \in Addrs
    PROVE  Points(elt) \subseteq Nat /\ Points(elt) # {}
<1>1. 0 \in Replicas
  BY RingAssumption DEF Replicas
<1>2. \A idx \in Replicas : PointHash[<<elt, idx>>] \in Nat
  BY RingAssumption
<1> QED
  BY <1>1, <1>2 DEF Points

(***************************************************************************)
(* Adding some elements of a sequence, in order, gives each of their       *)
(* virtual nodes to one of them that has it, and leaves the rest.          *)
(***************************************************************************)
LEMMA PutAllFacts ==
    ASSUME NEW elts \in Seq(Addrs), NEW places \in SUBSET DOMAIN elts, NEW circle
    PROVE  /\ Claimed(elts, places) \subseteq Nat
           /\ DOMAIN PutAll(circle, elts, places) = DOMAIN circle \cup Claimed(elts, places)
           /\ \A h \in Claimed(elts, places) :
                 /\ PutAll(circle, elts, places)[h] \in {elts[i] : i \in places}
                 /\ h \in Points(PutAll(circle, elts, places)[h])
           /\ \A h \in DOMAIN circle \ Claimed(elts, places) :
                 PutAll(circle, elts, places)[h] = circle[h]
<1> DEFINE c == PutAll(circle, elts, places)
           claims(h) == {i \in places : h \in Points(elts[i])}
<1>1. DOMAIN c = DOMAIN circle \cup Claimed(elts, places)
  BY DEF PutAll
<1>2. \A i \in places : elts[i] \in Addrs
  OBVIOUS
<1>3. Claimed(elts, places) \subseteq Nat
  BY <1>2, PointsAreHashes DEF Claimed
<1>4. ASSUME NEW h \in Claimed(elts, places)
      PROVE  c[h] \in {elts[i] : i \in places} /\ h \in Points(c[h])
  <2>1. claims(h) # {}
    BY <1>4 DEF Claimed
  <2>2. claims(h) \subseteq 1 .. Len(elts) /\ Len(elts) \in Nat
    OBVIOUS
  <2>3. \E i \in claims(h) : \A j \in claims(h) : j <= i
    BY <2>1, <2>2, GreatestExists
  <2>4. c[h] = elts[CHOOSE i \in claims(h) : \A j \in claims(h) : j <= i]
    BY <1>4 DEF PutAll
  <2> QED
    BY <2>3, <2>4
<1>5. \A h \in DOMAIN circle \ Claimed(elts, places) : c[h] = circle[h]
  BY DEF PutAll
<1> QED
  BY <1>1, <1>3, <1>4, <1>5

\* The circle of a sequence has the virtual nodes of its elements, and gives
\* them to elements.
LEMMA CircleOfFacts ==
    ASSUME NEW elts \in Seq(Addrs)
    PROVE  /\ DOMAIN CircleOf(elts) = Claimed(elts, DOMAIN elts)
           /\ DOMAIN CircleOf(elts) \subseteq Nat
           /\ CircleOf(elts) \in [DOMAIN CircleOf(elts) -> Addrs]
<1>1. DOMAIN EmptyCircle = {} /\ DOMAIN elts \in SUBSET DOMAIN elts
  BY DEF EmptyCircle
<1>2. /\ Claimed(elts, DOMAIN elts) \subseteq Nat
      /\ DOMAIN CircleOf(elts) = Claimed(elts, DOMAIN elts)
      /\ \A h \in Claimed(elts, DOMAIN elts) :
            CircleOf(elts)[h] \in {elts[i] : i \in DOMAIN elts}
  <2> DEFINE places == DOMAIN elts
             c == PutAll(EmptyCircle, elts, places)
  <2>1. places \in SUBSET DOMAIN elts
    BY <1>1
  <2> HIDE DEF places
  <2>2. Claimed(elts, places) \subseteq Nat
    BY <2>1, PutAllFacts
  <2>3. DOMAIN c = DOMAIN EmptyCircle \cup Claimed(elts, places)
    BY <2>1, PutAllFacts
  <2>4. \A h \in Claimed(elts, places) : c[h] \in {elts[i] : i \in places}
    BY <2>1, PutAllFacts
  <2> QED
    BY <1>1, <2>2, <2>3, <2>4 DEF CircleOf, places
<1>3. \A h \in Claimed(elts, DOMAIN elts) : CircleOf(elts)[h] \in Addrs
  BY <1>2
<1>4. CircleOf(elts) = [h \in DOMAIN CircleOf(elts) |-> CircleOf(elts)[h]]
  BY DEF CircleOf, PutAll
<1> QED
  BY <1>2, <1>3, <1>4

\* A lookup on a circle that is not empty gives an element.
LEMMA OwnerIsElement ==
    ASSUME
           NEW circle, DOMAIN circle \subseteq Nat, circle \in [DOMAIN circle -> Addrs],
           DOMAIN circle # {}, NEW name \in Versions
    PROVE  Owner(circle, name) \in Addrs
<1>1. NameHash[name] \in Nat
  BY RingAssumption
<1>2. NextPoint(DOMAIN circle, NameHash[name]) \in DOMAIN circle
  BY <1>1, NextPointOnCircle
<1> QED
  BY <1>2 DEF Owner

(***************************************************************************)
(* The reason why consistent hashing disturbs little: when the point a key *)
(* falls on in each of two circles is also a point of the other one, the   *)
(* key falls on the same point in both.                                    *)
(***************************************************************************)
LEMMA SharedPointIsNext ==
    ASSUME NEW S \in SUBSET Nat, S # {}, NEW T \in SUBSET Nat, T # {}, NEW key \in Nat,
           NextPoint(S, key) \in T, NextPoint(T, key) \in S
    PROVE  NextPoint(S, key) = NextPoint(T, key)
<1> DEFINE aboveS == {h \in S : h > key}
           aboveT == {h \in T : h > key}
<1>1. CASE aboveS # {}
  <2>1. Least(aboveS) \in aboveS /\ \A g \in aboveS : Least(aboveS) <= g
    BY <1>1, LeastIsLeast
  <2>2. NextPoint(S, key) = Least(aboveS)
    BY <1>1 DEF NextPoint
  <2>3. aboveT # {}
    BY <2>1, <2>2
  <2>4. Least(aboveT) \in aboveT /\ \A g \in aboveT : Least(aboveT) <= g
    BY <2>3, LeastIsLeast
  <2>5. NextPoint(T, key) = Least(aboveT)
    BY <2>3 DEF NextPoint
  <2>6. NextPoint(S, key) \in aboveT /\ NextPoint(T, key) \in aboveS
    BY <2>1, <2>2, <2>4, <2>5, Zenon
  <2>7. NextPoint(S, key) <= NextPoint(T, key) /\ NextPoint(T, key) <= NextPoint(S, key)
    BY <2>1, <2>2, <2>4, <2>5, <2>6
  <2>8. NextPoint(S, key) \in Nat /\ NextPoint(T, key) \in Nat
    BY <2>6
  <2> QED
    BY <2>7, <2>8
<1>2. CASE aboveS = {}
  <2>1. aboveT = {}
    <3> SUFFICES ASSUME aboveT # {} PROVE FALSE
      OBVIOUS
    <3>1. Least(aboveT) \in aboveT
      BY LeastIsLeast
    <3>2. NextPoint(T, key) = Least(aboveT)
      BY DEF NextPoint
    <3> QED
      BY <3>1, <3>2, <1>2
  <2>2. Least(S) \in S /\ \A g \in S : Least(S) <= g
    BY LeastIsLeast
  <2>3. Least(T) \in T /\ \A g \in T : Least(T) <= g
    BY LeastIsLeast
  <2>4. NextPoint(S, key) = Least(S) /\ NextPoint(T, key) = Least(T)
    BY <1>2, <2>1 DEF NextPoint
  <2>5. NextPoint(S, key) <= NextPoint(T, key) /\ NextPoint(T, key) <= NextPoint(S, key)
    BY <2>2, <2>3, <2>4
  <2>6. NextPoint(S, key) \in Nat /\ NextPoint(T, key) \in Nat
    BY <2>2, <2>3, <2>4
  <2> QED
    BY <2>5, <2>6
<1> QED
  BY <1>1, <1>2

-----------------------------------------------------------------------------
(***************************************************************************)
(* What the closed form PutAll stands for: the loops that call Add for one *)
(* place of the list after the other, in SetAddr (kapacitor.go:43-46) for  *)
(* all of them and in Set (consistent.go:104-110) for the new elements. If *)
(* virtual nodes collide, the last one wins in both.                       *)
(***************************************************************************)
THEOREM PutAllIsTheLoop ==
    ASSUME NEW elts \in Seq(Addrs), NEW places \in SUBSET DOMAIN elts,
           NEW circle, circle = [h \in DOMAIN circle |-> circle[h]],
           NEW n \in DOMAIN elts, \A i \in places : i < n
    PROVE  /\ PutAll(circle, elts, {}) = circle
           /\ PutAll(circle, elts, places \cup {n}) = CirclePut(PutAll(circle, elts, places), elts[n])
<1>1. PutAll(circle, elts, {}) = circle
  BY DEF PutAll, Claimed
<1> DEFINE before == PutAll(circle, elts, places)
           after == PutAll(circle, elts, places \cup {n})
           put == CirclePut(before, elts[n])
           claims(h) == {i \in places : h \in Points(elts[i])}
           claimsN(h) == {i \in places \cup {n} : h \in Points(elts[i])}
<1>2. Claimed(elts, places \cup {n}) = Claimed(elts, places) \cup Points(elts[n])
  BY DEF Claimed
<1>3. DOMAIN before = DOMAIN circle \cup Claimed(elts, places)
  BY DEF PutAll
<1>4. DOMAIN after = DOMAIN circle \cup Claimed(elts, places) \cup Points(elts[n])
  BY <1>2 DEF PutAll
<1>5. DOMAIN put = DOMAIN after
  BY <1>3, <1>4 DEF CirclePut
<1>6. ASSUME NEW h \in DOMAIN after PROVE put[h] = after[h]
  <2>1. CASE h \in Points(elts[n])
    <3>1. put[h] = elts[n]
      BY <1>6, <1>5, <2>1 DEF CirclePut
    <3>2. after[h] = elts[CHOOSE i \in claimsN(h) : \A j \in claimsN(h) : j <= i]
      BY <1>2, <1>6, <2>1 DEF PutAll
    <3>3. n \in claimsN(h) /\ claimsN(h) \subseteq Int
      BY <2>1
    <3>4. \A i \in claimsN(h) : i <= n
      <4>1. n \in Int /\ \A i \in places : i \in Int
        OBVIOUS
      <4> QED
        BY <4>1
    <3>5. \A i \in claimsN(h) : (\A j \in claimsN(h) : j <= i) => i = n
      BY <3>3, <3>4
    <3>6. (CHOOSE i \in claimsN(h) : \A j \in claimsN(h) : j <= i) = n
      <4> HIDE DEF claimsN
      <4> QED
        BY <3>3, <3>4, <3>5
    <3> QED
      BY <3>1, <3>2, <3>6
  <2>2. CASE h \notin Points(elts[n])
    <3>1. claimsN(h) = claims(h)
      BY <2>2
    <3>2. h \in DOMAIN before /\ (h \in Claimed(elts, places \cup {n}) <=> h \in Claimed(elts, places))
      BY <1>2, <1>3, <1>4, <1>6, <2>2
    <3>3. put[h] = before[h]
      BY <2>2, <3>2 DEF CirclePut
    <3>4. before[h] = IF h \in Claimed(elts, places)
                      THEN elts[CHOOSE i \in claims(h) : \A j \in claims(h) : j <= i]
                      ELSE circle[h]
      BY <3>2 DEF PutAll
    <3>5. after[h] = IF h \in Claimed(elts, places \cup {n})
                     THEN elts[CHOOSE i \in claimsN(h) : \A j \in claimsN(h) : j <= i]
                     ELSE circle[h]
      BY <1>6 DEF PutAll
    <3> HIDE DEF claims, claimsN, before, after, put
    <3> QED
      BY <3>1, <3>2, <3>3, <3>4, <3>5
  <2> QED
    BY <2>1, <2>2
<1>7. after = [h \in DOMAIN after |-> after[h]] /\ put = [h \in DOMAIN put |-> put[h]]
  BY DEF PutAll, CirclePut
<1>8. put = after
  <2> HIDE DEF put, after
  <2> QED
    BY <1>5, <1>6, <1>7
<1> QED
  BY <1>1, <1>8

\* The elements of a sequence.
ElementsOf(elts) == {elts[i] : i \in DOMAIN elts}

\* Without collisions the circle of a sequence is one of its elements: which they are
\* says what it is.
LEMMA CircleOfElements ==
    ASSUME NoCollision, NEW elts \in Seq(Addrs)
    PROVE  /\ \A h : h \in DOMAIN CircleOf(elts) <=> \E e \in ElementsOf(elts) : h \in Points(e)
           /\ \A e \in ElementsOf(elts) : \A h \in Points(e) : CircleOf(elts)[h] = e
<1> DEFINE places == DOMAIN elts
           c == PutAll(EmptyCircle, elts, places)
<1>1. places \in SUBSET DOMAIN elts /\ c = CircleOf(elts)
  BY DEF CircleOf
<1>2. ASSUME NEW h
      PROVE  h \in DOMAIN CircleOf(elts) <=> \E e \in ElementsOf(elts) : h \in Points(e)
  <2>1. DOMAIN CircleOf(elts) = Claimed(elts, DOMAIN elts)
    BY CircleOfFacts
  <2>2. h \in Claimed(elts, DOMAIN elts) <=> \E i \in DOMAIN elts : h \in Points(elts[i])
    BY DEF Claimed
  <2> QED
    BY <2>1, <2>2 DEF ElementsOf
<1>3. ASSUME NEW e \in ElementsOf(elts), NEW h \in Points(e) PROVE CircleOf(elts)[h] = e
  <2>1. e \in Addrs
    BY DEF ElementsOf
  <2>2. h \in Claimed(elts, places)
    BY DEF Claimed, ElementsOf
  <2> HIDE DEF places
  <2>3. c[h] \in {elts[i] : i \in places} /\ h \in Points(c[h])
    BY <1>1, <2>2, PutAllFacts
  <2>4. c[h] \in Addrs
    BY <1>1, <2>3
  <2>5. c[h] = e
    BY <2>1, <2>3, <2>4 DEF NoCollision
  <2> QED
    BY <1>1, <2>5
<1> QED
  BY <1>2, <1>3

(***************************************************************************)
(* The ring that SetAddr builds does not depend on the order in which the  *)
(* registry lists the machines, nor on repeats: with the same servers every*)
(* alarm keeps its owner when updateAlarmServers builds the ring again.    *)
(* Without collisions; a shared node is of the server listed last.         *)
(***************************************************************************)
THEOREM OrderOfServersIsFree ==
    ASSUME NoCollision, NEW old \in Seq(Addrs), NEW new \in Seq(Addrs),
           ElementsOf(old) = ElementsOf(new)
    PROVE  CircleOf(old) = CircleOf(new)
<1>1. DOMAIN CircleOf(old) = DOMAIN CircleOf(new)
  <2>1. \A h : h \in DOMAIN CircleOf(old) <=> h \in DOMAIN CircleOf(new)
    BY CircleOfElements
  <2>2. DOMAIN CircleOf(old) \subseteq Nat /\ DOMAIN CircleOf(new) \subseteq Nat
    BY CircleOfFacts
  <2> QED
    BY <2>1, <2>2
<1>2. ASSUME NEW h \in DOMAIN CircleOf(old) PROVE CircleOf(old)[h] = CircleOf(new)[h]
  <2>1. PICK e \in ElementsOf(old) : h \in Points(e)
    BY <1>2, CircleOfElements
  <2>2. CircleOf(old)[h] = e /\ CircleOf(new)[h] = e
    BY <2>1, CircleOfElements
  <2> QED
    BY <2>2
<1> QED
  BY <1>1, <1>2, CircleOfFacts

(***************************************************************************)
(* SetAddr makes a new ring from each list (kapacitor.go:41-46), and yet   *)
(* an alarm changes its owner only if the old one is not in the new list   *)
(* or the new one was not in the old list: no task moves between servers   *)
(* that stay, for any lists, hashes without collision and replicas.        *)
(***************************************************************************)
THEOREM RebuildsDisturbLittle ==
    ASSUME NoCollision, NEW old \in Seq(Addrs), NEW new \in Seq(Addrs),
           old # <<>>, new # <<>>, NEW name \in Versions,
           Owner(CircleOf(old), name) # Owner(CircleOf(new), name)
    PROVE  \/ Owner(CircleOf(old), name) \notin ElementsOf(new)
           \/ Owner(CircleOf(new), name) \notin ElementsOf(old)
<1> DEFINE S == DOMAIN CircleOf(old)
           T == DOMAIN CircleOf(new)
           key == NameHash[name]
           s == NextPoint(S, key)
           t == NextPoint(T, key)
<1>1. key \in Nat /\ S \subseteq Nat /\ T \subseteq Nat
  BY RingAssumption, CircleOfFacts
<1>2. ASSUME NEW elts \in Seq(Addrs), elts # <<>> PROVE DOMAIN CircleOf(elts) # {}
  <2>1. 1 \in DOMAIN elts /\ elts[1] \in Addrs
    BY <1>2
  <2>2. elts[1] \in ElementsOf(elts) /\ Points(elts[1]) # {}
    BY <2>1, PointsAreHashes DEF ElementsOf
  <2> QED
    BY <2>2, CircleOfElements
<1>3. s \in S /\ t \in T
  BY <1>1, <1>2, NextPointOnCircle
<1>4. PICK d \in ElementsOf(old) : s \in Points(d)
  BY <1>3, CircleOfElements
<1>5. PICK e \in ElementsOf(new) : t \in Points(e)
  BY <1>3, CircleOfElements
<1>6. Owner(CircleOf(old), name) = d /\ Owner(CircleOf(new), name) = e
  BY <1>4, <1>5, CircleOfElements DEF Owner
<1> SUFFICES ASSUME d \in ElementsOf(new), e \in ElementsOf(old) PROVE FALSE
  BY <1>6
<1>7. s \in T /\ t \in S
  BY <1>4, <1>5, CircleOfElements
<1>8. s = t
  <2> HIDE DEF S, T, key
  <2> QED
    BY <1>1, <1>3, <1>7, SharedPointIsNext
<1>9. CircleOf(new)[s] = d
  BY <1>4, CircleOfElements
<1>10. CircleOf(new)[t] = e
  BY <1>5, CircleOfElements
<1> QED
  BY <1>6, <1>8, <1>9, <1>10
=============================================================================
