-------------------------------- MODULE Ring --------------------------------
(***************************************************************************)
(* The consistent-hash circle of adapter/consistent.go as operators on     *)
(* values.  A circle is the Go map circle: a function from the hash of a   *)
(* virtual node to the element that owns it.  HashRing puts these          *)
(* operators under the methods of Consistent; Kapacitor uses the circle    *)
(* that SetAddr builds and the lookup of hashKapacitor.                    *)
(*                                                                         *)
(* crc32 is external: PointHash[e, i] is the hash of eltKey(e, i) and      *)
(* NameHash[n] the hash of a name, any natural numbers.                    *)
(***************************************************************************)
EXTENDS Naturals

CONSTANTS
    Addrs,              \* the elements put on the circle: server URLs
    Versions,           \* the names looked up: alarm versions
    NumberOfReplicas,   \* virtual nodes of an element, 20 in the code
    PointHash,          \* hashKey of eltKey(elt, idx)
    NameHash            \* hashKey of a name

Replicas == 0 .. NumberOfReplicas - 1

ASSUME RingAssumption ==
    /\ NumberOfReplicas \in Nat \ {0}
    /\ PointHash \in [Addrs \X Replicas -> Nat]
    /\ NameHash \in [Versions -> Nat]

\* The virtual nodes of an element.
Points(elt) == {PointHash[<<elt, idx>>] : idx \in Replicas}

\* No two elements share a virtual node (crc32 does not collide on them).
NoCollision ==
    \A e, f \in Addrs : e # f => Points(e) \cap Points(f) = {}

EmptyCircle == [h \in {} |-> h]

\* The loop of add: every virtual node of elt is (re)assigned to elt.
CirclePut(circle, elt) ==
    [h \in DOMAIN circle \cup Points(elt) |->
        IF h \in Points(elt) THEN elt ELSE circle[h]]

\* The loop of remove: the virtual nodes of elt are deleted, whoever owns
\* them.
CircleDrop(circle, elt) == [h \in DOMAIN circle \ Points(elt) |-> circle[h]]

\* The virtual nodes of the elements elts[i], i \in places.
Claimed(elts, places) == UNION {Points(elts[i]) : i \in places}

\* A circle after Add of these elements in their order: a shared virtual node
\* belongs to the last one that claims it.
PutAll(circle, elts, places) ==
    LET claims(h) == {i \in places : h \in Points(elts[i])}
    IN  [h \in DOMAIN circle \cup Claimed(elts, places) |->
            IF h \in Claimed(elts, places)
            THEN elts[CHOOSE i \in claims(h) : \A j \in claims(h) : j <= i]
            ELSE circle[h]]

\* The circle after Add of each element of a sequence to an empty circle.
CircleOf(elts) == PutAll(EmptyCircle, elts, DOMAIN elts)

\* The member of a set of naturals that is below all others.
Least(S) == CHOOSE h \in S : \A g \in S : h <= g

\* The point after the point a key falls on.
NextPointButOne(hashes, key) ==
    LET above(k) == {h \in hashes : h > k}
        next(k) == IF above(k) # {} THEN Least(above(k)) ELSE Least(hashes)
    IN  next(next(key))

\* The point a key falls on: the least hash above it and, past the last one,
\* the least of all.
NextPoint(hashes, key) ==
    LET above == {h \in hashes : h > key}
    IN  IF above # {} THEN Least(above) ELSE Least(hashes)

\* The element that Get returns on a circle that is not empty.
Owner(circle, name) == circle[NextPoint(DOMAIN circle, NameHash[name])]
=============================================================================
