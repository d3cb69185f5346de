------------------------------ MODULE HashRing ------------------------------
(***************************************************************************)
(* The type Consistent of adapter/consistent.go: a consistent-hash ring    *)
(* behind a RWMutex.  Add, Remove and Set run under the write lock and are *)
(* one step each.  GetN and GetTwo walk the circle under the read lock;    *)
(* their loop is modelled index by index, because whether it ends depends  *)
(* on count, which add and remove keep beside the members.                 *)
(*                                                                         *)
(* A caller is careful when it adds no member and removes no stranger.     *)
(* SetAddr is not: it adds an address as often as the registry lists it.   *)
(* CarefulCallers selects which callers the specification has.             *)
(***************************************************************************)
EXTENDS Ring, Integers, FiniteSets, Sequences, Functions

CONSTANTS
    CarefulCallers,     \* BOOLEAN
    EltLists,           \* the sequences of elements given to Set
    RequestSizes,       \* the n given to GetN
    MaxCount            \* bound of this model on |count|

ASSUME HashRingAssumption ==
    /\ CarefulCallers \in BOOLEAN
    /\ EltLists \subseteq Seq(Addrs)
    /\ RequestSizes \subseteq Nat \ {0}
    /\ MaxCount \in Nat

VARIABLES
    circle,         \* map[uint32]string
    members,        \* map[string]bool, as the set of its keys
    sortedHashes,   \* the keys of circle in increasing order
    count,          \* int64, one up for each add and one down for each remove
    reader          \* the one call of GetN or GetTwo under the read lock

vars == <<circle, members, sortedHashes, count, reader>>

\* sort.Sort of the keys of circle.
SortedHashes(hashes) ==
    [i \in 1 .. Cardinality(hashes) |->
        CHOOSE h \in hashes : Cardinality({g \in hashes : g < h}) = i - 1]

\* The same with >= for > in the test that search hands to sort.Search.
SearchIndexFromKey(key) ==
    LET above == {x \in 0 .. Len(sortedHashes) - 1 : sortedHashes[x + 1] >= key}
    IN  IF above = {} THEN 0 ELSE Least(above)

\* search: the first index (from 0) whose hash is above the key, 0 if none.
SearchIndex(key) ==
    LET above == {x \in 0 .. Len(sortedHashes) - 1 : sortedHashes[x + 1] > key}
    IN  IF above = {} THEN 0 ELSE Least(above)

OwnerAt(i) == circle[sortedHashes[i + 1]]

\* Get, on a circle that is not empty.
Get(name) == OwnerAt(SearchIndex(NameHash[name]))

Idle == [pc |-> "idle"]

Init ==
    /\ circle = EmptyCircle
    /\ members = {}
    /\ sortedHashes = <<>>
    /\ count = 0
    /\ reader = Idle

WriteLock == reader.pc # "walk"

\* A write that sorts again only when the circle has grown.
StoreSortsGrown(newCircle) ==
    /\ circle' = newCircle
    /\ sortedHashes' = IF DOMAIN newCircle \subseteq DOMAIN circle THEN sortedHashes
                       ELSE SortedHashes(DOMAIN newCircle)

\* What every write ends with.
Store(newCircle) ==
    /\ circle' = newCircle
    /\ sortedHashes' = SortedHashes(DOMAIN newCircle)

Add(elt) ==
    /\ WriteLock
    /\ CarefulCallers => elt \notin members
    /\ count < MaxCount
    /\ Store(CirclePut(circle, elt))
    /\ members' = members \cup {elt}
    /\ count' = count + 1
    /\ reader' = Idle

Remove(elt) ==
    /\ WriteLock
    /\ CarefulCallers => elt \in members
    /\ count > -MaxCount
    /\ Store(CircleDrop(circle, elt))
    /\ members' = members \ {elt}
    /\ count' = count - 1
    /\ reader' = Idle

\* The places of the elements that the second loop of Set adds: it tests members,
\* which the add of an earlier place has already changed.
FreshAgain(elts) == {i \in DOMAIN elts : elts[i] \notin members}

FreshPlaces(elts) ==
    {i \in DOMAIN elts : elts[i] \notin members /\ \A j \in 1 .. i - 1 : elts[j] # elts[i]}

\* The members not in elts are removed, then every element of elts that is not
\* a member (yet) is added.
Set(elts) ==
    LET gone == members \ Range(elts)
        fresh == FreshPlaces(elts)
        kept == [h \in DOMAIN circle \ UNION {Points(e) : e \in gone} |-> circle[h]]
        newCount == count - Cardinality(gone) + Cardinality(fresh)
    IN  /\ WriteLock
        /\ newCount \in -MaxCount .. MaxCount
        /\ Store(PutAll(kept, elts, fresh))
        /\ members' = Range(elts)
        /\ count' = newCount
        /\ reader' = Idle

\* The walks.  A reader holds the read lock from pc "walk" to pc "done".
Walker(op, name, asked, n, i, res, pc) ==
    [pc |-> pc, op |-> op, name |-> name, asked |-> asked, n |-> n, start |-> SearchIndex(NameHash[name]),
     i |-> i, res |-> res]

\* How many elements GetN looks for, at most all of them; and the number it was
\* asked for, with which a walk from index 0 in a smaller ring never ends.
AsAsked(n) == n

Want(n) == IF count < n THEN count ELSE n

\* GetN up to its loop: n is cut to count, and one element may be enough.  A
\* negative count would make the allocation of res panic.
GetN(name, n) ==
    LET want == Want(n)
        i == SearchIndex(NameHash[name])
    IN  /\ reader.pc # "walk"
        /\ circle # EmptyCircle
        /\ want >= 0
        /\ reader' = Walker("GetN", name, n, want, i + 1, <<OwnerAt(i)>>,
                            IF want = 1 THEN "done" ELSE "walk")
        /\ UNCHANGED <<circle, members, sortedHashes, count>>

\* GetTwo up to its loop: a ring that counts one element has no second one.
GetTwo(name) ==
    LET i == SearchIndex(NameHash[name])
    IN  /\ reader.pc # "walk"
        /\ circle # EmptyCircle
        /\ reader' = Walker("GetTwo", name, 2, 2, i + 1, <<OwnerAt(i)>>,
                            IF count = 1 THEN "done" ELSE "walk")
        /\ UNCHANGED <<circle, members, sortedHashes, count>>

\* sliceContainsMember, and one that looks at the last member only.
LastIsMember(res, elem) == elem = res[Len(res)]

Contains(res, elem) == elem \in Range(res)

\* One round of the loop of GetN: i wraps before the body, and the condition
\* i # start is evaluated after the increment.
WalkGetN ==
    LET i == IF reader.i >= Len(sortedHashes) THEN 0 ELSE reader.i
        elem == OwnerAt(i)
        res == IF Contains(reader.res, elem) THEN reader.res ELSE Append(reader.res, elem)
        ends == Len(res) = reader.n \/ i + 1 = reader.start
    IN  /\ reader.pc = "walk" /\ reader.op = "GetN"
        /\ reader' = [reader EXCEPT !.i = i + 1, !.res = res,
                                    !.pc = IF ends THEN "done" ELSE "walk"]
        /\ UNCHANGED <<circle, members, sortedHashes, count>>

\* One round of the loop of GetTwo: b is what was last looked at.
WalkGetTwo ==
    LET i == IF reader.i >= Len(sortedHashes) THEN 0 ELSE reader.i
        a == Head(reader.res)
        b == OwnerAt(i)
        ends == b # a \/ i + 1 = reader.start
    IN  /\ reader.pc = "walk" /\ reader.op = "GetTwo"
        /\ reader' = [reader EXCEPT !.i = i + 1, !.res = <<a, b>>,
                                    !.pc = IF ends THEN "done" ELSE "walk"]
        /\ UNCHANGED <<circle, members, sortedHashes, count>>

Next ==
    \/ \E elt \in Addrs : Add(elt) \/ Remove(elt)
    \/ \E elts \in EltLists : Set(elts)
    \/ \E name \in Versions : GetTwo(name) \/ \E n \in RequestSizes : GetN(name, n)
    \/ WalkGetN
    \/ WalkGetTwo

\* A walk that has started goes on: nothing in it blocks.
Fairness == WF_vars(WalkGetN) /\ WF_vars(WalkGetTwo)

Spec == Init /\ [][Next]_vars /\ Fairness
-----------------------------------------------------------------------------

TypeOK ==
    /\ DOMAIN circle \subseteq Nat
    /\ \A h \in DOMAIN circle : circle[h] \in Addrs
    /\ members \subseteq Addrs
    /\ sortedHashes \in Seq(DOMAIN circle)
    /\ count \in -MaxCount .. MaxCount
    /\ reader.pc \in {"idle", "walk", "done"}

(***************************************************************************)
(* The state of the ring depends on its members only, not on the calls     *)
(* that led to it: each virtual node of a member, and no other hash, is on *)
(* the circle, owned by that member, and count is the number of members.   *)
(* add, remove and Set each update the four fields (lines 61-111); SetAddr *)
(* rebuilds the ring every three minutes and relies on the same servers    *)
(* giving the same owners.                                                 *)
(***************************************************************************)
RingIsItsMembers ==
    /\ DOMAIN circle = UNION {Points(e) : e \in members}
    /\ \A h \in DOMAIN circle : circle[h] \in members /\ h \in Points(circle[h])
    /\ count = Cardinality(members)

\* The binary search of Get over sortedHashes (lines 124-144) finds the point
\* that comes next on the circle.
GetIsOwner ==
    circle # EmptyCircle => \A name \in Versions : Get(name) = Owner(circle, name)

(***************************************************************************)
(* Minimal disruption, what consistent hashing is for: when a call of Add, *)
(* Remove or Set gives a name another owner, then the old owner has left   *)
(* the ring or the new one has just come.  A name never moves between two  *)
(* elements that stay.                                                     *)
(***************************************************************************)
Moved(name) ==
    /\ circle # EmptyCircle /\ circle' # EmptyCircle
    /\ Owner(circle, name) # Owner(circle', name)

MinimalDisruption ==
    [][\A name \in Versions : Moved(name) =>
          \/ Owner(circle, name) \notin members'
          \/ Owner(circle', name) \notin members]_vars

(***************************************************************************)
(* What GetN promises (comment of line 175): the n closest distinct        *)
(* elements, closest first, all of them when the ring has fewer than n.    *)
(* Closeness of an element is the clockwise distance from the key to the   *)
(* nearest of its virtual nodes.                                           *)
(***************************************************************************)
Clockwise(key, h) == <<IF h > key THEN 0 ELSE 1, h>>
Before(p, q) == p[1] < q[1] \/ (p[1] = q[1] /\ p[2] < q[2])
Closer(name, e, f) ==
    \E h \in Points(e) : \A g \in Points(f) :
        Before(Clockwise(NameHash[name], h), Clockwise(NameHash[name], g))

ClosestDistinct(name, n, res) ==
    /\ IsInjective(res)
    /\ Range(res) \subseteq members
    /\ Len(res) = IF Cardinality(members) < n THEN Cardinality(members) ELSE n
    /\ \A i \in DOMAIN res : \A f \in members \ {res[j] : j \in 1 .. i} :
           Closer(name, res[i], f)

WalksFindTheClosest ==
    reader.pc = "done" => ClosestDistinct(reader.name, reader.asked, reader.res)

\* A walk ends and gives the read lock back (loops of lines 163-171, 202-213).
WalksEnd == reader.pc = "walk" ~> reader.pc = "done"
=============================================================================
