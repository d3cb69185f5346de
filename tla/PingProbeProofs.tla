--------------------------- MODULE PingProbeProofs ----------------------------
(***************************************************************************)
(* A Ping of an address hides no more losses than there were replies to    *)
(* requests that were not its own (LossIsNotHidden).  A worker whose       *)
(* timeouts fit its interval is done with its pings of an address before   *)
(* the next tick (PingsFit); an outage of the adapter is noticed in time   *)
(* (OutagesAreNoticed), and until then the worker reports only so many     *)
(* total losses (AlarmsAreFew).  For any number of pingers, addresses,     *)
(* names, notaries, timeouts and messages.                                 *)
(***************************************************************************)
EXTENDS PingProbe, TLAPS

PingerType ==
    [pc : {"new", "idle", "resolve", "gap", "dial", "read", "gone"}, at : Nat \ {0},
     i : 1 .. PingTimes + 1, failed : 0 .. PingTimes, lost : Nat, left : Nat, next : Nat,
     due : BOOLEAN]

Fits(p, this) ==
    this \in PingerType /\ this.left <= Timeout[p] /\ this.next <= Interval[p]

TargetOf(p, this) == IF p = Liveness THEN Notary[this.at] ELSE AddressOf[p]

\* What a goroutine that pings has: it may dial and be asked for a reply only while
\* it has pings to do, and resolves and dials in no time but for a name.
Sound(p, this) ==
    /\ Fits(p, this)
    /\ this.failed < this.i
    /\ this.pc \in {"dial", "read"} => this.i <= PingTimes
    /\ this.pc \in {"resolve", "dial"} => TargetOf(p, this) \in Names
    /\ this.pc = "resolve" => this.failed = 0
    /\ p = Liveness /\ this.pc \in {"resolve", "gap", "dial", "read"} =>
          this.at \in DOMAIN Notary

PingersType == pinger \in [Pingers -> PingerType]

PingersGood == \A p \in Pingers : Sound(p, pinger[p])

WorldType ==
    /\ parsed \in BOOLEAN /\ PingLive \in BOOLEAN /\ link \in BOOLEAN
    /\ flight \in [Addresses -> 0 .. MaxFlight]
    /\ down \in 0 .. MaxDown
    /\ alarms \in [Workers -> Nat]

ProbeInv == WorldType /\ PingersType /\ PingersGood

LEMMA TargetIs == \A p \in Pingers : Target(p) = TargetOf(p, pinger[p])
  BY DEF Target, TargetOf

LEMMA InvImplies == ProbeInv /\ toReport \in [Pingers -> -PingTimes .. PingTimes] => TypeOK
  BY TargetIs
     DEF ProbeInv, WorldType, PingersType, PingersGood, Sound, Fits, PingerType, TypeOK

LEMMA Constants ==
    /\ PingTimes \in Nat \ {0} /\ MaxFlight \in Nat \ {0} /\ MaxDown \in Nat \ {0}
    /\ \A p \in Pingers : Timeout[p] \in Nat \ {0} /\ Interval[p] \in Nat \ {0}
  BY ProbeAssumption

LEMMA MinOfTwo ==
    ASSUME NEW x \in Nat, NEW y \in Nat
    PROVE  Min({x, y}) \in {x, y} /\ Min({x, y}) <= x /\ Min({x, y}) <= y
<1>1. x <= y \/ y <= x
  OBVIOUS
<1> QED
  BY <1>1 DEF Min
-----------------------------------------------------------------------------
(* What the operators that change a goroutine make of it.                  *)

LEMMA FailedIsSound ==
    ASSUME NEW p \in Pingers, NEW this, Sound(p, this), this.pc \in {"gap", "dial", "read"},
           this.i <= PingTimes
    PROVE  /\ Sound(p, Failed(this)) /\ Failed(this).pc = "gap" /\ Failed(this).at = this.at
           /\ Failed(this).i = this.i + 1 /\ Failed(this).failed = this.failed + 1
<1> DEFINE a == [this EXCEPT !.pc = "gap"]
           b == [a EXCEPT !.i = this.i + 1]
           c == [b EXCEPT !.failed = this.failed + 1]
           d == [c EXCEPT !.left = 0]
<1>0. this \in PingerType
  BY DEF Sound, Fits
<1>1. /\ a \in PingerType /\ a.pc = "gap" /\ a.at = this.at
      /\ a.i = this.i /\ a.failed = this.failed /\ a.next = this.next
  BY <1>0 DEF PingerType
<1> HIDE DEF a
<1>2. /\ b \in PingerType /\ b.pc = "gap" /\ b.at = this.at
      /\ b.i = this.i + 1 /\ b.failed = this.failed /\ b.next = this.next
  BY <1>0, <1>1, Constants DEF PingerType
<1> HIDE DEF b
<1>3. this.failed + 1 \in 0 .. PingTimes
  BY <1>0, Constants DEF Sound, Fits, PingerType
<1>4. /\ c \in PingerType /\ c.pc = "gap" /\ c.at = this.at
      /\ c.i = this.i + 1 /\ c.failed = this.failed + 1 /\ c.next = this.next
  BY <1>2, <1>3 DEF PingerType
<1> HIDE DEF c
<1>5. /\ d \in PingerType /\ d.pc = "gap" /\ d.at = this.at
      /\ d.i = this.i + 1 /\ d.failed = this.failed + 1 /\ d.next = this.next /\ d.left = 0
  BY <1>4 DEF PingerType
<1> HIDE DEF d
<1>6. Failed(this) = d
  BY DEF Failed, a, b, c, d
<1> QED
  BY <1>0, <1>5, <1>6, Constants DEF Sound, Fits, PingerType

LEMMA AnsweredIsSound ==
    ASSUME NEW p \in Pingers, NEW this, Sound(p, this), this.pc = "read"
    PROVE  /\ Sound(p, Answered(this)) /\ Answered(this).pc = "gap"
           /\ Answered(this).at = this.at
           /\ Answered(this).i = this.i + 1 /\ Answered(this).failed = this.failed
<1> DEFINE a == [this EXCEPT !.pc = "gap"]
           b == [a EXCEPT !.i = this.i + 1]
           c == [b EXCEPT !.left = 0]
<1>0. this \in PingerType /\ this.i <= PingTimes
  BY DEF Sound, Fits
<1>1. /\ a \in PingerType /\ a.pc = "gap" /\ a.at = this.at
      /\ a.i = this.i /\ a.failed = this.failed /\ a.next = this.next
  BY <1>0 DEF PingerType
<1> HIDE DEF a
<1>2. /\ b \in PingerType /\ b.pc = "gap" /\ b.at = this.at
      /\ b.i = this.i + 1 /\ b.failed = this.failed /\ b.next = this.next
  BY <1>0, <1>1, Constants DEF PingerType
<1> HIDE DEF b
<1>3. /\ c \in PingerType /\ c.pc = "gap" /\ c.at = this.at
      /\ c.i = this.i + 1 /\ c.failed = this.failed /\ c.next = this.next /\ c.left = 0
  BY <1>2 DEF PingerType
<1> HIDE DEF c
<1>4. Answered(this) = c
  BY DEF Answered, a, b, c
<1> QED
  BY <1>0, <1>3, <1>4, Constants DEF Sound, Fits, PingerType

\* Only pinger p moves.
LEMMA OneMoves ==
    ASSUME PingersType, PingersGood, NEW p \in Pingers, NEW now,
           pinger' = [pinger EXCEPT ![p] = now], Sound(p, now)
    PROVE  PingersType' /\ PingersGood'
<1>1. now \in PingerType
  BY DEF Sound, Fits
<1> QED
  BY <1>1 DEF PingersType, PingersGood

\* A Ping that begins.
LEMMA BegunIsGood ==
    ASSUME NEW p \in Pingers, NEW this, Fits(p, this), NEW address,
           TargetOf(p, this) = address, p = Liveness => this.at \in DOMAIN Notary,
           PingersType, PingersGood, Begun(p, this, address)
    PROVE  /\ PingersType' /\ PingersGood'
           /\ pinger'[p].pc \in {"resolve", "gap"} /\ pinger'[p].at = this.at
           /\ pinger'[p].pc = "gap" => pinger'[p].i = 1 /\ pinger'[p].failed = 0
           /\ \A q \in Pingers : q # p => pinger'[q] = pinger[q]
<1> DEFINE pc == IF address \in Names THEN "resolve" ELSE "gap"
           a == [this EXCEPT !.pc = pc]
           b == [a EXCEPT !.i = 1]
           c == [b EXCEPT !.failed = 0]
           d == [c EXCEPT !.due = this.due /\ this.pc # "idle"]
<1>0. this \in PingerType /\ pc \in {"resolve", "gap"} /\ (pc = "resolve" => address \in Names)
  BY DEF Fits
<1> HIDE DEF pc
<1>1. /\ a \in PingerType /\ a.pc = pc /\ a.at = this.at
      /\ a.left = this.left /\ a.next = this.next
  BY <1>0 DEF PingerType
<1> HIDE DEF a
<1>2. /\ b \in PingerType /\ b.pc = pc /\ b.at = this.at /\ b.i = 1
      /\ b.left = this.left /\ b.next = this.next
  BY <1>1, Constants DEF PingerType
<1> HIDE DEF b
<1>3. /\ c \in PingerType /\ c.pc = pc /\ c.at = this.at /\ c.i = 1 /\ c.failed = 0
      /\ c.left = this.left /\ c.next = this.next
  BY <1>2, Constants DEF PingerType
<1> HIDE DEF c
<1>4. /\ d \in PingerType /\ d.pc = pc /\ d.at = this.at /\ d.i = 1 /\ d.failed = 0
      /\ d.left = this.left /\ d.next = this.next
  BY <1>3 DEF PingerType
<1> HIDE DEF d
<1>5. pinger' = [pinger EXCEPT ![p] = d]
  BY DEF Begun, a, b, c, d, pc
<1>6. TargetOf(p, d) = address
  BY <1>4 DEF TargetOf
<1>7. Sound(p, d)
  BY <1>0, <1>4, <1>6 DEF Sound, Fits
<1>8. PingersType' /\ PingersGood'
  BY <1>5, <1>7, OneMoves
<1> QED
  BY <1>0, <1>4, <1>5, <1>8 DEF PingersType

-----------------------------------------------------------------------------
(* The actions of one pinger.                                              *)

LEMMA RequestKeeps ==
    ASSUME PingersType, PingersGood, NEW p \in Pingers,
           Resolve(p) \/ Dial(p) \/ Request(p) \/ RequestFails(p) \/ Expire(p)
    PROVE  PingersType' /\ PingersGood'
<1> DEFINE this == pinger[p]
<1>0. this \in PingerType /\ Sound(p, this) /\ Target(p) = TargetOf(p, this)
  BY TargetIs DEF PingersType, PingersGood
<1>1. CASE Resolve(p)
  <2>1. PICK i \in {1, PingTimes + 1} :
           pinger' = [pinger EXCEPT ![p].pc = "gap", ![p].i = i]
    BY <1>1 DEF Resolve
  <2> DEFINE a == [this EXCEPT !.pc = "gap"]
             b == [a EXCEPT !.i = i]
  <2>2. i \in 1 .. PingTimes + 1 /\ (i = 1 \/ i = PingTimes + 1)
    BY Constants
  <2>3. /\ a \in PingerType /\ a.pc = "gap" /\ a.at = this.at /\ a.left = this.left
        /\ a.failed = this.failed /\ a.next = this.next
    BY <1>0 DEF PingerType
  <2> HIDE DEF a
  <2>4. /\ b \in PingerType /\ b.pc = "gap" /\ b.at = this.at /\ b.left = this.left
        /\ b.failed = this.failed /\ b.next = this.next /\ b.i = i
    BY <2>2, <2>3 DEF PingerType
  <2> HIDE DEF b
  <2>5. pinger' = [pinger EXCEPT ![p] = b]
    BY <1>0, <2>1 DEF a, b, PingersType
  <2>6. this.pc = "resolve"
    BY <1>1 DEF Resolve
  <2>7. this.failed = 0 /\ (p = Liveness => this.at \in DOMAIN Notary)
    BY <1>0, <2>6 DEF Sound
  <2>8. Sound(p, b)
    BY <1>0, <2>2, <2>4, <2>7, Constants DEF Sound, Fits
  <2> QED
    BY <2>5, <2>8, OneMoves
<1>2. ASSUME NEW pc \in {"dial", "read"}, this.i <= PingTimes,
             pc = "dial" => Target(p) \in Names,
             this.pc \in {"gap", "dial"},
             pinger' = [pinger EXCEPT ![p].pc = pc, ![p].left = Timeout[p]]
      PROVE  PingersType' /\ PingersGood'
  <2> DEFINE a == [this EXCEPT !.pc = pc]
             b == [a EXCEPT !.left = Timeout[p]]
  <2>1. /\ a \in PingerType /\ a.pc = pc /\ a.at = this.at /\ a.i = this.i
        /\ a.failed = this.failed /\ a.next = this.next
    BY <1>0 DEF PingerType
  <2> HIDE DEF a
  <2>2. /\ b \in PingerType /\ b.pc = pc /\ b.at = this.at /\ b.i = this.i
        /\ b.failed = this.failed /\ b.next = this.next /\ b.left = Timeout[p]
    BY <2>1, Constants DEF PingerType
  <2> HIDE DEF b
  <2>3. pinger' = [pinger EXCEPT ![p] = b]
    BY <1>0, <1>2 DEF a, b, PingersType
  <2>4. TargetOf(p, b) = TargetOf(p, this)
    BY <2>2 DEF TargetOf
  <2>5. Sound(p, b)
    BY <1>0, <1>2, <2>2, <2>4, Constants DEF Sound, Fits
  <2> QED
    BY <2>3, <2>5, OneMoves
<1>3. CASE Dial(p)
  BY <1>2, <1>3 DEF Dial
<1>4. CASE Request(p)
  <2>1. this.pc \in {"gap", "dial"} /\ this.i <= PingTimes
    BY <1>0, <1>4 DEF Request, Dials, Sound
  <2> QED
    BY <1>2, <1>4, <2>1 DEF Request
<1>5. CASE RequestFails(p) \/ Expire(p)
  <2>1. /\ this.pc \in {"gap", "dial", "read"} /\ this.i <= PingTimes
        /\ pinger' = [pinger EXCEPT ![p] = Failed(this)]
    BY <1>0, <1>5 DEF RequestFails, Expire, Dials, Sound
  <2>2. Sound(p, Failed(this))
    BY <1>0, <2>1, FailedIsSound
  <2> QED
    BY <2>1, <2>2, OneMoves
<1> QED
  BY <1>1, <1>3, <1>4, <1>5

LEMMA WorkerKeeps ==
    ASSUME PingersType, PingersGood, NEW w \in Workers, WorkerBegins(w) \/ WorkerEnds(w)
    PROVE  PingersType' /\ PingersGood'
<1>0. w \in Pingers /\ w # Liveness /\ pinger[w] \in PingerType /\ Sound(w, pinger[w])
  BY ProbeAssumption DEF PingersType, PingersGood, Pingers
<1>1. CASE WorkerBegins(w)
  <2>1. Begun(w, pinger[w], AddressOf[w])
    BY <1>1 DEF WorkerBegins
  <2> QED
    BY <1>0, <2>1, BegunIsGood DEF Sound, TargetOf
<1>2. CASE WorkerEnds(w)
  <2> DEFINE a == [pinger[w] EXCEPT !.pc = "idle"]
             b == [a EXCEPT !.i = 1]
             c == [b EXCEPT !.failed = 0]
             d == [c EXCEPT !.next = IF pinger[w].next = 0 THEN Interval[w] ELSE pinger[w].next]
  <2>1. /\ a \in PingerType /\ a.pc = "idle"
        /\ a.left = pinger[w].left /\ a.next = pinger[w].next
    BY <1>0 DEF PingerType
  <2> HIDE DEF a
  <2>2. /\ b \in PingerType /\ b.pc = "idle" /\ b.i = 1
        /\ b.left = pinger[w].left /\ b.next = pinger[w].next
    BY <2>1, Constants DEF PingerType
  <2> HIDE DEF b
  <2>3. /\ c \in PingerType /\ c.pc = "idle" /\ c.i = 1 /\ c.failed = 0
        /\ c.left = pinger[w].left /\ c.next = pinger[w].next
    BY <2>2, Constants DEF PingerType
  <2> HIDE DEF c
  <2>4. /\ d \in PingerType /\ d.pc = "idle" /\ d.i = 1 /\ d.failed = 0
        /\ d.left = pinger[w].left
        /\ d.next = IF pinger[w].next = 0 THEN Interval[w] ELSE pinger[w].next
    BY <1>0, <2>3, Constants DEF PingerType
  <2> HIDE DEF d
  <2>5. pinger' = [pinger EXCEPT ![w] = d]
    BY <1>0, <1>2 DEF WorkerEnds, a, b, c, d, PingersType
  <2>6. Sound(w, d)
    BY <1>0, <2>4, Constants DEF Sound, Fits
  <2> QED
    BY <1>0, <2>5, <2>6, OneMoves
<1> QED
  BY <1>1, <1>2

LEMMA TaskBeginsKeeps ==
    ASSUME PingersType, PingersGood, TaskBegins
    PROVE  PingersType' /\ PingersGood'
<1> DEFINE a == [pinger[Liveness] EXCEPT !.pc = "idle"]
           b == [a EXCEPT !.next = Interval[Liveness]]
           c == [pinger[Liveness] EXCEPT !.pc = "gone"]
<1>0. /\ Liveness \in Pingers /\ pinger[Liveness] \in PingerType
      /\ Sound(Liveness, pinger[Liveness])
  BY DEF PingersType, PingersGood, Pingers, TaskBegins
<1>1. /\ a \in PingerType /\ a.pc = "idle" /\ a.i = pinger[Liveness].i
      /\ a.failed = pinger[Liveness].failed /\ a.left = pinger[Liveness].left
  BY <1>0 DEF PingerType
<1>2. /\ c \in PingerType /\ c.pc = "gone" /\ c.i = pinger[Liveness].i
      /\ c.failed = pinger[Liveness].failed /\ c.left = pinger[Liveness].left
      /\ c.next = pinger[Liveness].next
  BY <1>0 DEF PingerType
<1> HIDE DEF a
<1>3. /\ b \in PingerType /\ b.pc = "idle" /\ b.i = pinger[Liveness].i
      /\ b.failed = pinger[Liveness].failed /\ b.left = pinger[Liveness].left
      /\ b.next = Interval[Liveness]
  BY <1>0, <1>1, Constants DEF PingerType
<1> HIDE DEF b, c
<1>4. \/ pinger' = [pinger EXCEPT ![Liveness] = b]
      \/ pinger' = [pinger EXCEPT ![Liveness] = c]
  BY <1>0 DEF TaskBegins, PingersType, a, b, c
<1>5. Sound(Liveness, b) /\ Sound(Liveness, c)
  BY <1>0, <1>2, <1>3, Constants DEF Sound, Fits
<1> QED
  BY <1>0, <1>4, <1>5, OneMoves

\* The notary that publicPing comes to.
NextOf(this) ==
    IF this.pc = "idle" THEN [this EXCEPT !.at = 1, !.lost = 0]
    ELSE [this EXCEPT !.at = @ + 1, !.lost = @ + this.failed]

LEMMA NextNotaryIs ==
    ASSUME PingersType, PingersGood, NotaryBegins
    PROVE  LET next == NextOf(pinger[Liveness])
           IN  /\ Fits(Liveness, next) /\ next.at \in DOMAIN Notary
               /\ Begun(Liveness, next, Notary[next.at])
               /\ TargetOf(Liveness, next) = Notary[next.at]
<1> DEFINE this == pinger[Liveness]
           a == [this EXCEPT !.at = 1]
           b == [a EXCEPT !.lost = 0]
           c == [this EXCEPT !.at = this.at + 1]
           d == [c EXCEPT !.lost = this.lost + this.failed]
           next == IF this.pc = "idle" THEN b ELSE d
<1>0. Liveness \in Pingers /\ this \in PingerType /\ Sound(Liveness, this)
  BY DEF PingersType, PingersGood, Pingers
<1>1. a \in PingerType /\ a.left = this.left /\ a.next = this.next
  BY <1>0 DEF PingerType
<1>2. c \in PingerType /\ c.left = this.left /\ c.next = this.next /\ c.lost = this.lost
  BY <1>0 DEF PingerType
<1>3. NextOf(this) = next
  BY <1>0 DEF NextOf, PingerType
<1>4. Begun(Liveness, next, Notary[next.at]) /\ next.at <= Len(Notary)
  BY <1>3 DEF NotaryBegins, NextOf
<1> HIDE DEF a, c
<1>5. b \in PingerType /\ b.left = this.left /\ b.next = this.next
  BY <1>1 DEF PingerType
<1>6. this.lost + this.failed \in Nat
  BY <1>0, Constants DEF PingerType
<1>7. d \in PingerType /\ d.left = this.left /\ d.next = this.next
  BY <1>2, <1>6 DEF PingerType
<1> HIDE DEF b, d
<1>8. Fits(Liveness, next)
  BY <1>0, <1>5, <1>7 DEF Sound, Fits
<1>9. next.at \in DOMAIN Notary
  <2>1. next.at \in Nat \ {0}
    BY <1>8 DEF Fits, PingerType
  <2>2. Len(Notary) \in Nat /\ DOMAIN Notary = 1 .. Len(Notary)
    BY ProbeAssumption
  <2> QED
    BY <1>4, <2>1, <2>2
<1> HIDE DEF next
<1> QED
  BY <1>3, <1>4, <1>8, <1>9 DEF TargetOf

LEMMA NotaryBeginsKeeps ==
    ASSUME PingersType, PingersGood, NotaryBegins
    PROVE  PingersType' /\ PingersGood'
  BY NextNotaryIs, BegunIsGood DEF Pingers

LEMMA FreshIsSound ==
    ASSUME NEW p \in Pingers
    PROVE  Sound(p, Fresh) /\ Fresh.pc = "new"
  BY Constants DEF Fresh, Sound, Fits, PingerType

LEMMA PublicPingEndsKeeps ==
    ASSUME PingersType, PingersGood, PublicPingEnds
    PROVE  PingersType' /\ PingersGood'
<1> DEFINE this == pinger[Liveness]
           a == [Fresh EXCEPT !.pc = "idle"]
           b == [a EXCEPT !.next = this.next]
           c == [b EXCEPT !.due = this.due /\ Notary # <<>>]
<1>0. Liveness \in Pingers /\ this \in PingerType /\ Sound(Liveness, this)
  BY DEF PingersType, PingersGood, Pingers
<1>1. a \in PingerType /\ a.pc = "idle" /\ a.i = 1 /\ a.failed = 0 /\ a.left = 0
  <2>1. /\ Fresh \in PingerType /\ Fresh.i = 1 /\ Fresh.failed = 0 /\ Fresh.left = 0
    BY FreshIsSound, <1>0 DEF Sound, Fits, Fresh
  <2> QED
    BY <2>1 DEF PingerType
<1> HIDE DEF a
<1>2. /\ b \in PingerType /\ b.pc = "idle" /\ b.i = 1 /\ b.failed = 0 /\ b.left = 0
      /\ b.next = this.next
  BY <1>0, <1>1 DEF PingerType
<1> HIDE DEF b
<1>3. /\ c \in PingerType /\ c.pc = "idle" /\ c.i = 1 /\ c.failed = 0 /\ c.left = 0
      /\ c.next = this.next
  BY <1>2 DEF PingerType
<1> HIDE DEF c
<1>4. pinger' = [pinger EXCEPT ![Liveness] = c]
  BY DEF PublicPingEnds, a, b, c
<1>5. Sound(Liveness, c)
  BY <1>0, <1>3, Constants DEF Sound, Fits
<1> QED
  BY <1>0, <1>4, <1>5, OneMoves
-----------------------------------------------------------------------------
(* The actions that concern every pinger.                                  *)

LEMMA MessageKeeps ==
    ASSUME PingersType, PingersGood, NEW a \in Addresses,
           NEW message \in {"reply", "other", "bad"}, Message(a, message)
    PROVE  PingersType' /\ PingersGood'
<1> DEFINE now(p) == IF p \in Reading(a) THEN Read(p, message) ELSE pinger[p]
<1>1. pinger' = [p \in Pingers |-> now(p)]
  BY DEF Message
<1>2. ASSUME NEW p \in Pingers
      PROVE  now(p) \in PingerType /\ Sound(p, now(p))
  <2>1. Sound(p, pinger[p])
    BY DEF PingersGood
  <2>2. p \in Reading(a) => pinger[p].pc = "read" /\ pinger[p].i <= PingTimes
    BY <2>1 DEF Reading, Sound
  <2>3. \/ now(p) = pinger[p]
        \/ p \in Reading(a) /\ now(p) \in {Answered(pinger[p]), Failed(pinger[p])}
    BY DEF Read
  <2> HIDE DEF now
  <2>4. Sound(p, now(p))
    BY <2>1, <2>2, <2>3, FailedIsSound, AnsweredIsSound
  <2> QED
    BY <2>4 DEF Sound, Fits
<1> HIDE DEF now
<1> QED
  BY <1>1, <1>2 DEF PingersType, PingersGood

LEMMA TimeKeeps ==
    ASSUME PingersType, PingersGood, Time
    PROVE  PingersType' /\ PingersGood'
<1>1. pinger' = [p \in Pingers |-> Later(p)]
  BY DEF Time
<1>2. ASSUME NEW p \in Pingers
      PROVE  Later(p) \in PingerType /\ Sound(p, Later(p))
  <2> DEFINE this == pinger[p]
             left == IF this.pc \in {"dial", "read"} THEN this.left - 1 ELSE this.left
             next == CASE this.next = 0 -> 0 [] this.next = 1 -> Interval[p]
                       [] OTHER -> this.next - 1
             a == [this EXCEPT !.left = left]
             b == [a EXCEPT !.next = next]
             c == [b EXCEPT !.due = this.due \/ this.next = 1]
  <2>1. this \in PingerType /\ Sound(p, this)
    BY DEF PingersType, PingersGood
  <2>2. this.pc \in {"dial", "read"} => this.left # 0
    BY DEF Time, CanGoOn
  <2>3. left \in Nat /\ left <= Timeout[p]
    BY <2>1, <2>2, Constants DEF Sound, Fits, PingerType
  <2>4. next \in Nat /\ next <= Interval[p]
    BY <2>1, Constants DEF Sound, Fits, PingerType
  <2>5. (this.due \/ this.next = 1) \in BOOLEAN
    BY <2>1 DEF PingerType
  <2> HIDE DEF left, next
  <2>6. /\ a \in PingerType /\ a.pc = this.pc /\ a.at = this.at /\ a.i = this.i
        /\ a.failed = this.failed /\ a.left = left
    BY <2>1, <2>3 DEF PingerType
  <2> HIDE DEF a
  <2>7. /\ b \in PingerType /\ b.pc = this.pc /\ b.at = this.at /\ b.i = this.i
        /\ b.failed = this.failed /\ b.left = left /\ b.next = next
    BY <2>4, <2>6 DEF PingerType
  <2> HIDE DEF b
  <2>8. /\ c \in PingerType /\ c.pc = this.pc /\ c.at = this.at /\ c.i = this.i
        /\ c.failed = this.failed /\ c.left = left /\ c.next = next
    BY <2>5, <2>7 DEF PingerType
  <2> HIDE DEF c
  <2>9. Later(p) = c
    BY DEF Later, a, b, c, left, next
  <2> QED
    BY <2>1, <2>3, <2>4, <2>8, <2>9 DEF Sound, Fits, TargetOf
<1> QED
  BY <1>1, <1>2 DEF PingersType, PingersGood

\* What a pinger does in Ping.
Steps(p) == Resolve(p) \/ Dial(p) \/ Request(p) \/ RequestFails(p) \/ Expire(p)

LEMMA WorldNext ==
    ASSUME WorldType, Next
    PROVE  WorldType'
<1>1. CASE ParseConfig
  BY <1>1 DEF WorldType, ParseConfig
<1>2. CASE \E p \in Pingers : Steps(p)
  <2> PICK p \in Pingers : Resolve(p) \/ Dial(p) \/ Request(p) \/ RequestFails(p) \/ Expire(p)
    BY <1>2 DEF Steps
  <2>1. CASE Request(p)
    <3>1. PICK reply \in 0 .. (IF link THEN 1 ELSE 0) :
             /\ flight[Target(p)] + reply <= MaxFlight
             /\ flight' = [flight EXCEPT ![Target(p)] = @ + reply]
      BY <2>1 DEF Request
    <3>2. flight' \in [Addresses -> 0 .. MaxFlight]
      <4>1. CASE Target(p) \in Addresses
        BY <3>1, <4>1, Constants DEF WorldType
      <4>2. CASE Target(p) \notin Addresses
        BY <3>1, <4>2 DEF WorldType
      <4> QED
        BY <4>1, <4>2
    <3> QED
      BY <2>1, <3>2 DEF WorldType, Request
  <2>2. CASE Resolve(p) \/ Dial(p) \/ RequestFails(p) \/ Expire(p)
    BY <2>2 DEF WorldType, Resolve, Dial, RequestFails, Expire
  <2> QED
    BY <2>1, <2>2
<1>3. CASE \E a \in Addresses : \E message \in {"reply", "other", "bad"} : Message(a, message)
  <2> PICK a \in Addresses, message \in {"reply", "other", "bad"} : Message(a, message)
    BY <1>3
  <2>1. flight' \in [Addresses -> 0 .. MaxFlight]
    BY Constants DEF WorldType, Message
  <2> QED
    BY <2>1 DEF WorldType, Message
<1>4. CASE \E w \in Workers : WorkerBegins(w) \/ WorkerEnds(w)
  BY <1>4 DEF WorldType, WorkerBegins, WorkerEnds
<1>5. CASE TaskBegins \/ NotaryBegins \/ Link
  <2>1. MaxDown \in Nat /\ MaxFlight \in Nat
    BY Constants
  <2>2. CASE TaskBegins
    BY <2>1, <2>2 DEF WorldType, TaskBegins
  <2>3. CASE NotaryBegins
    BY <2>3 DEF WorldType, NotaryBegins
  <2>4. CASE Link
    BY <2>1, <2>4 DEF WorldType, Link
  <2> QED
    BY <1>5, <2>2, <2>3, <2>4
<1>6. CASE PublicPingEnds
  BY <1>6 DEF WorldType, PublicPingEnds, Live
<1>7. CASE Time
  <2>1. down + 1 \in Nat /\ MaxDown \in Nat
    BY Constants DEF WorldType
  <2>2. Min({down + 1, MaxDown}) \in Nat /\ Min({down + 1, MaxDown}) <= MaxDown
    BY <2>1, MinOfTwo
  <2>3. down' \in 0 .. MaxDown
    BY <1>7, <2>1, <2>2 DEF Time
  <2> QED
    BY <1>7, <2>3 DEF WorldType, Time
<1> QED
  BY <1>1, <1>2, <1>3, <1>4, <1>5, <1>6, <1>7 DEF Next, Steps
-----------------------------------------------------------------------------
LEMMA ProbeInvInit == Init => ProbeInv
<1> SUFFICES ASSUME Init PROVE ProbeInv
  OBVIOUS
<1>1. WorldType
  <2>1. MaxDown \in Nat /\ MaxFlight \in Nat
    BY Constants
  <2>2. /\ flight \in [Addresses -> 0 .. MaxFlight] /\ down \in 0 .. MaxDown
        /\ alarms \in [Workers -> Nat]
    BY <2>1 DEF Init
  <2>3. parsed \in BOOLEAN /\ PingLive \in BOOLEAN /\ link \in BOOLEAN
    BY DEF Init
  <2> QED
    BY <2>2, <2>3 DEF WorldType
<1>2. PingersType /\ PingersGood
  BY FreshIsSound, Constants DEF Init, PingersType, PingersGood, Sound, Fits
<1> QED
  BY <1>1, <1>2 DEF ProbeInv

LEMMA PingersNext ==
    ASSUME PingersType, PingersGood, Next
    PROVE  PingersType' /\ PingersGood'
<1>1. CASE ParseConfig \/ Link
  BY <1>1 DEF ParseConfig, Link, PingersType, PingersGood
<1>2. CASE \E p \in Pingers : Steps(p)
  BY <1>2, RequestKeeps DEF Steps
<1>3. CASE \E a \in Addresses : \E message \in {"reply", "other", "bad"} : Message(a, message)
  BY <1>3, MessageKeeps
<1>4. CASE \E w \in Workers : WorkerBegins(w) \/ WorkerEnds(w)
  BY <1>4, WorkerKeeps
<1>5. CASE TaskBegins
  BY <1>5, TaskBeginsKeeps
<1>6. CASE NotaryBegins
  BY <1>6, NotaryBeginsKeeps
<1>7. CASE PublicPingEnds
  BY <1>7, PublicPingEndsKeeps
<1>8. CASE Time
  BY <1>8, TimeKeeps
<1> QED
  BY <1>1, <1>2, <1>3, <1>4, <1>5, <1>6, <1>7, <1>8 DEF Next, Steps

LEMMA ProbeInvNext == ProbeInv /\ [Next]_vars => ProbeInv'
<1>1. ASSUME ProbeInv, Next PROVE ProbeInv'
  BY <1>1, PingersNext, WorldNext DEF ProbeInv
<1>2. ASSUME ProbeInv, UNCHANGED vars PROVE ProbeInv'
  BY <1>2 DEF vars, ProbeInv, WorldType, PingersType, PingersGood
<1> QED
  BY <1>1, <1>2

-----------------------------------------------------------------------------
(* The steps of one pinger, field by field.                                *)

\* The steps of a pinger: it asks, a ping of it is over, a Ping begins, time passes.
Same(this, that) ==
    that.at = this.at /\ that.lost = this.lost /\ that.next = this.next

Asks(p, this, that) ==
    /\ this.pc = "gap" /\ this.i <= PingTimes
    /\ that.pc = "read" /\ that.left = Timeout[p]
    /\ that.i = this.i /\ that.failed = this.failed /\ that.due = this.due
    /\ Same(this, that)

PingOver(this, that) ==
    /\ this.pc \in {"gap", "read"} /\ this.i <= PingTimes
    /\ that.pc = "gap" /\ that.i = this.i + 1
    /\ that.due = this.due
    /\ Same(this, that)

Begins(this, that) ==
    /\ that.pc = "gap" /\ that.i = 1 /\ that.failed = 0
    /\ that.due = (this.due /\ this.pc # "idle")
    /\ Same(this, that)

Ages(p, this, that) ==
    /\ that.pc = this.pc /\ that.i = this.i /\ that.failed = this.failed
    /\ that.at = this.at /\ that.lost = this.lost
    /\ this.pc \notin {"gap"} /\ (this.pc = "idle" => ~this.due)
    /\ IF this.pc \in {"dial", "read"} THEN this.left > 0 /\ that.left = this.left - 1
       ELSE that.left = this.left
    /\ that.due = (this.due \/ this.next = 1)
    /\ that.next = CASE this.next = 0 -> 0 [] this.next = 1 -> Interval[p]
                     [] OTHER -> this.next - 1

LEMMA FailedFields ==
    ASSUME NEW this \in PingerType
    PROVE  LET that == Failed(this)
           IN  /\ that.pc = "gap" /\ that.i = this.i + 1 /\ that.failed = this.failed + 1
               /\ that.due = this.due /\ Same(this, that)
  BY DEF Failed, PingerType, Same

LEMMA AnsweredFields ==
    ASSUME NEW this \in PingerType
    PROVE  LET that == Answered(this)
           IN  /\ that.pc = "gap" /\ that.i = this.i + 1 /\ that.failed = this.failed
               /\ that.due = this.due /\ Same(this, that)
  BY DEF Answered, PingerType, Same

LEMMA LaterFields ==
    ASSUME NEW p \in Pingers, pinger[p] \in PingerType, ~CanGoOn(p)
    PROVE  Ages(p, pinger[p], Later(p))
<1> DEFINE this == pinger[p]
           left == IF this.pc \in {"dial", "read"} THEN this.left - 1 ELSE this.left
           next == CASE this.next = 0 -> 0 [] this.next = 1 -> Interval[p]
                     [] OTHER -> this.next - 1
           due == this.due \/ this.next = 1
           that == [this EXCEPT !.left = left, !.next = next, !.due = due]
<1>1. Later(p) = that
  BY DEF Later
<1>2. /\ this.pc \notin {"gap"} /\ (this.pc = "idle" => ~this.due)
      /\ this.pc \in {"dial", "read"} => this.left > 0
  BY DEF CanGoOn, PingerType
<1> HIDE DEF left, next, due
<1>3. /\ that.pc = this.pc /\ that.i = this.i /\ that.failed = this.failed
      /\ that.at = this.at /\ that.lost = this.lost /\ that.left = left
      /\ that.next = next /\ that.due = due
  BY DEF PingerType
<1> QED
  BY <1>1, <1>2, <1>3 DEF Ages, left, next, due

LEMMA BegunFields ==
    ASSUME NEW p \in Pingers, PingersType, NEW this \in PingerType, NEW address,
           Begun(p, this, address)
    PROVE  /\ address \notin Names => Begins(this, pinger'[p])
           /\ \A q \in Pingers : q # p => pinger'[q] = pinger[q]
<1> DEFINE due == this.due /\ this.pc # "idle"
           pc == IF address \in Names THEN "resolve" ELSE "gap"
           that == [this EXCEPT !.pc = pc, !.i = 1, !.failed = 0, !.due = due]
<1>1. pinger' = [pinger EXCEPT ![p] = that]
  BY DEF Begun
<1> HIDE DEF due, pc
<1>2. /\ that.pc = pc /\ that.failed = 0 /\ that.due = due /\ that.i = 1
      /\ Same(this, that)
  BY DEF PingerType, Same
<1> HIDE DEF that
<1>3. pinger'[p] = that /\ \A q \in Pingers : q # p => pinger'[q] = pinger[q]
  BY <1>1 DEF PingersType
<1> QED
  BY <1>2, <1>3 DEF Begins, due, pc

\* One pinger moves.  At an address it asks, or a ping of it has failed.
LEMMA RequestSteps ==
    ASSUME PingersType, PingersGood, NEW p \in Pingers, Steps(p)
    PROVE  /\ \A q \in Pingers : q # p => pinger'[q] = pinger[q]
           /\ TargetOf(p, pinger[p]) \notin Names =>
                 \/ Asks(p, pinger[p], pinger'[p])
                 \/ /\ PingOver(pinger[p], pinger'[p])
                    /\ pinger'[p].failed = pinger[p].failed + 1
<1>0. pinger[p] \in PingerType /\ Sound(p, pinger[p]) /\ Target(p) = TargetOf(p, pinger[p])
  BY TargetIs DEF PingersType, PingersGood
<1>1. \A q \in Pingers : q # p => pinger'[q] = pinger[q]
  BY DEF Steps, Resolve, Dial, Request, RequestFails, Expire, PingersType
<1>2. CASE Request(p) /\ Target(p) \notin Names
  <2> DEFINE a == [pinger[p] EXCEPT !.pc = "read"]
             b == [a EXCEPT !.left = Timeout[p]]
  <2>1. /\ b.pc = "read" /\ b.left = Timeout[p] /\ b.i = pinger[p].i
        /\ b.failed = pinger[p].failed /\ b.due = pinger[p].due /\ Same(pinger[p], b)
    BY <1>0 DEF PingerType, Same
  <2>2. pinger' = [pinger EXCEPT ![p] = b]
    BY <1>0, <1>2 DEF Request, PingersType
  <2> HIDE DEF b
  <2>3. pinger'[p] = b
    BY <2>2 DEF PingersType
  <2>4. pinger[p].pc = "gap" /\ pinger[p].i <= PingTimes
    BY <1>0, <1>2 DEF Request, Dials, Sound
  <2> QED
    BY <1>1, <2>1, <2>3, <2>4 DEF Asks
<1>3. CASE RequestFails(p) \/ Expire(p)
  <2>1. /\ pinger[p].pc \in {"gap", "dial", "read"} /\ pinger[p].i <= PingTimes
        /\ pinger' = [pinger EXCEPT ![p] = Failed(pinger[p])]
    BY <1>0, <1>3 DEF RequestFails, Expire, Dials, Sound
  <2>2. pinger'[p] = Failed(pinger[p])
    BY <2>1 DEF PingersType
  <2>3. TargetOf(p, pinger[p]) \notin Names => pinger[p].pc # "dial"
    BY <1>0 DEF Sound
  <2> QED
    BY <1>0, <1>1, <2>1, <2>2, <2>3, FailedFields DEF PingOver
<1>4. CASE Resolve(p) \/ Dial(p)
  <2>1. Target(p) \in Names
    BY <1>0, <1>4 DEF Resolve, Dial, Sound
  <2> QED
    BY <1>0, <1>1, <2>1
<1> QED
  BY <1>0, <1>1, <1>2, <1>3, <1>4 DEF Steps

\* A message concerns those that wait for one from its address.
LEMMA MessageSteps ==
    ASSUME PingersType, PingersGood, NEW a \in Addresses,
           NEW message \in {"reply", "other", "bad"}, Message(a, message), NEW p \in Pingers
    PROVE  /\ link
           /\ \/ pinger'[p] = pinger[p]
              \/ PingOver(pinger[p], pinger'[p])
                 /\ pinger'[p].failed \in {pinger[p].failed, pinger[p].failed + 1}
<1>0. /\ pinger[p] \in PingerType /\ Sound(p, pinger[p])
      /\ pinger'[p] = IF p \in Reading(a) THEN Read(p, message) ELSE pinger[p]
      /\ link
  BY DEF PingersType, PingersGood, Message
<1>1. CASE p \in Reading(a)
  <2>1. pinger[p].pc = "read" /\ pinger[p].i <= PingTimes
    BY <1>0, <1>1 DEF Reading, Sound
  <2>2. pinger'[p] \in {pinger[p], Failed(pinger[p]), Answered(pinger[p])}
    BY <1>0, <1>1 DEF Read
  <2> QED
    BY <1>0, <2>1, <2>2, FailedFields, AnsweredFields DEF PingOver
<1> QED
  BY <1>0, <1>1

\* A worker is done with a Ping; after its first one it has a ticker.
Rests(w, this, that) ==
    /\ this.pc = "gap" /\ this.i > PingTimes
    /\ that.pc = "idle" /\ that.due = this.due
    /\ that.next = IF this.next = 0 THEN Interval[w] ELSE this.next

LEMMA WorkerEndsSteps ==
    ASSUME PingersType, NEW w \in Workers, WorkerEnds(w)
    PROVE  /\ Rests(w, pinger[w], pinger'[w])
           /\ \A q \in Pingers : q # w => pinger'[q] = pinger[q]
<1> DEFINE this == pinger[w]
           next == IF this.next = 0 THEN Interval[w] ELSE this.next
           that == [this EXCEPT !.pc = "idle", !.i = 1, !.failed = 0, !.next = next]
<1>0. w \in Pingers /\ this \in PingerType
  BY DEF PingersType, Pingers
<1>1. pinger' = [pinger EXCEPT ![w] = that]
  BY <1>0 DEF WorkerEnds, PingersType
<1> HIDE DEF next
<1>2. that.pc = "idle" /\ that.due = this.due /\ that.next = next
  BY <1>0 DEF PingerType
<1> HIDE DEF that
<1>3. pinger'[w] = that /\ \A q \in Pingers : q # w => pinger'[q] = pinger[q]
  BY <1>0, <1>1 DEF PingersType
<1> QED
  BY <1>2, <1>3 DEF Rests, WorkerEnds, PingEnds, next

-----------------------------------------------------------------------------
(* How much loss a Ping may hide.  Of the pings that are over as many went *)
(* well as there were replies that have arrived: so they and the replies   *)
(* on their way are no more than the requests sent to, those lost taken    *)
(* off and the foreign replies added; or those are enough for all pings.   *)

\* The requests of a Ping so far.
Sent(this) == IF this.pc = "read" THEN this.i ELSE this.i - 1

Counted(this) == this.pc \in {"gap", "read"}

Reports(p, this, report, way) ==
    Counted(this) /\ TargetOf(p, this) \notin Names =>
        /\ report <= Sent(this)
        /\ \/ report <= Sent(this) - PingTimes
           \/ this.i - 1 - this.failed + way[TargetOf(p, this)] <= Sent(this) - report

ReportType == toReport \in [Pingers -> -PingTimes .. PingTimes]

ReportInv ==
    /\ ReportType
    /\ \A p \in Pingers : Reports(p, pinger[p], toReport[p], flight)

\* The numbers of a Ping of an address.
LEMMA ReportFields ==
    ASSUME ProbeInv, NEW p \in Pingers
    PROVE  /\ PingTimes \in Nat \ {0}
           /\ pinger[p].i \in Nat \ {0} /\ pinger[p].i <= PingTimes + 1
           /\ pinger[p].failed \in Nat /\ pinger[p].failed < pinger[p].i
           /\ pinger[p].pc \in {"dial", "read"} => pinger[p].i <= PingTimes
           /\ Sent(pinger[p]) \in Nat /\ Sent(pinger[p]) <= PingTimes
           /\ Counted(pinger[p]) =>
                 TargetOf(p, pinger[p]) \in Addresses /\ flight[TargetOf(p, pinger[p])] \in Nat
<1>1. Sound(p, pinger[p]) /\ pinger[p] \in PingerType /\ PingTimes \in Nat \ {0}
  BY Constants DEF ProbeInv, PingersType, PingersGood
<1>2. /\ pinger[p].i \in Nat \ {0} /\ pinger[p].i <= PingTimes + 1
      /\ pinger[p].failed \in Nat /\ pinger[p].failed < pinger[p].i
      /\ pinger[p].pc \in {"dial", "read"} => pinger[p].i <= PingTimes
  BY <1>1 DEF Sound, PingerType
<1>3. Sent(pinger[p]) \in Nat /\ Sent(pinger[p]) <= PingTimes
  BY <1>1, <1>2 DEF Sent
<1>4. ASSUME Counted(pinger[p])
      PROVE  TargetOf(p, pinger[p]) \in Addresses /\ flight[TargetOf(p, pinger[p])] \in Nat
  <2>1. TargetOf(p, pinger[p]) \in Addresses
    <3>1. CASE p = Liveness
      <4>1. pinger[p].at \in DOMAIN Notary
        BY <1>1, <1>4, <3>1 DEF Counted, Sound
      <4>2. \A k \in DOMAIN Notary : Notary[k] \in Addresses
        BY ProbeAssumption
      <4> QED
        BY <3>1, <4>1, <4>2 DEF TargetOf
    <3>2. CASE p # Liveness
      BY <3>2, ProbeAssumption DEF TargetOf, Pingers
    <3> QED
      BY <3>1, <3>2
  <2> QED
    BY <2>1, Constants DEF ProbeInv, WorldType
<1> QED
  BY <1>1, <1>2, <1>3, <1>4

LEMMA AtLeastFacts ==
    ASSUME NEW n \in Int
    PROVE  /\ AtLeast(n) \in Int /\ AtLeast(n) >= -PingTimes /\ AtLeast(n) >= n
           /\ AtLeast(n) = n \/ AtLeast(n) = -PingTimes
           /\ n <= PingTimes => AtLeast(n) <= PingTimes
  BY Constants DEF AtLeast

\* A step that leaves the count of a Ping as it was, and adds no reply.
LEMMA ReportsStay ==
    ASSUME ProbeInv, ReportInv, NEW p \in Pingers, NEW that, NEW way \in [Addresses -> Nat],
           Counted(that) /\ TargetOf(p, that) \notin Names =>
               /\ Counted(pinger[p]) /\ TargetOf(p, that) = TargetOf(p, pinger[p])
               /\ that.i = pinger[p].i /\ that.failed = pinger[p].failed
               /\ that.pc = pinger[p].pc
               /\ way[TargetOf(p, that)] <= flight[TargetOf(p, that)]
    PROVE  Reports(p, that, toReport[p], way)
<1> SUFFICES ASSUME Counted(that), TargetOf(p, that) \notin Names
             PROVE  /\ toReport[p] <= Sent(that)
                    /\ \/ toReport[p] <= Sent(that) - PingTimes
                       \/ that.i - 1 - that.failed + way[TargetOf(p, that)]
                             <= Sent(that) - toReport[p]
  BY DEF Reports
<1>1. Sent(that) = Sent(pinger[p])
  BY DEF Sent
<1>2. Reports(p, pinger[p], toReport[p], flight)
  BY DEF ReportInv
<1>3. /\ toReport[p] <= Sent(pinger[p])
      /\ \/ toReport[p] <= Sent(pinger[p]) - PingTimes
         \/ pinger[p].i - 1 - pinger[p].failed + flight[TargetOf(p, pinger[p])]
               <= Sent(pinger[p]) - toReport[p]
  BY <1>2 DEF Reports
<1>4. toReport[p] \in Int
  BY Constants DEF ReportInv, ReportType
<1>5. TargetOf(p, pinger[p]) \in Addresses /\ way[TargetOf(p, pinger[p])] \in Nat
  BY ReportFields
<1>6. way[TargetOf(p, pinger[p])] <= flight[TargetOf(p, pinger[p])]
  OBVIOUS
<1> DEFINE w == way[TargetOf(p, pinger[p])]
           f == flight[TargetOf(p, pinger[p])]
<1>7. f \in Nat /\ w \in Nat /\ w <= f
  BY <1>5, <1>6, ReportFields
<1>8. w = way[TargetOf(p, that)]
  OBVIOUS
<1>9. \/ toReport[p] <= Sent(pinger[p]) - PingTimes
      \/ pinger[p].i - 1 - pinger[p].failed + f <= Sent(pinger[p]) - toReport[p]
  BY <1>3
<1> HIDE DEF w, f
<1>10. \/ toReport[p] <= Sent(pinger[p]) - PingTimes
       \/ pinger[p].i - 1 - pinger[p].failed + w <= Sent(pinger[p]) - toReport[p]
  BY <1>4, <1>7, <1>9, ReportFields
<1> QED
  BY <1>1, <1>3, <1>8, <1>10

\* A ping is over that waited for a reply: it failed, or took one.
LEMMA ReportsRead ==
    ASSUME ProbeInv, ReportInv, NEW p \in Pingers, NEW that, NEW way \in [Addresses -> Nat],
           pinger[p].pc = "read",
           that.pc = "gap" /\ that.i = pinger[p].i + 1
               /\ TargetOf(p, that) = TargetOf(p, pinger[p]),
           \/ /\ that.failed = pinger[p].failed + 1
              /\ way[TargetOf(p, that)] = flight[TargetOf(p, that)]
           \/ /\ that.failed = pinger[p].failed
              /\ way[TargetOf(p, that)] = flight[TargetOf(p, that)] - 1
    PROVE  Reports(p, that, toReport[p], way)
<1> DEFINE f == flight[TargetOf(p, that)]
           w == way[TargetOf(p, that)]
<1>1. Sent(pinger[p]) = pinger[p].i /\ Sent(that) = that.i - 1 /\ Counted(pinger[p])
  BY DEF Sent, Counted
<1>2. /\ that.i - 1 = pinger[p].i /\ f \in Nat /\ pinger[p].i \in Nat /\ pinger[p].failed \in Nat
      /\ PingTimes \in Nat
  BY <1>1, ReportFields
<1>3. toReport[p] \in Int
  BY Constants DEF ReportInv, ReportType
<1>4. ASSUME TargetOf(p, that) \notin Names
      PROVE  /\ toReport[p] <= pinger[p].i
             /\ \/ toReport[p] <= pinger[p].i - PingTimes
                \/ pinger[p].i - 1 - pinger[p].failed + f <= pinger[p].i - toReport[p]
  BY <1>1, <1>4 DEF ReportInv, Reports
<1>5. that.i - 1 - that.failed + w = pinger[p].i - 1 - pinger[p].failed + f
  <2>1. CASE that.failed = pinger[p].failed + 1 /\ w = f
    BY <1>2, <2>1
  <2>2. CASE that.failed = pinger[p].failed /\ w = f - 1
    BY <1>2, <2>2
  <2> QED
    BY <2>1, <2>2
<1> HIDE DEF f
<1> QED
  BY <1>1, <1>2, <1>4, <1>5 DEF Reports

\* Only one pinger's count is touched, and no reply.
LEMMA OneReports ==
    ASSUME ProbeInv, ReportInv, NEW p \in Pingers, NEW report \in -PingTimes .. PingTimes,
           \A q \in Pingers : q # p => pinger'[q] = pinger[q],
           toReport' = [toReport EXCEPT ![p] = report], flight' = flight,
           Reports(p, pinger'[p], report, flight)
    PROVE  ReportInv'
<1>1. ReportType'
  BY DEF ReportInv, ReportType
<1>2. ASSUME NEW q \in Pingers PROVE Reports(q, pinger'[q], toReport'[q], flight')
  <2>1. CASE q = p
    <3>1. toReport'[q] = report
      BY <2>1 DEF ReportInv, ReportType
    <3> QED
      BY <2>1, <3>1
  <2>2. CASE q # p
    <3>1. toReport'[q] = toReport[q] /\ Reports(q, pinger[q], toReport[q], flight)
      BY <2>2 DEF ReportInv, ReportType
    <3> QED
      BY <2>2, <3>1
  <2> QED
    BY <2>1, <2>2
<1> QED
  BY <1>1, <1>2 DEF ReportInv, Reports

\* A request of a Ping of an address, and its reply or none.
LEMMA RequestReports ==
    ASSUME ProbeInv, ReportInv, NEW p \in Pingers, Request(p)
    PROVE  ReportInv'
<1> DEFINE this == pinger[p]
           d == Target(p)
<1>0. /\ PingersType /\ Sound(p, this) /\ this \in PingerType /\ d = TargetOf(p, this)
      /\ flight \in [Addresses -> 0 .. MaxFlight] /\ toReport \in [Pingers -> Int]
      /\ PingTimes \in Nat
  BY TargetIs, Constants
     DEF ProbeInv, PingersType, PingersGood, WorldType, ReportInv, ReportType
<1>1. PICK reply \in 0 .. (IF link THEN 1 ELSE 0) :
         /\ flight' = [flight EXCEPT ![d] = @ + reply]
         /\ toReport' = IF d \in Names THEN toReport ELSE [q \in Pingers |->
               CASE q = p -> toReport[q] + 1 - reply
                 [] q \in Pinging(d) \ {p} -> AtLeast(toReport[q] - reply)
                 [] OTHER -> toReport[q]]
  BY DEF Request
<1>1a. ASSUME NEW q \in Pingers
       PROVE  /\ d \in Names \/ (q # p /\ q \notin Pinging(d)) => toReport'[q] = toReport[q]
              /\ d \notin Names /\ q \in Pinging(d) =>
                    toReport'[q] = IF q = p THEN toReport[q] + 1 - reply
                                   ELSE AtLeast(toReport[q] - reply)
  <2> HIDE DEF d
  <2> QED
    BY <1>1
<1>2. reply \in {0, 1}
  OBVIOUS
<1>3. /\ \A q \in Pingers : q # p => pinger'[q] = pinger[q]
      /\ pinger'[p].pc = "read" /\ pinger'[p].i = this.i /\ pinger'[p].failed = this.failed
      /\ pinger'[p].at = this.at
  BY <1>0 DEF Request, PingersType, PingerType
<1>4. this.i <= PingTimes /\ (d \notin Names => this.pc = "gap")
  BY <1>0 DEF Request, Dials, Sound
<1>5. \A a \in Addresses : flight'[a] = IF a = d THEN flight[a] + reply ELSE flight[a]
  BY <1>0, <1>1
<1>6. ASSUME NEW q \in Pingers
      PROVE  /\ toReport'[q] \in -PingTimes .. PingTimes
             /\ Reports(q, pinger'[q], toReport'[q], flight')
  <2> DEFINE t == toReport[q]
  <2>0. t \in -PingTimes .. PingTimes
    BY DEF ReportInv, ReportType
  <2>1. CASE d \in Names \/ q \notin Pinging(d)
    <3>1. toReport'[q] = t
      <4>1. q = p => d \in Names
        BY <1>4, <2>1 DEF Pinging
      <4> QED
        BY <1>1a, <2>1, <4>1
    <3>2. CASE q = p
      <4>1. d \in Names
        BY <1>4, <2>1, <3>2 DEF Pinging
      <4>2. TargetOf(q, pinger'[q]) \in Names
        BY <1>0, <1>3, <3>2, <4>1 DEF TargetOf
      <4> QED
        BY <2>0, <3>1, <4>2 DEF Reports
    <3>3. CASE q # p
      <4>1. pinger'[q] = pinger[q]
        BY <1>3, <3>3
      <4>2. ASSUME Counted(pinger[q]), TargetOf(q, pinger[q]) \notin Names
            PROVE  flight'[TargetOf(q, pinger[q])] = flight[TargetOf(q, pinger[q])]
        <5>1. TargetOf(q, pinger[q]) # d
          BY <2>1, <4>2, TargetIs DEF Pinging, Counted
        <5> QED
          BY <1>5, <4>2, <5>1, ReportFields
      <4>3. Reports(q, pinger[q], t, flight)
        BY DEF ReportInv
      <4> QED
        BY <2>0, <3>1, <4>1, <4>2, <4>3 DEF Reports
    <3> QED
      BY <3>2, <3>3
  <2>2. CASE d \notin Names /\ q \in Pinging(d)
    <3> DEFINE i == pinger[q].i
               failed == pinger[q].failed
               sent == Sent(pinger[q])
               f == flight[d]
    <3>1. Counted(pinger[q]) /\ TargetOf(q, pinger[q]) = d
      BY <2>2, TargetIs DEF Pinging, Counted
    <3>2. /\ i \in Nat \ {0} /\ failed \in Nat /\ sent \in Nat /\ sent <= PingTimes
          /\ d \in Addresses /\ f \in Nat
      BY <3>1, ReportFields
    <3>3. /\ t <= sent
          /\ t <= sent - PingTimes \/ i - 1 - failed + f <= sent - t
      BY <2>2, <3>1 DEF ReportInv, Reports
    <3>4. flight'[d] = f + reply
      BY <1>5, <3>2
    <3>5. TargetOf(q, pinger'[q]) = d
      BY <1>3, <3>1 DEF TargetOf
    <3>6. /\ pinger'[q].i = i /\ pinger'[q].failed = failed
      BY <1>3
    <3>7. CASE q = p
      <4>1. toReport'[q] = t + 1 - reply
        BY <1>1a, <2>2, <3>7
      <4>2. Sent(pinger'[q]) = i /\ sent = i - 1 /\ i <= PingTimes
        BY <1>3, <1>4, <2>2, <3>7 DEF Sent
      <4>3. t + 1 - reply <= i /\ t + 1 - reply \in -PingTimes .. PingTimes
        BY <1>0, <1>2, <2>0, <3>2, <3>3, <4>2
      <4>4. \/ t + 1 - reply <= i - PingTimes
            \/ i - 1 - failed + (f + reply) <= i - (t + 1 - reply)
        BY <1>0, <1>2, <2>0, <3>2, <3>3, <4>2
      <4> QED
        BY <3>4, <3>5, <3>6, <4>1, <4>2, <4>3, <4>4 DEF Reports
    <3>8. CASE q # p
      <4> DEFINE r == AtLeast(t - reply)
      <4>1. toReport'[q] = r
        BY <1>1a, <2>2, <3>8
      <4>2. /\ r \in Int /\ r >= -PingTimes /\ (r = t - reply \/ r = -PingTimes)
            /\ r <= PingTimes
        BY <1>0, <1>2, <2>0, AtLeastFacts
      <4> HIDE DEF r
      <4>3. r <= sent /\ r \in -PingTimes .. PingTimes
        BY <1>0, <1>2, <2>0, <3>2, <3>3, <4>2
      <4>4. \/ r <= sent - PingTimes
            \/ i - 1 - failed + (f + reply) <= sent - r
        BY <1>0, <1>2, <2>0, <3>2, <3>3, <4>2
      <4>5. Sent(pinger'[q]) = sent
        BY <1>3, <3>8
      <4> QED
        BY <3>4, <3>5, <3>6, <4>1, <4>3, <4>4, <4>5 DEF Reports
    <3> QED
      BY <3>7, <3>8
  <2> QED
    BY <2>1, <2>2
<1>7. toReport' = [q \in Pingers |-> toReport'[q]]
  BY <1>0, <1>1
<1> QED
  BY <1>6, <1>7 DEF ReportInv, ReportType, Reports

\* A ping that is over.
LEMMA PingOverReports ==
    ASSUME ProbeInv, ReportInv, NEW p \in Pingers,
           Resolve(p) \/ Dial(p) \/ RequestFails(p) \/ Expire(p)
    PROVE  ReportInv'
<1> DEFINE this == pinger[p]
<1>0. /\ PingersType /\ Sound(p, this) /\ this \in PingerType
      /\ Target(p) = TargetOf(p, this)
      /\ flight \in [Addresses -> 0 .. MaxFlight] /\ toReport \in [Pingers -> Int]
      /\ toReport[p] \in -PingTimes .. PingTimes
      /\ PingTimes \in Nat /\ flight' = flight
  BY TargetIs, Constants
     DEF ProbeInv, PingersType, PingersGood, WorldType, ReportInv, ReportType,
         Resolve, Dial, RequestFails, Expire
<1>1. CASE Resolve(p) \/ Dial(p)
  <2>1. /\ \A q \in Pingers : q # p => pinger'[q] = pinger[q]
        /\ pinger'[p].at = this.at /\ Target(p) \in Names
        /\ toReport' = [toReport EXCEPT ![p] = toReport[p]]
    BY <1>0, <1>1 DEF Resolve, Dial, Sound, PingersType, PingerType
  <2>2. TargetOf(p, pinger'[p]) \in Names
    BY <1>0, <2>1 DEF TargetOf
  <2>3. Reports(p, pinger'[p], toReport[p], flight)
    BY <2>2 DEF Reports
  <2> QED
    BY <1>0, <2>1, <2>3, OneReports
<1>2. CASE RequestFails(p) \/ Expire(p)
  <2>1. /\ pinger' = [pinger EXCEPT ![p] = Failed(this)]
        /\ this.pc \in {"gap", "dial", "read"} /\ this.i <= PingTimes
    BY <1>0, <1>2 DEF RequestFails, Expire, Dials, Sound
  <2>2. /\ pinger'[p] = Failed(this) /\ \A q \in Pingers : q # p => pinger'[q] = pinger[q]
        /\ Failed(this).pc = "gap" /\ Failed(this).i = this.i + 1
        /\ Failed(this).failed = this.failed + 1
        /\ TargetOf(p, Failed(this)) = Target(p)
    BY <1>0, <2>1, FailedIsSound DEF PingersType, TargetOf
  <2>3. CASE Expire(p)
    <3>1. this.pc = "read" /\ toReport' = [toReport EXCEPT ![p] = toReport[p]]
      BY <1>0, <2>3 DEF Expire
    <3>2. flight \in [Addresses -> Nat]
      BY <1>0, Constants
    <3>3. Reports(p, Failed(this), toReport[p], flight)
      BY <1>0, <2>2, <3>1, <3>2, ReportsRead
    <3> QED
      BY <1>0, <2>2, <3>1, <3>3, OneReports
  <2>4. CASE RequestFails(p) /\ Target(p) \in Names
    <3>1. toReport' = [toReport EXCEPT ![p] = 0] /\ 0 \in -PingTimes .. PingTimes
      BY <1>0, <2>4 DEF RequestFails
    <3>2. Reports(p, pinger'[p], 0, flight)
      BY <2>2, <2>4 DEF Reports
    <3> QED
      BY <1>0, <2>2, <3>1, <3>2, OneReports
  <2>5. CASE RequestFails(p) /\ Target(p) \notin Names
    <3> DEFINE t == toReport[p]
               f == flight[Target(p)]
    <3>1. this.pc = "gap" /\ toReport' = [toReport EXCEPT ![p] = t + 1]
      BY <1>0, <2>5 DEF RequestFails, Dials, Sound
    <3>2. Counted(this) /\ Sent(this) = this.i - 1 /\ Sent(Failed(this)) = this.i
      BY <1>0, <2>2, <3>1 DEF Counted, Sent, PingerType
    <3>3. /\ this.i \in Nat \ {0} /\ this.failed \in Nat /\ f \in Nat
      BY <1>0, <3>2, ReportFields
    <3>4. /\ t <= this.i - 1
          /\ t <= this.i - 1 - PingTimes \/ this.i - 1 - this.failed + f <= this.i - 1 - t
      BY <1>0, <2>5, <3>2 DEF ReportInv, Reports
    <3>5. t + 1 <= this.i /\ t + 1 \in -PingTimes .. PingTimes
      BY <1>0, <2>1, <3>3, <3>4
    <3>6. \/ t + 1 <= this.i - PingTimes
          \/ (this.i + 1) - 1 - (this.failed + 1) + f <= this.i - (t + 1)
      BY <1>0, <3>3, <3>4
    <3>7. Reports(p, Failed(this), t + 1, flight)
      BY <2>2, <3>2, <3>5, <3>6 DEF Reports
    <3> HIDE DEF t
    <3> QED
      BY <1>0, <2>2, <3>1, <3>5, <3>7, OneReports
  <2> QED
    BY <1>2, <2>3, <2>4, <2>5
<1> QED
  BY <1>1, <1>2

LEMMA MessageReports ==
    ASSUME ProbeInv, ReportInv, WorldType', NEW a \in Addresses,
           NEW message \in {"reply", "other", "bad"}, Message(a, message)
    PROVE  ReportInv'
<1>0. /\ flight \in [Addresses -> 0 .. MaxFlight] /\ flight' \in [Addresses -> Nat]
      /\ toReport' = toReport
      /\ \A b \in Addresses : flight'[b] =
             IF b = a /\ message = "reply" THEN flight[b] - 1 ELSE flight[b]
  BY Constants DEF ProbeInv, WorldType, Message
<1>1. \A b \in Addresses : flight'[b] <= flight[b]
  BY <1>0, Constants
<1>2. ASSUME NEW p \in Pingers PROVE Reports(p, pinger'[p], toReport[p], flight')
  <2> DEFINE this == pinger[p]
  <2>0. /\ Sound(p, this) /\ Target(p) = TargetOf(p, this)
        /\ pinger'[p] = IF p \in Reading(a) THEN Read(p, message) ELSE this
    BY TargetIs DEF ProbeInv, PingersGood, Message
  <2>1. CASE pinger'[p] = this /\ (p \in Reading(a) => message # "reply")
    <3>1. ASSUME Counted(this) PROVE flight'[TargetOf(p, this)] <= flight[TargetOf(p, this)]
      BY <1>1, <3>1, ReportFields
    <3> QED
      BY <1>0, <2>1, <3>1, ReportsStay
  <2>2. CASE p \in Reading(a) /\ message = "reply"
    <3>1. this.pc = "read" /\ Target(p) = a /\ pinger'[p] = Answered(this)
      BY <2>0, <2>2 DEF Reading, Pinging, Read
    <3>2. /\ Answered(this).pc = "gap" /\ Answered(this).i = this.i + 1
          /\ Answered(this).failed = this.failed /\ TargetOf(p, Answered(this)) = a
      BY <2>0, <3>1, AnsweredIsSound DEF TargetOf
    <3> QED
      BY <1>0, <2>0, <2>2, <3>1, <3>2, ReportsRead
  <2>3. CASE p \in Reading(a) /\ message # "reply" /\ pinger'[p] = Failed(this)
    <3>1. this.pc = "read" /\ Target(p) = a /\ this.i <= PingTimes
      BY <2>0, <2>3 DEF Reading, Pinging, Sound
    <3>2. /\ Failed(this).pc = "gap" /\ Failed(this).i = this.i + 1
          /\ Failed(this).failed = this.failed + 1 /\ TargetOf(p, Failed(this)) = a
      BY <2>0, <3>1, FailedIsSound DEF TargetOf
    <3> QED
      BY <1>0, <2>0, <2>3, <3>1, <3>2, ReportsRead
  <2>4. CASE p \notin Reading(a)
    <3>1. pinger'[p] = this
      BY <2>0, <2>4
    <3> QED
      BY <2>1, <2>4, <3>1
  <2> QED
    BY <2>0, <2>1, <2>2, <2>3, <2>4 DEF Read
<1> QED
  BY <1>0, <1>2 DEF ReportInv, ReportType, Reports

LEMMA BegunReports ==
    ASSUME ProbeInv, ReportInv, NEW p \in Pingers, NEW this, Fits(p, this),
           NEW address \in Addresses, TargetOf(p, this) = address,
           p = Liveness => this.at \in DOMAIN Notary, Begun(p, this, address),
           flight' = flight
    PROVE  ReportInv'
<1> DEFINE report == IF address \in Names THEN 0 ELSE AtLeast(0 - flight[address])
           that == pinger'[p]
<1>0. /\ PingersType /\ PingersGood /\ flight[address] \in Nat /\ PingTimes \in Nat
      /\ toReport' = [toReport EXCEPT ![p] = report]
  BY Constants DEF ProbeInv, WorldType, Begun
<1>1. /\ that.pc \in {"resolve", "gap"} /\ (that.pc = "gap" => that.i = 1 /\ that.failed = 0)
      /\ TargetOf(p, that) = address
      /\ \A q \in Pingers : q # p => pinger'[q] = pinger[q]
  BY <1>0, BegunIsGood DEF TargetOf
<1>2. /\ report \in -PingTimes .. PingTimes /\ report <= 0
      /\ address \notin Names => report = 0 - flight[address] \/ report = -PingTimes
  BY <1>0, AtLeastFacts
<1> HIDE DEF report
<1>3. Reports(p, that, report, flight)
  <2> SUFFICES ASSUME Counted(that), address \notin Names
               PROVE  /\ report <= Sent(that)
                      /\ \/ report <= Sent(that) - PingTimes
                         \/ that.i - 1 - that.failed + flight[address] <= Sent(that) - report
    BY <1>1 DEF Reports
  <2>1. that.i = 1 /\ that.failed = 0 /\ Sent(that) = 0
    BY <1>1 DEF Counted, Sent
  <2> QED
    BY <1>0, <1>2, <2>1
<1> HIDE DEF that
<1> QED
  BY <1>0, <1>1, <1>2, <1>3, OneReports DEF that

LEMMA BeginsReports ==
    ASSUME ProbeInv, ReportInv, NotaryBegins \/ (\E w \in Workers : WorkerBegins(w))
    PROVE  ReportInv'
<1>0. PingersType /\ PingersGood
  BY DEF ProbeInv
<1>1. CASE NotaryBegins
  <2> DEFINE next == NextOf(pinger[Liveness])
  <2>1. /\ Fits(Liveness, next) /\ next.at \in DOMAIN Notary
        /\ Begun(Liveness, next, Notary[next.at])
        /\ TargetOf(Liveness, next) = Notary[next.at]
    BY <1>0, <1>1, NextNotaryIs
  <2>2. Notary[next.at] \in Addresses /\ flight' = flight /\ Liveness \in Pingers
    BY <1>1, <2>1, ProbeAssumption DEF NotaryBegins, Pingers
  <2> HIDE DEF next
  <2> QED
    BY <2>1, <2>2, BegunReports
<1>2. ASSUME NEW w \in Workers, WorkerBegins(w) PROVE ReportInv'
  <2>1. /\ w \in Pingers /\ w # Liveness /\ Sound(w, pinger[w]) /\ AddressOf[w] \in Addresses
        /\ Begun(w, pinger[w], AddressOf[w]) /\ flight' = flight
    BY <1>0, <1>2, ProbeAssumption DEF WorkerBegins, PingersGood, Pingers
  <2> QED
    BY <2>1, BegunReports DEF Sound, TargetOf
<1> QED
  BY <1>1, <1>2

LEMMA EndsReports ==
    ASSUME ProbeInv, ReportInv, TaskBegins \/ PublicPingEnds \/ (\E w \in Workers : WorkerEnds(w))
    PROVE  ReportInv'
<1>0. /\ PingersType /\ Liveness \in Pingers /\ Workers \subseteq Pingers
      /\ toReport[Liveness] \in -PingTimes .. PingTimes /\ toReport \in [Pingers -> Int]
      /\ 0 \in -PingTimes .. PingTimes
  <2>1. PingTimes \in Nat
    BY Constants
  <2> QED
    BY <2>1 DEF ProbeInv, ReportInv, ReportType, Pingers
<1>1. ASSUME NEW p \in Pingers, NEW report \in {0, toReport[Liveness]},
             \A q \in Pingers : q # p => pinger'[q] = pinger[q],
             ~Counted(pinger'[p]), toReport' = [toReport EXCEPT ![p] = report], flight' = flight
      PROVE  ReportInv'
  <2>1. Reports(p, pinger'[p], report, flight) /\ report \in -PingTimes .. PingTimes
    BY <1>0, <1>1 DEF Reports
  <2> QED
    BY <1>1, <2>1, OneReports
<1>2. CASE TaskBegins
  <2>1. /\ \A q \in Pingers : q # Liveness => pinger'[q] = pinger[q]
        /\ pinger'[Liveness].pc \in {"idle", "gone"} /\ flight' = flight
        /\ toReport' = [toReport EXCEPT ![Liveness] = toReport[Liveness]]
    BY <1>0, <1>2 DEF TaskBegins, PingersType, PingerType
  <2> QED
    BY <1>0, <1>1, <2>1 DEF Counted
<1>3. CASE PublicPingEnds
  <2>1. /\ \A q \in Pingers : q # Liveness => pinger'[q] = pinger[q]
        /\ pinger'[Liveness].pc = "idle" /\ flight' = flight
        /\ toReport' = [toReport EXCEPT ![Liveness] = 0]
    BY <1>0, <1>3 DEF PublicPingEnds, PingersType, Fresh
  <2> QED
    BY <1>0, <1>1, <2>1 DEF Counted
<1>4. ASSUME NEW w \in Workers, WorkerEnds(w) PROVE ReportInv'
  <2>1. /\ \A q \in Pingers : q # w => pinger'[q] = pinger[q]
        /\ pinger'[w].pc = "idle" /\ flight' = flight
        /\ toReport' = [toReport EXCEPT ![w] = 0]
    BY <1>0, <1>4, WorkerEndsSteps DEF WorkerEnds, Rests
  <2> QED
    BY <1>0, <1>1, <2>1 DEF Counted
<1> QED
  BY <1>2, <1>3, <1>4

\* What changes neither a Ping nor its count.
LEMMA OthersReport ==
    ASSUME ProbeInv, ReportInv, ParseConfig \/ Link \/ Time
    PROVE  ReportInv'
<1>0. /\ PingersType /\ toReport' = toReport /\ MaxFlight \in Nat
      /\ flight \in [Addresses -> 0 .. MaxFlight]
  BY Constants DEF ProbeInv, WorldType, ParseConfig, Link, Time
<1>1. /\ flight' \in [Addresses -> Nat]
      /\ \A a \in Addresses : flight'[a] <= flight[a]
  <2>1. flight' = flight \/ flight' = [a \in Addresses |-> 0]
    BY DEF ParseConfig, Link, Time
  <2>2. flight \in [Addresses -> Nat] /\ \A a \in Addresses : flight[a] <= flight[a] /\ 0 <= flight[a]
    BY <1>0
  <2> QED
    BY <2>1, <2>2
<1>2. ASSUME NEW p \in Pingers PROVE Reports(p, pinger'[p], toReport[p], flight')
  <2> DEFINE this == pinger[p]
             that == pinger'[p]
  <2>1. /\ that.pc = this.pc /\ that.i = this.i /\ that.failed = this.failed
        /\ that.at = this.at
    <3>1. CASE ParseConfig \/ Link
      BY <3>1 DEF ParseConfig, Link
    <3>2. CASE Time
      <4>1. that = Later(p) /\ ~CanGoOn(p) /\ this \in PingerType
        BY <1>0, <3>2 DEF Time, PingersType
      <4> QED
        BY <4>1, LaterFields DEF Ages
    <3> QED
      BY <3>1, <3>2
  <2>2. Counted(that) = Counted(this) /\ TargetOf(p, that) = TargetOf(p, this)
    BY <2>1 DEF Counted, TargetOf
  <2>3. Counted(this) => flight'[TargetOf(p, this)] <= flight[TargetOf(p, this)]
    BY <1>1, ReportFields
  <2> HIDE DEF this, that
  <2> QED
    BY <1>1, <2>1, <2>2, <2>3, ReportsStay DEF this, that
<1> QED
  BY <1>0, <1>2 DEF ReportInv, ReportType, Reports

LEMMA ReportNext == ProbeInv /\ ReportInv /\ [Next]_vars => ReportInv'
<1>1. ASSUME ProbeInv, ReportInv, Next PROVE ReportInv'
  <2>1. WorldType'
    BY <1>1, WorldNext DEF ProbeInv
  <2> QED
    BY <1>1, <2>1, RequestReports, PingOverReports, MessageReports, BeginsReports,
       EndsReports, OthersReport DEF Next
<1>2. ASSUME ReportInv, UNCHANGED vars PROVE ReportInv'
  BY <1>2 DEF vars, ReportInv, ReportType, Reports
<1> QED
  BY <1>1, <1>2

LEMMA ReportInit == Init => ReportInv
<1> SUFFICES ASSUME Init PROVE ReportInv
  OBVIOUS
<1>1. PingTimes \in Nat
  BY Constants
<1>2. ReportType
  BY <1>1 DEF Init, ReportType
<1>3. \A p \in Pingers : ~Counted(pinger[p])
  BY DEF Init, Fresh, Counted
<1> QED
  BY <1>2, <1>3 DEF ReportInv, Reports

LEMMA ProbeIsSound == Spec => [](ProbeInv /\ ReportInv)
<1>1. Init => ProbeInv /\ ReportInv
  BY ProbeInvInit, ReportInit
<1>2. ProbeInv /\ ReportInv /\ [Next]_vars => (ProbeInv /\ ReportInv)'
  BY ProbeInvNext, ReportNext
<1> QED
  BY <1>1, <1>2, PTL DEF Spec

\* The probes (ping/icmp.go and ping/liveness.go): a Ping counts no more failures than
\* it did pings, its deadline is within its timeout, and only for a name does it take
\* time before a request is sent.
THEOREM ProbeTypes == Spec => []TypeOK
<1>1. ProbeInv /\ ReportInv => TypeOK
  BY InvImplies DEF ReportInv, ReportType
<1> QED
  BY <1>1, ProbeIsSound, PTL

\* icmp.go:190-203: a Ping of an address reports all of its pings that no reply was sent
\* to, but for as many as there were replies to earlier requests or to those of others
\* that it could meet: one foreign reply hides one loss at most.
THEOREM LossIsNotHidden == Spec => []LossIsReported
<1>1. ASSUME ProbeInv, ReportInv, NEW p \in Pingers, pinger[p].pc = "gap",
             Target(p) \notin Names
      PROVE  pinger[p].failed >= toReport[p]
  <2> DEFINE i == pinger[p].i
             failed == pinger[p].failed
             t == toReport[p]
             f == flight[TargetOf(p, pinger[p])]
  <2>1. Counted(pinger[p]) /\ TargetOf(p, pinger[p]) \notin Names /\ Sent(pinger[p]) = i - 1
    BY <1>1, TargetIs DEF Counted, Sent
  <2>2. /\ PingTimes \in Nat /\ i \in Nat /\ i <= PingTimes + 1 /\ failed \in Nat /\ f \in Nat
    BY <1>1, <2>1, ReportFields
  <2>3. t <= i - 1 - PingTimes \/ i - 1 - failed + f <= i - 1 - t
    BY <1>1, <2>1 DEF ReportInv, Reports
  <2>4. t \in Int
    BY <1>1, <2>2 DEF ReportInv, ReportType
  <2> HIDE DEF i, failed, t, f
  <2>5. failed >= t
    BY <2>2, <2>3, <2>4
  <2> QED
    BY <2>5 DEF failed, t
<1>2. ProbeInv /\ ReportInv => LossIsReported
  BY <1>1 DEF LossIsReported
<1> QED
  BY <1>2, ProbeIsSound, PTL

-----------------------------------------------------------------------------
(* The time of a worker's Ping.  A tick is taken at once, when the worker  *)
(* waits for it; from then on the time since the tick is that of the pings *)
(* that are over, and of the one it waits for.                             *)

\* The time that a pinger has been waiting for a reply.
Waited(p, this) == IF this.pc = "read" THEN Timeout[p] - this.left ELSE 0

OnTime(w, this) ==
    /\ this.due => this.pc = "idle" /\ this.next = Interval[w]
    /\ this.pc # "gone" /\ (this.pc = "new" => this.next = 0)
    /\ this.pc \in {"gap", "read"} /\ this.next # 0 =>
          Interval[w] - this.next <= (this.i - 1) * Timeout[w] + Waited(w, this)

Punctual == \A w \in Fitting : OnTime(w, pinger[w])

\* The steps of a worker, and what they make of its alarms.
LEMMA WorkerSteps ==
    ASSUME PingersType, PingersGood, Next, NEW w \in Workers, AddressOf[w] \notin Names
    PROVE  LET this == pinger[w]
               that == pinger'[w]
           IN  \/ that = this /\ (alarms'[w] = alarms[w] \/ Link)
               \/ alarms'[w] = alarms[w] /\ (Asks(w, this, that) \/ PingOver(this, that))
               \/ /\ alarms'[w] = alarms[w] /\ Begins(this, that)
                  /\ this.pc = "new" \/ (this.pc = "idle" /\ this.due)
               \/ WorkerEnds(w) /\ Rests(w, this, that)
               \/ Time /\ Ages(w, this, that) /\ alarms'[w] = alarms[w]
<1>0. /\ w \in Pingers /\ w # Liveness /\ pinger[w] \in PingerType
      /\ TargetOf(w, pinger[w]) \notin Names
  BY ProbeAssumption DEF PingersType, Pingers, TargetOf
<1>1. CASE ParseConfig \/ Link
  BY <1>1 DEF ParseConfig, Link
<1>2. CASE \E p \in Pingers : Steps(p)
  <2>1. alarms' = alarms
    BY <1>2 DEF Steps, Resolve, Dial, Request, RequestFails, Expire
  <2> QED
    BY <1>0, <1>2, <2>1, RequestSteps
<1>3. CASE \E a \in Addresses : \E message \in {"reply", "other", "bad"} : Message(a, message)
  <2>1. alarms' = alarms
    BY <1>3 DEF Message
  <2> QED
    BY <1>0, <1>3, <2>1, MessageSteps
<1>4. ASSUME NEW v \in Workers, WorkerBegins(v)
      PROVE  /\ alarms'[w] = alarms[w]
             /\ \/ pinger'[w] = pinger[w]
                \/ /\ Begins(pinger[w], pinger'[w])
                   /\ pinger[w].pc = "new" \/ (pinger[w].pc = "idle" /\ pinger[w].due)
  <2>1. v \in Pingers /\ pinger[v] \in PingerType
    BY DEF PingersType, Pingers
  <2>2. Begun(v, pinger[v], AddressOf[v])
    BY <1>4 DEF WorkerBegins
  <2>3. /\ v = w => Begins(pinger[v], pinger'[v])
        /\ \A q \in Pingers : q # v => pinger'[q] = pinger[q]
    BY <2>1, <2>2, BegunFields
  <2>4. alarms' = alarms /\ (pinger[v].pc = "new" \/ (pinger[v].pc = "idle" /\ pinger[v].due))
    BY <1>4 DEF WorkerBegins
  <2> QED
    BY <1>0, <2>3, <2>4
<1>5. ASSUME NEW v \in Workers, WorkerEnds(v)
      PROVE  \/ v = w /\ Rests(w, pinger[w], pinger'[w])
             \/ alarms'[w] = alarms[w] /\ pinger'[w] = pinger[w]
  <2>1. v # w => alarms'[w] = alarms[w]
    BY <1>5 DEF WorkerEnds
  <2> QED
    BY <1>0, <1>5, <2>1, WorkerEndsSteps
<1>6. CASE TaskBegins
  BY <1>0, <1>6 DEF TaskBegins, PingersType
<1>7. CASE NotaryBegins
  BY <1>0, <1>7 DEF NotaryBegins, Begun, PingersType
<1>8. CASE PublicPingEnds
  BY <1>0, <1>8 DEF PublicPingEnds, PingersType
<1>9. CASE Time
  <2>1. ~CanGoOn(w) /\ pinger'[w] = Later(w) /\ alarms' = alarms
    BY <1>0, <1>9 DEF Time
  <2> QED
    BY <1>0, <1>9, <2>1, LaterFields
<1> QED
  BY <1>1, <1>2, <1>3, <1>4, <1>5, <1>6, <1>7, <1>8, <1>9 DEF Next, Steps

LEMMA OneMore ==
    ASSUME NEW i \in Nat \ {0}, NEW t \in Nat
    PROVE  (i - 1) * t \in Nat /\ i * t \in Nat /\ i * t = (i - 1) * t + t
  OBVIOUS

LEMMA MoreTakeLonger ==
    ASSUME NEW i \in Nat, NEW j \in Nat, NEW t \in Nat, i <= j
    PROVE  i * t <= j * t /\ i * t \in Nat /\ j * t \in Nat
<1>1. (j - i) * t >= 0
  OBVIOUS
<1>2. j * t = i * t + (j - i) * t
  OBVIOUS
<1> QED
  BY <1>1, <1>2

LEMMA FittingPings ==
    ASSUME NEW w \in Fitting
    PROVE  \A this : TargetOf(w, this) \notin Names
  BY ProbeAssumption DEF Fitting, TargetOf

\* Time does not pass while a worker's Ping is over its time, so its next tick
\* comes later.
LEMMA OnTimeLater ==
    ASSUME NEW w \in Fitting, NEW this, NEW that, Sound(w, this), OnTime(w, this),
           Ages(w, this, that)
    PROVE  OnTime(w, that)
<1> DEFINE T == Timeout[w]
           I == Interval[w]
           before == (this.i - 1) * T
           all == this.i * T
           most == PingTimes * T
<1>0. /\ w \in Workers /\ w \in Pingers /\ T \in Nat \ {0} /\ I \in Nat \ {0} /\ most < I
      /\ PingTimes \in Nat
  BY Constants DEF Fitting, Pingers
<1>1. /\ this \in PingerType /\ this.left <= T /\ this.next <= I /\ this.left \in Nat
      /\ this.next \in Nat /\ this.i \in Nat \ {0} /\ this.due \in BOOLEAN
      /\ this.pc = "read" => this.i <= PingTimes
      /\ this.pc \in {"new", "idle", "gap", "read", "gone"}
  <2>1. TargetOf(w, this) \notin Names
    BY FittingPings
  <2> QED
    BY <2>1 DEF Sound, Fits, PingerType
<1>2. before \in Nat /\ all \in Nat /\ all = before + T /\ most \in Nat
  BY <1>0, <1>1, OneMore
<1>3. this.pc = "read" => all <= most
  BY <1>0, <1>1, MoreTakeLonger
<1>4. that.pc = this.pc /\ that.i = this.i /\ this.pc # "gap"
  BY DEF Ages
<1>5. (that.i - 1) * T = before
  BY <1>4
<1> HIDE DEF before, all, most, T, I
<1>6. CASE this.pc = "read"
  <2>1. ~this.due /\ this.left > 0 /\ that.left = this.left - 1
    BY <1>6 DEF OnTime, Ages
  <2>2. this.next # 0 => I - this.next <= before + (T - this.left)
    BY <1>6 DEF OnTime, Waited, I, before, T
  <2>3. this.next # 1
    BY <1>0, <1>1, <1>2, <1>3, <1>6, <2>1, <2>2
  <2>4. /\ that.due = FALSE
        /\ that.next = IF this.next = 0 THEN 0 ELSE this.next - 1
    BY <2>1, <2>3 DEF Ages
  <2>5. that.next # 0 => I - that.next <= before + (T - that.left)
    BY <1>0, <1>1, <1>2, <2>1, <2>2, <2>3, <2>4
  <2>6. Waited(w, that) = T - that.left
    BY <1>4, <1>6 DEF Waited, T
  <2> QED
    BY <1>4, <1>5, <1>6, <2>4, <2>5, <2>6 DEF OnTime, I, T
<1>7. CASE this.pc = "idle"
  <2>1. ~this.due
    BY <1>7 DEF Ages
  <2>2. this.next = 1 => that.next = I
    BY DEF Ages, I
  <2> QED
    BY <1>4, <1>7, <2>1, <2>2 DEF OnTime, Ages, I
<1>8. CASE this.pc = "new"
  <2>1. this.due = FALSE /\ this.next = 0 /\ this.next # 1
    BY <1>1, <1>8 DEF OnTime
  <2>2. that.due = FALSE /\ that.next = 0
    <3>1. that.next = 0
      BY <2>1 DEF Ages
    <3>2. that.due = FALSE
      BY <2>1 DEF Ages
    <3> QED
      BY <3>1, <3>2
  <2> QED
    BY <1>4, <1>8, <2>2 DEF OnTime
<1> QED
  BY <1>1, <1>4, <1>6, <1>7, <1>8 DEF OnTime

\* The other steps of a worker that is on time take no time.
LEMMA OnTimeSteps ==
    ASSUME NEW w \in Fitting, NEW this, NEW that, Sound(w, this), Sound(w, that),
           OnTime(w, this),
           \/ Asks(w, this, that) \/ PingOver(this, that) \/ Rests(w, this, that)
           \/ Begins(this, that) /\ (this.pc = "new" \/ (this.pc = "idle" /\ this.due))
    PROVE  OnTime(w, that)
<1> DEFINE T == Timeout[w]
           I == Interval[w]
           before == (this.i - 1) * T
           after == (that.i - 1) * T
<1>0. w \in Workers /\ w \in Pingers /\ T \in Nat \ {0} /\ I \in Nat \ {0} /\ PingTimes \in Nat
  BY Constants DEF Fitting, Pingers
<1>1. /\ this.left \in Nat /\ this.left <= T /\ this.next \in Nat /\ this.i \in Nat \ {0}
      /\ that.left \in Nat /\ that.left <= T /\ that.next \in Nat /\ that.i \in Nat \ {0}
      /\ this.due \in BOOLEAN
  BY DEF Sound, Fits, PingerType
<1>2. before \in Nat /\ after \in Nat
  BY <1>0, <1>1, OneMore
<1>3. that.i = this.i => after = before
  OBVIOUS
<1>4. that.i = this.i + 1 => after = before + T
  <2>1. ASSUME that.i = this.i + 1 PROVE after = this.i * T
    BY <1>1, <2>1
  <2> QED
    BY <1>0, <1>1, <2>1, OneMore
<1> HIDE DEF before, after, T, I
<1>5. CASE Asks(w, this, that)
  <2>1. /\ this.pc = "gap" /\ that.pc = "read" /\ that.left = T /\ that.i = this.i
        /\ that.due = this.due /\ that.next = this.next
    BY <1>5 DEF Asks, Same, T
  <2>2. ~this.due /\ (this.next # 0 => I - this.next <= before + 0)
    BY <2>1 DEF OnTime, Waited, I, before, T
  <2>3. that.next # 0 => I - that.next <= after + (T - that.left)
    BY <1>0, <1>2, <1>3, <2>1, <2>2
  <2> QED
    BY <2>1, <2>2, <2>3 DEF OnTime, Waited, I, after, T
<1>6. CASE PingOver(this, that)
  <2>1. /\ this.pc \in {"gap", "read"} /\ that.pc = "gap" /\ that.i = this.i + 1
        /\ that.due = this.due /\ that.next = this.next
    BY <1>6 DEF PingOver, Same
  <2>2. ~this.due /\ (this.next # 0 => I - this.next <= before + Waited(w, this))
    BY <2>1 DEF OnTime, I, before, T
  <2>3. Waited(w, this) \in Nat /\ Waited(w, this) <= T
    BY <1>0, <1>1 DEF Waited, T
  <2>4. that.next # 0 => I - that.next <= after
    BY <1>0, <1>1, <1>2, <1>4, <2>1, <2>2, <2>3
  <2>5. Waited(w, that) = 0
    BY <2>1 DEF Waited
  <2>6. that.next # 0 => I - that.next <= after + Waited(w, that)
    BY <1>2, <2>4, <2>5
  <2> QED
    BY <2>1, <2>2, <2>6 DEF OnTime, I, after, T
<1>7. CASE Rests(w, this, that)
  BY <1>7 DEF OnTime, Rests
<1>8. CASE Begins(this, that) /\ (this.pc = "new" \/ (this.pc = "idle" /\ this.due))
  <2>1. /\ that.pc = "gap" /\ that.next = this.next /\ ~that.due
        /\ this.next = 0 \/ this.next = I
    BY <1>8 DEF OnTime, Begins, Same, I
  <2>2. that.next # 0 => I - that.next <= after + Waited(w, that)
    BY <1>0, <1>2, <2>1 DEF Waited
  <2> QED
    BY <2>1, <2>2 DEF OnTime, I, after, T
<1> QED
  BY <1>5, <1>6, <1>7, <1>8

LEMMA PunctualNext ==
    ASSUME PingersType, PingersGood, PingersGood', Punctual, Next
    PROVE  Punctual'
<1>1. ASSUME NEW w \in Fitting PROVE OnTime(w, pinger'[w])
  <2> DEFINE this == pinger[w]
             that == pinger'[w]
  <2>1. /\ w \in Workers /\ AddressOf[w] \notin Names
        /\ OnTime(w, this) /\ Sound(w, this) /\ Sound(w, that)
    BY DEF PingersGood, Punctual, Fitting, Pingers
  <2>2. \/ that = this \/ Ages(w, this, that)
        \/ Asks(w, this, that) \/ PingOver(this, that) \/ Rests(w, this, that)
        \/ Begins(this, that) /\ (this.pc = "new" \/ (this.pc = "idle" /\ this.due))
    BY <2>1, WorkerSteps
  <2> HIDE DEF this, that
  <2> QED
    BY <2>1, <2>2, OnTimeLater, OnTimeSteps DEF this, that
<1> QED
  BY <1>1 DEF Punctual, OnTime, Fitting, Waited

LEMMA PunctualInit == Init => Punctual
  BY DEF Init, Fresh, Punctual, OnTime, Fitting, Pingers

\* pingfunc and Ping (worker.go:119-138, icmp.go:137-160 and 190-203): whatever messages
\* come, a Ping is over before the next tick if its timeouts fit into the interval.
THEOREM PingsFit == Spec => []PingsFitInterval
<1> DEFINE Inv == ProbeInv /\ Punctual
<1>1. Init => Inv
  BY ProbeInvInit, PunctualInit
<1>2. Inv /\ [Next]_vars => Inv'
  <2>1. ASSUME Inv, Next PROVE Inv'
    BY <2>1, ProbeInvNext, PunctualNext DEF ProbeInv
  <2>2. ASSUME Inv, UNCHANGED vars PROVE Inv'
    BY <2>2, ProbeInvNext DEF vars, Punctual, Fitting, OnTime, Waited
  <2> QED
    BY <2>1, <2>2
<1>3. Inv => PingsFitInterval
  BY DEF Punctual, Fitting, OnTime, PingsFitInterval
<1> QED
  BY <1>1, <1>2, <1>3, PTL DEF Spec

-----------------------------------------------------------------------------
(* An outage of the adapter's own network.  All pings that are over since  *)
(* it began have failed: so a publicPing that it interrupts either lasts   *)
(* no longer in the outage than 60 % of the timeouts, or notices it, and   *)
(* the next one, which begins at the next tick or at once, fails           *)
(* altogether.  The state counts the time of an outage up to a bound; the  *)
(* r of the invariant is that time.                                        *)

Lost(this) == this.lost + this.failed
Done(this) == (this.at - 1) * PingTimes + (this.i - 1)

\* The latest time in an outage at which a publicPing begins that follows one that
\* did not notice it.
Longest == Max({(60 * PublicPing) \div 100, Interval[Liveness]})

\* The steps of livenessTask.
TaskStarts(this, that) ==
    /\ this.pc = "new"
    /\ that.pc = "gone" \/ (that.pc = "idle" /\ that.next = Interval[Liveness])

FirstNotary(this, that) ==
    /\ this.pc = "idle" /\ this.due
    /\ that.pc = "gap" /\ that.at = 1 /\ that.lost = 0 /\ that.failed = 0
    /\ that.next = this.next /\ that.due = FALSE
    /\ 1 <= Len(Notary) /\ that.i = 1

NextNotary(this, that) ==
    /\ this.pc = "gap" /\ this.i > PingTimes
    /\ that.pc = "gap" /\ that.at = this.at + 1 /\ that.lost = this.lost + this.failed
    /\ that.failed = 0 /\ that.next = this.next /\ that.due = this.due
    /\ that.at <= Len(Notary) /\ that.i = 1

Concludes(this, that, live) ==
    /\ \/ this.pc = "gap" /\ this.i > PingTimes /\ this.at = Len(Notary)
       \/ this.pc = "idle" /\ this.due /\ Notary = <<>>
    /\ that.pc = "idle" /\ that.next = this.next /\ that.due = (this.due /\ Notary # <<>>)
    /\ live = Live(this.lost + this.failed)

LEMMA NotaryBeginsSteps ==
    ASSUME PingersType, PingersGood, Reliable, NotaryBegins
    PROVE  \/ FirstNotary(pinger[Liveness], pinger'[Liveness])
           \/ NextNotary(pinger[Liveness], pinger'[Liveness])
<1> DEFINE this == pinger[Liveness]
           that == pinger'[Liveness]
           first == [this EXCEPT !.at = 1, !.lost = 0]
           more == [this EXCEPT !.at = this.at + 1, !.lost = this.lost + this.failed]
           next == IF this.pc = "idle" THEN first ELSE more
<1>0. Liveness \in Pingers /\ this \in PingerType /\ PingTimes \in Nat
  BY Constants DEF PingersType, Pingers
<1>1. Begun(Liveness, next, Notary[next.at]) /\ next.at \in DOMAIN Notary
  <2>1. next = NextOf(this)
    BY DEF NextOf
  <2> HIDE DEF next, this
  <2> QED
    BY <2>1, NextNotaryIs DEF this
<1>2. next.at <= Len(Notary) /\ ((this.pc = "idle" /\ this.due) \/ PingEnds(Liveness))
  BY <1>0 DEF NotaryBegins, PingerType
<1>3. /\ first \in PingerType /\ first.pc = this.pc /\ first.at = 1 /\ first.lost = 0
      /\ first.next = this.next /\ first.due = this.due
  <2> DEFINE one == [this EXCEPT !.at = 1]
             two == [one EXCEPT !.lost = 0]
  <2>1. /\ one \in PingerType /\ one.pc = this.pc /\ one.at = 1
        /\ one.next = this.next /\ one.due = this.due
    BY <1>0 DEF PingerType
  <2> HIDE DEF one
  <2>2. /\ two \in PingerType /\ two.pc = one.pc /\ two.at = one.at /\ two.lost = 0
        /\ two.next = one.next /\ two.due = one.due
    BY <2>1 DEF PingerType
  <2> HIDE DEF two
  <2>3. two = first
    BY DEF one, two
  <2> QED
    BY <2>1, <2>2, <2>3
<1>4. /\ more \in PingerType /\ more.pc = this.pc /\ more.at = this.at + 1
      /\ more.lost = this.lost + this.failed
      /\ more.next = this.next /\ more.due = this.due
  <2> DEFINE one == [this EXCEPT !.at = this.at + 1]
             two == [one EXCEPT !.lost = this.lost + this.failed]
  <2>1. /\ one \in PingerType /\ one.pc = this.pc /\ one.at = this.at + 1
        /\ one.next = this.next /\ one.due = this.due
    BY <1>0 DEF PingerType
  <2> HIDE DEF one
  <2>2. this.lost + this.failed \in Nat
    BY <1>0 DEF PingerType
  <2>3. /\ two \in PingerType /\ two.pc = one.pc /\ two.at = one.at
        /\ two.lost = this.lost + this.failed
        /\ two.next = one.next /\ two.due = one.due
    BY <2>1, <2>2 DEF PingerType
  <2> HIDE DEF two
  <2>4. two = more
    BY DEF one, two
  <2> QED
    BY <2>1, <2>3, <2>4
<1> HIDE DEF first, more
<1>5. next \in PingerType
  BY <1>3, <1>4
<1>6. Begins(next, that)
  <2>1. Notary[next.at] \notin Names
    BY <1>1 DEF Reliable
  <2> HIDE DEF next
  <2> QED
    BY <1>0, <1>1, <1>5, <2>1, BegunFields
<1>7. next.at \in Nat \ {0} /\ Len(Notary) \in Nat
  BY <1>5, ProbeAssumption DEF PingerType
<1>9. CASE this.pc = "idle"
  <2>1. next = first /\ this.due
    BY <1>2, <1>9 DEF PingEnds
  <2>2. that.due = FALSE
    <3>1. next.pc = "idle"
      BY <1>3, <1>9, <2>1
    <3> QED
      BY <1>6, <3>1 DEF Begins
  <2>3. next.at = 1 /\ next.lost = 0 /\ next.next = this.next
    BY <1>3, <2>1
  <2> HIDE DEF next, this, that
  <2> QED
    BY <1>2, <1>6, <1>9, <2>1, <2>2, <2>3 DEF FirstNotary, Begins, Same, this, that
<1>10. CASE this.pc # "idle"
  <2>1. next = more /\ this.pc = "gap" /\ this.i > PingTimes
    BY <1>2, <1>10 DEF PingEnds
  <2>2. that.due = this.due
    <3>1. next.pc # "idle" /\ next.due = this.due /\ this.due \in BOOLEAN
      BY <1>0, <1>4, <1>10, <2>1 DEF PingerType
    <3> QED
      BY <1>6, <3>1 DEF Begins
  <2>3. next.at = this.at + 1 /\ next.lost = this.lost + this.failed /\ next.next = this.next
    BY <1>4, <2>1
  <2> HIDE DEF next, this, that
  <2> QED
    BY <1>2, <1>6, <2>1, <2>2, <2>3 DEF NextNotary, Begins, Same, this, that
<1> QED
  BY <1>9, <1>10

LEMMA TaskBeginsSteps ==
    ASSUME PingersType, TaskBegins
    PROVE  TaskStarts(pinger[Liveness], pinger'[Liveness])
<1> DEFINE this == pinger[Liveness]
           begun == [this EXCEPT !.pc = "idle", !.next = Interval[Liveness]]
           gone == [this EXCEPT !.pc = "gone"]
<1>0. Liveness \in Pingers /\ this \in PingerType
  BY DEF PingersType, Pingers
<1>1. begun.pc = "idle" /\ begun.next = Interval[Liveness] /\ gone.pc = "gone"
  BY <1>0 DEF PingerType
<1> HIDE DEF begun, gone
<1>2. \/ pinger' = [pinger EXCEPT ![Liveness] = begun]
      \/ pinger' = [pinger EXCEPT ![Liveness] = gone]
  BY <1>0 DEF TaskBegins, PingersType, begun, gone
<1>3. pinger'[Liveness] \in {begun, gone} /\ this.pc = "new"
  BY <1>0, <1>2 DEF PingersType, TaskBegins
<1> QED
  BY <1>1, <1>3 DEF TaskStarts

LEMMA PublicPingEndsSteps ==
    ASSUME PingersType, PublicPingEnds
    PROVE  Concludes(pinger[Liveness], pinger'[Liveness], PingLive')
<1> DEFINE this == pinger[Liveness]
           due == this.due /\ Notary # <<>>
           that == [Fresh EXCEPT !.pc = "idle", !.next = this.next, !.due = due]
<1>0. Liveness \in Pingers
  BY DEF Pingers
<1>1. pinger' = [pinger EXCEPT ![Liveness] = that] /\ PingLive' = Live(this.lost + this.failed)
  BY DEF PublicPingEnds
<1> HIDE DEF due
<1>2. that.pc = "idle" /\ that.next = this.next /\ that.due = due
  BY DEF Fresh
<1> HIDE DEF that
<1>3. pinger'[Liveness] = that
  BY <1>0, <1>1 DEF PingersType
<1>4. \/ this.pc = "gap" /\ this.i > PingTimes /\ this.at = Len(Notary)
      \/ this.pc = "idle" /\ this.due /\ Notary = <<>>
  BY DEF PublicPingEnds, PingEnds
<1> QED
  BY <1>1, <1>2, <1>3, <1>4 DEF Concludes, due

\* PingLive changes only when a publicPing ends, the time of an outage with Time,
\* Link and TaskBegins.
LEMMA TaskSteps ==
    ASSUME PingersType, PingersGood, Reliable, Next
    PROVE  LET this == pinger[Liveness]
               that == pinger'[Liveness]
           IN  \/ that = this /\ PingLive' = PingLive
               \/ Asks(Liveness, this, that) /\ PingLive' = PingLive
               \/ /\ PingOver(this, that) /\ PingLive' = PingLive
                  /\ \/ that.failed = this.failed + 1
                     \/ link /\ that.failed = this.failed
               \/ FirstNotary(this, that) /\ PingLive' = PingLive
               \/ NextNotary(this, that) /\ PingLive' = PingLive
               \/ Concludes(this, that, PingLive')
               \/ TaskBegins /\ TaskStarts(this, that)
               \/ Time /\ Ages(Liveness, this, that) /\ PingLive' = PingLive
<1>0. /\ Liveness \in Pingers /\ Liveness \notin Workers /\ pinger[Liveness] \in PingerType
      /\ Sound(Liveness, pinger[Liveness])
  BY ProbeAssumption DEF PingersType, PingersGood, Pingers
<1>1. CASE ParseConfig \/ Link
  BY <1>1 DEF ParseConfig, Link
<1>2. ASSUME NEW p \in Pingers, Steps(p)
      PROVE  /\ PingLive' = PingLive
             /\ \/ pinger'[Liveness] = pinger[Liveness]
                \/ Asks(Liveness, pinger[Liveness], pinger'[Liveness])
                \/ /\ PingOver(pinger[Liveness], pinger'[Liveness])
                   /\ pinger'[Liveness].failed = pinger[Liveness].failed + 1
  <2>1. PingLive' = PingLive
    BY <1>2 DEF Steps, Resolve, Dial, Request, RequestFails, Expire
  <2>2. CASE p # Liveness
    BY <1>0, <1>2, <2>1, <2>2, RequestSteps
  <2>3. CASE p = Liveness
    <3>1. pinger[Liveness].pc \in {"resolve", "gap", "dial", "read"}
      BY <1>0, <1>2, <2>3
         DEF Steps, Resolve, Dial, Request, RequestFails, Expire, Dials
    <3>2. TargetOf(Liveness, pinger[Liveness]) \notin Names
      BY <1>0, <3>1 DEF Sound, TargetOf, Reliable
    <3> QED
      BY <1>0, <1>2, <2>1, <2>3, <3>2, RequestSteps
  <2> QED
    BY <2>2, <2>3
<1>3. CASE \E a \in Addresses : \E message \in {"reply", "other", "bad"} : Message(a, message)
  <2>1. PingLive' = PingLive
    BY <1>3 DEF Message
  <2> QED
    BY <1>0, <1>3, <2>1, MessageSteps
<1>4. ASSUME NEW w \in Workers, WorkerBegins(w) \/ WorkerEnds(w)
      PROVE  pinger'[Liveness] = pinger[Liveness] /\ PingLive' = PingLive
  BY <1>0, <1>4 DEF WorkerBegins, WorkerEnds, Begun, PingersType
<1>5. CASE TaskBegins
  BY <1>5, TaskBeginsSteps
<1>6. CASE NotaryBegins
  <2>1. PingLive' = PingLive
    BY <1>6 DEF NotaryBegins
  <2> QED
    BY <1>6, <2>1, NotaryBeginsSteps
<1>7. CASE PublicPingEnds
  BY <1>7, PublicPingEndsSteps
<1>8. CASE Time
  <2>1. ~CanGoOn(Liveness) /\ pinger'[Liveness] = Later(Liveness) /\ PingLive' = PingLive
    BY <1>0, <1>8 DEF Time
  <2> QED
    BY <1>0, <1>8, <2>1, LaterFields
<1> QED
  BY <1>1, <1>2, <1>3, <1>4, <1>5, <1>6, <1>7, <1>8 DEF Next, Steps

\* livenessTask has a ticker, and has lost only pings of the notaries it has pinged.
TaskOk(this) ==
    /\ this.pc \notin {"new", "gone"} => this.next > 0
    /\ this.pc \in {"gap", "read"} =>
          this.at <= Len(Notary) /\ this.lost <= (this.at - 1) * PingTimes

LEMMA TaskOkNext ==
    ASSUME PingersType, PingersGood, Reliable, Next, TaskOk(pinger[Liveness])
    PROVE  TaskOk(pinger'[Liveness])
<1> DEFINE this == pinger[Liveness]
           that == pinger'[Liveness]
<1>0. /\ Sound(Liveness, this) /\ TaskOk(this)
      /\ PingTimes \in Nat /\ Interval[Liveness] \in Nat \ {0}
  BY Constants DEF PingersGood, Pingers
<1>1. /\ this.at \in Nat \ {0} /\ this.failed \in 0 .. PingTimes /\ this.lost \in Nat
      /\ this.next \in Nat
  BY <1>0 DEF Sound, Fits, PingerType
<1>2. \/ that = this \/ Asks(Liveness, this, that) \/ PingOver(this, that)
      \/ FirstNotary(this, that) \/ NextNotary(this, that) \/ Concludes(this, that, PingLive')
      \/ TaskStarts(this, that) \/ Ages(Liveness, this, that)
  BY TaskSteps
<1> SUFFICES TaskOk(that)
  OBVIOUS
<1> HIDE DEF this, that
<1>3. CASE that = this
  BY <1>0, <1>3
<1>4. CASE Asks(Liveness, this, that) \/ PingOver(this, that)
  <2>1. /\ this.pc \in {"gap", "read"} /\ that.pc \in {"gap", "read"}
        /\ that.at = this.at /\ that.lost = this.lost /\ that.next = this.next
    BY <1>4 DEF Asks, PingOver, Same
  <2> QED
    BY <1>0, <2>1 DEF TaskOk
<1>5. CASE FirstNotary(this, that)
  <2>1. this.next > 0
    BY <1>0, <1>5 DEF TaskOk, FirstNotary
  <2>2. that.pc = "gap" /\ that.at = 1 /\ that.lost = 0 /\ that.next = this.next
        /\ that.at <= Len(Notary)
    BY <1>5 DEF FirstNotary
  <2>3. (that.at - 1) * PingTimes = 0
    <3>1. that.at - 1 = 0
      BY <2>2
    <3>2. 0 * PingTimes = 0
      BY <1>0
    <3> QED
      BY <3>1, <3>2
  <2> QED
    BY <2>1, <2>2, <2>3 DEF TaskOk
<1>6. CASE NextNotary(this, that)
  <2> DEFINE before == (this.at - 1) * PingTimes
             upto == (that.at - 1) * PingTimes
  <2>1. this.next > 0 /\ this.lost <= before
    BY <1>0, <1>6 DEF TaskOk, NextNotary
  <2>2. that.pc = "gap" /\ that.at = this.at + 1 /\ that.lost = this.lost + this.failed
        /\ that.next = this.next /\ that.at <= Len(Notary)
    BY <1>6 DEF NextNotary
  <2>3. upto = before + PingTimes /\ before \in Nat
    <3>1. that.at - 1 = this.at
      BY <1>1, <2>2
    <3>2. upto = this.at * PingTimes
      BY <3>1
    <3> QED
      BY <1>0, <1>1, <3>2, OneMore
  <2> HIDE DEF before, upto
  <2>4. that.lost <= upto
    BY <1>0, <1>1, <2>1, <2>2, <2>3
  <2> QED
    BY <2>1, <2>2, <2>4 DEF TaskOk, upto
<1>7. CASE Concludes(this, that, PingLive')
  BY <1>0, <1>7 DEF Concludes, TaskOk
<1>8. CASE TaskStarts(this, that)
  BY <1>0, <1>8 DEF TaskStarts, TaskOk
<1>9. CASE Ages(Liveness, this, that)
  <2>1. /\ that.pc = this.pc /\ that.at = this.at /\ that.lost = this.lost
    BY <1>9 DEF Ages
  <2>2. this.next > 0 => that.next > 0
    BY <1>0, <1>1, <1>9 DEF Ages
  <2> QED
    BY <1>0, <2>1, <2>2 DEF TaskOk
<1> QED
  BY <1>2, <1>3, <1>4, <1>5, <1>6, <1>7, <1>8, <1>9

LEMMA MaxOfTwo ==
    ASSUME NEW x \in Nat, NEW y \in Nat
    PROVE  Max({x, y}) \in {x, y} /\ Max({x, y}) >= x /\ Max({x, y}) >= y
<1>1. x <= y \/ y <= x
  OBVIOUS
<1> QED
  BY <1>1 DEF Max

LEMMA OutageConstants ==
    /\ PublicPing \in Nat /\ Longest \in Nat
    /\ Interval[Liveness] <= Longest /\ (60 * PublicPing) \div 100 <= Longest
    /\ NoticedAfter = PublicPing + Longest
<1>1. /\ Len(Notary) \in Nat /\ PingTimes \in Nat /\ Timeout[Liveness] \in Nat
      /\ Interval[Liveness] \in Nat
  BY Constants, ProbeAssumption DEF Pingers
<1>2. PublicPing \in Nat
  BY <1>1 DEF PublicPing
<1>3. (60 * PublicPing) \div 100 \in Nat
  BY <1>2
<1>4. /\ Longest \in {(60 * PublicPing) \div 100, Interval[Liveness]}
      /\ Interval[Liveness] <= Longest /\ (60 * PublicPing) \div 100 <= Longest
  BY <1>1, <1>3, MaxOfTwo DEF Longest
<1> QED
  BY <1>1, <1>2, <1>3, <1>4 DEF NoticedAfter, Longest

\* What the time r of an outage says of livenessTask.  Between two publicPings: the
\* last one has noticed it, or it has not been long.  In one: the outage began in
\* it, and has lasted no longer than the pings that were lost; or it began before,
\* and then all pings are lost.
Noticing(this, live, r) ==
    /\ this.pc = "idle" /\ live =>
          IF this.due THEN r <= Longest ELSE r <= Interval[Liveness] - this.next
    /\ this.pc \in {"gap", "read"} =>
          \/ /\ r <= Lost(this) * Timeout[Liveness] + Waited(Liveness, this)
             /\ ~this.due => r <= Interval[Liveness] - this.next
          \/ /\ Lost(this) = Done(this)
             /\ live => r <= Longest + Done(this) * Timeout[Liveness]
                               + Waited(Liveness, this)

LEMMA TaskConstants ==
    /\ Len(Notary) \in Nat /\ PingTimes \in Nat \ {0}
    /\ Timeout[Liveness] \in Nat \ {0} /\ Interval[Liveness] \in Nat \ {0}
  BY Constants, ProbeAssumption DEF Pingers

LEMMA TaskFields ==
    ASSUME NEW this, Reliable, Sound(Liveness, this)
    PROVE  /\ this.pc \in {"new", "idle", "gap", "read", "gone"}
           /\ this.at \in Nat \ {0} /\ this.i \in Nat \ {0} /\ this.failed \in Nat
           /\ this.lost \in Nat /\ this.left \in Nat /\ this.next \in Nat
           /\ this.due \in BOOLEAN
           /\ this.failed < this.i /\ this.i <= PingTimes + 1
           /\ this.pc = "read" => this.i <= PingTimes
           /\ this.left <= Timeout[Liveness] /\ this.next <= Interval[Liveness]
           /\ Waited(Liveness, this) \in Nat /\ Waited(Liveness, this) <= Timeout[Liveness]
<1>1. PingTimes \in Nat /\ Timeout[Liveness] \in Nat
  BY TaskConstants
<1>2. /\ this.pc \in {"new", "idle", "gap", "read", "gone"}
      /\ this.at \in Nat \ {0} /\ this.i \in Nat \ {0} /\ this.failed \in Nat
      /\ this.lost \in Nat /\ this.left \in Nat /\ this.next \in Nat
      /\ this.due \in BOOLEAN
      /\ this.failed < this.i /\ this.i <= PingTimes + 1
      /\ this.pc = "read" => this.i <= PingTimes
      /\ this.left <= Timeout[Liveness] /\ this.next <= Interval[Liveness]
  <2>1. this.pc \notin {"resolve", "dial"}
    BY DEF Sound, TargetOf, Reliable
  <2> QED
    BY <1>1, <2>1 DEF Sound, Fits, PingerType
<1> QED
  BY <1>1, <1>2 DEF Waited

\* How many pings of a publicPing are over and how many lost, and their timeouts.
LEMMA DoneFacts ==
    ASSUME NEW this, Reliable, Sound(Liveness, this), TaskOk(this), this.pc \in {"gap", "read"}
    PROVE  /\ Lost(this) \in Nat /\ Done(this) \in Nat /\ Lost(this) <= Done(this)
           /\ Lost(this) * Timeout[Liveness] \in Nat /\ Done(this) * Timeout[Liveness] \in Nat
           /\ Lost(this) * Timeout[Liveness] + Waited(Liveness, this) <= PublicPing
           /\ Done(this) * Timeout[Liveness] + Waited(Liveness, this) <= PublicPing
           /\ this.at = Len(Notary) /\ this.i > PingTimes =>
                 Done(this) = Len(Notary) * PingTimes
<1> DEFINE T == Timeout[Liveness]
           N == Len(Notary)
           before == (this.at - 1) * PingTimes
           upto == this.at * PingTimes
           all == N * PingTimes
           more == IF this.pc = "read" THEN 1 ELSE 0
           waited == Waited(Liveness, this)
           done == Done(this)
           lost == Lost(this)
<1>0. /\ N \in Nat /\ PingTimes \in Nat \ {0} /\ T \in Nat \ {0}
      /\ this.at \in Nat \ {0} /\ this.i \in Nat \ {0} /\ this.failed \in Nat
      /\ this.lost \in Nat /\ this.left \in Nat
      /\ this.failed < this.i /\ this.i <= PingTimes + 1
      /\ this.pc = "read" => this.i <= PingTimes
      /\ waited \in Nat /\ waited <= T
  BY TaskConstants, TaskFields
<1>1. this.at <= N /\ this.lost <= before
  BY DEF TaskOk
<1>2. /\ before \in Nat /\ upto = before + PingTimes /\ upto <= all /\ upto \in Nat
      /\ all \in Nat
  BY <1>0, <1>1, OneMore, MoreTakeLonger
<1>3. done = before + (this.i - 1) /\ lost = this.lost + this.failed
  BY DEF Done, Lost
<1>4. waited <= more * T /\ (this.pc # "read" => waited = 0)
  BY <1>0 DEF Waited
<1>5. this.at = N => upto = all
  OBVIOUS
<1> HIDE DEF before, upto, all, waited, done, lost, T, N
<1>6. /\ lost \in Nat /\ done \in Nat /\ lost <= done /\ done + more <= all
      /\ this.at = N /\ this.i > PingTimes => done = all
  BY <1>0, <1>1, <1>2, <1>3, <1>5
<1>7. /\ lost * T \in Nat /\ done * T \in Nat /\ lost * T <= done * T
      /\ (done + more) * T <= all * T /\ all * T \in Nat
  BY <1>0, <1>2, <1>6, MoreTakeLonger
<1>8. (done + more) * T = done * T + more * T
  BY <1>0, <1>6
<1>9. PublicPing = all * T
  BY DEF PublicPing, all, T, N
<1> DEFINE lostT == lost * T
           doneT == done * T
           moreT == more * T
           allT == all * T
<1>10. moreT \in Nat
  BY <1>0
<1>11. lostT + waited <= allT /\ doneT + waited <= allT
  <2>1. lostT \in Nat /\ doneT \in Nat /\ lostT <= doneT /\ doneT + moreT <= allT
        /\ waited <= moreT /\ waited \in Nat /\ allT \in Nat
    BY <1>0, <1>4, <1>7, <1>8
  <2> HIDE DEF lostT, doneT, moreT, allT, more
  <2> QED
    BY <1>10, <2>1
<1> HIDE DEF lostT, doneT, allT
<1>12. /\ lostT \in Nat /\ doneT \in Nat /\ lostT + waited <= PublicPing
       /\ doneT + waited <= PublicPing
  BY <1>7, <1>9, <1>11 DEF lostT, doneT, allT
<1> QED
  BY <1>6, <1>12 DEF lostT, doneT, lost, done, waited, T, N, all

\* An outage that is only beginning.
LEMMA NoticingStarts ==
    ASSUME NEW this, NEW live, Reliable, Sound(Liveness, this), TaskOk(this)
    PROVE  Noticing(this, live, 0)
<1>1. /\ 0 <= Longest /\ Interval[Liveness] \in Nat /\ this.next \in Nat
      /\ this.next <= Interval[Liveness] /\ Waited(Liveness, this) \in Nat
  BY OutageConstants, TaskConstants, TaskFields
<1>2. 0 <= Interval[Liveness] - this.next
  BY <1>1
<1>3. CASE this.pc \in {"gap", "read"}
  <2> DEFINE lostT == Lost(this) * Timeout[Liveness]
  <2>1. lostT \in Nat
    BY <1>3, DoneFacts
  <2> HIDE DEF lostT
  <2>2. 0 <= lostT + Waited(Liveness, this)
    BY <1>1, <2>1
  <2> QED
    BY <1>2, <1>3, <2>2 DEF Noticing, lostT
<1>4. CASE this.pc \notin {"gap", "read"}
  BY <1>1, <1>2, <1>4 DEF Noticing
<1> QED
  BY <1>3, <1>4

\* An outage that has lasted long enough was noticed.
LEMMA NoticingTells ==
    ASSUME NEW this, NEW live \in BOOLEAN, NEW r \in Nat, Reliable, Sound(Liveness, this),
           TaskOk(this), this.pc \in {"idle", "gap", "read"}, Noticing(this, live, r), r > NoticedAfter
    PROVE  ~live
<1>1. /\ PublicPing \in Nat /\ Longest \in Nat /\ NoticedAfter = PublicPing + Longest
      /\ Interval[Liveness] <= Longest /\ Interval[Liveness] \in Nat /\ this.next \in Nat
  BY OutageConstants, TaskConstants, TaskFields
<1>2. CASE this.pc = "idle"
  BY <1>1, <1>2 DEF Noticing
<1>3. CASE this.pc \in {"gap", "read"}
  <2> DEFINE lostT == Lost(this) * Timeout[Liveness]
             doneT == Done(this) * Timeout[Liveness]
             waited == Waited(Liveness, this)
  <2>1. /\ lostT \in Nat /\ doneT \in Nat /\ waited \in Nat
        /\ lostT + waited <= PublicPing /\ doneT + waited <= PublicPing
    BY <1>3, DoneFacts, TaskFields
  <2>2. r <= lostT + waited \/ (live => r <= Longest + doneT + waited)
    BY <1>3 DEF Noticing
  <2> HIDE DEF lostT, doneT, waited
  <2> QED
    BY <1>1, <2>1, <2>2
<1> QED
  BY <1>2, <1>3

\* Steps in an outage that take no time: all pings fail.
LEMMA NoticingAsks ==
    ASSUME NEW this, NEW that, NEW live, NEW r \in Nat, Reliable, Sound(Liveness, this),
           TaskOk(this), Noticing(this, live, r), Asks(Liveness, this, that)
    PROVE  Noticing(that, live, r)
<1>1. /\ this.pc = "gap" /\ that.pc = "read" /\ that.left = Timeout[Liveness]
      /\ that.due = this.due /\ that.next = this.next
      /\ Lost(that) = Lost(this) /\ Done(that) = Done(this)
  BY DEF Asks, Same, Lost, Done
<1>2. Waited(Liveness, this) = 0 /\ Waited(Liveness, that) = 0
  BY <1>1, TaskConstants DEF Waited
<1> QED
  BY <1>1, <1>2 DEF Noticing

LEMMA NoticingFails ==
    ASSUME NEW this, NEW that, NEW live, NEW r \in Nat, Reliable, Sound(Liveness, this),
           TaskOk(this), Noticing(this, live, r), PingOver(this, that),
           that.failed = this.failed + 1
    PROVE  Noticing(that, live, r)
<1> DEFINE T == Timeout[Liveness]
           waited == Waited(Liveness, this)
           lostT == Lost(this) * T
           doneT == Done(this) * T
           lostT1 == Lost(that) * T
           doneT1 == Done(that) * T
<1>1. /\ this.pc \in {"gap", "read"} /\ that.pc = "gap" /\ that.i = this.i + 1
      /\ that.due = this.due /\ that.next = this.next
      /\ that.at = this.at /\ that.lost = this.lost
  BY DEF PingOver, Same
<1>2. Lost(that) = Lost(this) + 1 /\ Done(that) = Done(this) + 1
  <2>1. this.lost \in Nat /\ this.failed \in Nat /\ this.i \in Nat
    BY TaskFields
  <2>2. (this.at - 1) * PingTimes \in Int
    BY TaskFields, TaskConstants
  <2> DEFINE before == (this.at - 1) * PingTimes
  <2>3. Done(that) = before + (that.i - 1) /\ Done(this) = before + (this.i - 1)
    BY <1>1 DEF Done
  <2> HIDE DEF before
  <2>4. before \in Int
    BY <2>2 DEF before
  <2> QED
    BY <1>1, <2>1, <2>3, <2>4 DEF Lost
<1>3. /\ T \in Nat /\ waited \in Nat /\ waited <= T
      /\ lostT \in Nat /\ doneT \in Nat /\ Lost(this) \in Nat /\ Done(this) \in Nat
  BY <1>1, DoneFacts, TaskFields, TaskConstants
<1>4. lostT1 = lostT + T /\ doneT1 = doneT + T
  <2> DEFINE x == Lost(this)
             y == Done(this)
  <2>1. x \in Nat /\ y \in Nat /\ T \in Nat
    BY <1>3
  <2> HIDE DEF x, y, T
  <2>2. (x + 1) * T = x * T + T /\ (y + 1) * T = y * T + T
    BY <2>1
  <2> QED
    BY <1>2, <2>2 DEF x, y
<1>5. Waited(Liveness, that) = 0
  BY <1>1 DEF Waited
<1>6. \/ r <= lostT + waited /\ (~this.due => r <= Interval[Liveness] - this.next)
      \/ Lost(this) = Done(this) /\ (live => r <= Longest + doneT + waited)
  BY <1>1 DEF Noticing
<1>7. Longest \in Nat
  BY OutageConstants
<1> HIDE DEF lostT, doneT, lostT1, doneT1, waited, T
<1>8. \/ r <= lostT1 /\ (~that.due => r <= Interval[Liveness] - that.next)
      \/ Lost(that) = Done(that) /\ (live => r <= Longest + doneT1)
  BY <1>1, <1>2, <1>3, <1>4, <1>6, <1>7
<1>9. lostT1 + 0 = lostT1 /\ Longest + doneT1 + 0 = Longest + doneT1
  BY <1>3, <1>4, <1>7
<1> QED
  BY <1>1, <1>5, <1>8, <1>9 DEF Noticing, lostT1, doneT1, T

LEMMA NoticingBegins ==
    ASSUME NEW this, NEW that, NEW live, NEW r \in Nat, Reliable, Sound(Liveness, this),
           Sound(Liveness, that),
           TaskOk(this), Noticing(this, live, r),
           FirstNotary(this, that) \/ NextNotary(this, that)
    PROVE  Noticing(that, live, r)
<1>0. /\ Timeout[Liveness] \in Nat /\ PingTimes \in Nat /\ Longest \in Nat
  BY TaskConstants, OutageConstants
<1>1. that.pc = "gap" /\ that.i = 1 /\ that.failed = 0 /\ Waited(Liveness, that) = 0
  BY DEF FirstNotary, NextNotary, Waited
<1>2. CASE FirstNotary(this, that)
  <2>1. Lost(that) = 0
    BY <1>1, <1>2 DEF FirstNotary, Lost
  <2>2. Done(that) = 0
    <3>1. that.at - 1 = 0 /\ that.i - 1 = 0
      BY <1>1, <1>2 DEF FirstNotary
    <3>2. 0 * PingTimes + 0 = 0
      BY <1>0
    <3> QED
      BY <3>1, <3>2 DEF Done
  <2>3. live => r <= Longest
    BY <1>2 DEF FirstNotary, Noticing
  <2>4. live => r <= Longest + Done(that) * Timeout[Liveness] + Waited(Liveness, that)
    <3>1. 0 * Timeout[Liveness] = 0
      BY <1>0
    <3>2. Longest + 0 + 0 = Longest
      BY <1>0
    <3> QED
      BY <1>1, <2>2, <2>3, <3>1, <3>2
  <2> QED
    BY <1>1, <2>1, <2>2, <2>4 DEF Noticing
<1>3. CASE NextNotary(this, that)
  <2>1. /\ this.pc = "gap" /\ this.i > PingTimes /\ that.at = this.at + 1
        /\ that.lost = this.lost + this.failed /\ that.next = this.next
        /\ that.due = this.due
    BY <1>3 DEF NextNotary
  <2>2. Waited(Liveness, this) = 0
    BY <2>1 DEF Waited
  <2>3. this.i = PingTimes + 1 /\ this.lost \in Nat /\ this.failed \in Nat
        /\ this.at \in Nat \ {0}
    BY <1>0, <2>1, TaskFields
  <2>4. Lost(that) = Lost(this)
    BY <1>1, <2>1, <2>3 DEF Lost
  <2>5. Done(that) = Done(this)
    <3> DEFINE before == (this.at - 1) * PingTimes
               upto == this.at * PingTimes
    <3>1. before \in Nat /\ upto = before + PingTimes /\ upto \in Nat
      BY <1>0, <2>3, OneMore
    <3>2. that.at - 1 = this.at
      BY <2>1, <2>3
    <3>3. Done(this) = before + (this.i - 1) /\ Done(that) = upto + (that.i - 1)
      BY <3>2 DEF Done
    <3> HIDE DEF before, upto
    <3> QED
      BY <1>0, <1>1, <2>3, <3>1, <3>3
  <2> QED
    BY <1>1, <2>1, <2>2, <2>4, <2>5 DEF Noticing
<1> QED
  BY <1>2, <1>3

\* A publicPing that ends in the outage notices it, or has not been long in it.
LEMMA NoticingConcludes ==
    ASSUME NEW this, NEW that, NEW live, NEW live1, NEW r \in Nat, Reliable,
           Sound(Liveness, this), TaskOk(this), Noticing(this, live, r),
           Concludes(this, that, live1)
    PROVE  Noticing(that, live1, r)
<1> DEFINE T == Timeout[Liveness]
           all == Len(Notary) * PingTimes
           lost == Lost(this)
           lostT == lost * T
<1>0. /\ this.pc = "gap" /\ this.i > PingTimes /\ this.at = Len(Notary)
      /\ that.pc = "idle" /\ that.next = this.next /\ that.due = this.due
  <2>1. Notary # <<>> /\ this.due \in BOOLEAN
    BY TaskFields DEF Reliable
  <2> QED
    BY <2>1 DEF Concludes
<1>1. /\ lost \in Nat /\ Done(this) = all /\ lostT \in Nat
      /\ Waited(Liveness, this) = 0
  BY <1>0, DoneFacts DEF Waited
<1>2. /\ all \in Nat \ {0} /\ T \in Nat \ {0}
  <2>1. this.at \in Nat \ {0} /\ PingTimes \in Nat \ {0} /\ T \in Nat \ {0}
    BY TaskFields, TaskConstants
  <2>2. Len(Notary) \in Nat \ {0}
    BY <1>0, <2>1
  <2>3. Len(Notary) * PingTimes >= 1 * PingTimes
    BY <2>1, <2>2, MoreTakeLonger
  <2> QED
    BY <2>1, <2>2, <2>3
<1>3. live1 = ~(100 * lost > 60 * all)
  <2>1. live1 = ~(100 * lost > 60 * PingTimes * Len(Notary))
    BY DEF Concludes, Live, Lost
  <2>2. 60 * PingTimes * Len(Notary) = 60 * all
    BY TaskConstants
  <2> QED
    BY <2>1, <2>2
<1>4. /\ PublicPing = all * T /\ PublicPing \in Nat /\ Longest \in Nat
      /\ (60 * PublicPing) \div 100 <= Longest /\ Interval[Liveness] <= Longest
      /\ Interval[Liveness] \in Nat /\ this.next \in Nat
  BY OutageConstants, TaskConstants, TaskFields DEF PublicPing
<1>5. \/ r <= lostT /\ (~this.due => r <= Interval[Liveness] - this.next)
      \/ lost = all
  <2>1. lostT + 0 = lostT
    BY <1>1
  <2> QED
    BY <1>0, <1>1, <2>1 DEF Noticing
<1> HIDE DEF all, lost, T
<1>6. live1 => 100 * lost <= 60 * all
  <2> DEFINE noticed == 100 * lost > 60 * all
  <2>1. live1 = ~noticed
    BY <1>3
  <2> HIDE DEF noticed
  <2>2. live1 => ~noticed
    BY <2>1, Zenon
  <2>3. ~noticed => 100 * lost <= 60 * all
    BY <1>1, <1>2 DEF noticed
  <2> QED
    BY <2>2, <2>3
<1>7. ASSUME live1, r <= lostT PROVE r <= Longest
  <2>1. 100 * lost <= 60 * all
    BY <1>6, <1>7
  <2>2. (100 * lost) * T <= (60 * all) * T
    BY <1>1, <1>2, <2>1, MoreTakeLonger
  <2>3. (100 * lost) * T = 100 * (lost * T) /\ (60 * all) * T = 60 * (all * T)
    BY <1>1, <1>2
  <2> HIDE DEF lostT
  <2>4. 100 * lostT <= 60 * PublicPing
    BY <1>4, <2>2, <2>3 DEF lostT
  <2>5. lostT <= (60 * PublicPing) \div 100
    BY <1>1, <1>4, <2>4
  <2>6. (60 * PublicPing) \div 100 \in Nat
    BY <1>4
  <2> QED
    BY <1>1, <1>4, <1>7, <2>5, <2>6
<1>8. live1 => IF that.due THEN r <= Longest ELSE r <= Interval[Liveness] - that.next
  <2>1. lost = all => ~live1
    BY <1>1, <1>2, <1>6
  <2> QED
    BY <1>0, <1>5, <1>7, <2>1
<1> QED
  BY <1>0, <1>8 DEF Noticing

LEMMA NoticingAges ==
    ASSUME NEW this, NEW that, NEW live, NEW r \in Nat, Reliable,
           Sound(Liveness, this), TaskOk(this), Noticing(this, live, r),
           Ages(Liveness, this, that)
    PROVE  Noticing(that, live, r + 1)
<1> DEFINE I == Interval[Liveness]
           lostT == Lost(this) * Timeout[Liveness]
           doneT == Done(this) * Timeout[Liveness]
           waited == Waited(Liveness, this)
<1>0. /\ I \in Nat \ {0} /\ Longest \in Nat /\ I <= Longest /\ this.next \in Nat
      /\ this.left \in Nat /\ this.due \in BOOLEAN /\ Timeout[Liveness] \in Nat
      /\ waited \in Nat
  BY TaskConstants, TaskFields, OutageConstants
<1>1. /\ that.pc = this.pc /\ Lost(that) = Lost(this) /\ Done(that) = Done(this)
      /\ this.pc # "gap" /\ (this.pc = "idle" => ~this.due)
      /\ that.due = (this.due \/ this.next = 1)
  BY DEF Ages, Lost, Done
<1>2. this.pc \in {"idle", "read"} => this.next > 0
  BY DEF TaskOk
<1>3. this.pc \in {"idle", "read"} =>
         /\ this.next = 1 => that.next = I /\ that.due
         /\ this.next # 1 => that.next = this.next - 1 /\ (that.due <=> this.due)
  <2>1. this.pc \in {"idle", "read"} =>
           that.next = IF this.next = 1 THEN I ELSE this.next - 1
    BY <1>0, <1>2 DEF Ages
  <2>2. /\ this.next = 1 => that.due
        /\ this.next # 1 => (that.due <=> this.due)
    BY <1>1, Zenon
  <2> QED
    BY <2>1, <2>2
<1>4. CASE this.pc = "idle"
  <2>1. live => r <= I - this.next
    BY <1>1, <1>4 DEF Noticing
  <2> HIDE DEF I
  <2>2. live => IF that.due THEN r + 1 <= Longest ELSE r + 1 <= I - that.next
    BY <1>0, <1>1, <1>2, <1>3, <1>4, <2>1
  <2> QED
    BY <1>1, <1>4, <2>2 DEF Noticing, I
<1>5. CASE this.pc = "read"
  <2>1. \/ r <= lostT + waited /\ (~this.due => r <= I - this.next)
        \/ Lost(this) = Done(this) /\ (live => r <= Longest + doneT + waited)
    BY <1>5 DEF Noticing
  <2>2. Waited(Liveness, that) = waited + 1
    <3>1. that.left = this.left - 1
      BY <1>5 DEF Ages
    <3> QED
      BY <1>0, <1>1, <1>5, <3>1 DEF Waited
  <2>3. lostT \in Nat /\ doneT \in Nat
    BY <1>5, DoneFacts
  <2> HIDE DEF I, lostT, doneT, waited
  <2>4. \/ r + 1 <= lostT + (waited + 1) /\ (~that.due => r + 1 <= I - that.next)
        \/ Lost(this) = Done(this) /\ (live => r + 1 <= Longest + doneT + (waited + 1))
    BY <1>0, <1>2, <1>3, <1>5, <2>1, <2>3
  <2> QED
    BY <1>1, <1>5, <2>2, <2>4 DEF Noticing, I, lostT, doneT
<1>6. CASE this.pc \notin {"idle", "gap", "read"}
  BY <1>1, <1>6 DEF Noticing
<1> QED
  BY <1>1, <1>4, <1>5, <1>6

-----------------------------------------------------------------------------
(* The alarms of a worker in an outage: its Pings begin an interval apart, *)
(* and the first that counts began at most a Ping before the outage.       *)

\* n: the alarms of worker w at time r of the outage.
Few(w, this, n, r) ==
    n # 0 =>
        /\ this.pc # "new" /\ this.next > 0
        /\ (IF this.pc = "idle" /\ ~this.due THEN n - 1 ELSE n) * Interval[w] <=
               r + PingTimes * Timeout[w] - (Interval[w] - this.next)
        /\ (n - 1) * Interval[w] <= NoticedAfter + PingTimes * Timeout[w]

LEMMA WorkerConstants ==
    ASSUME NEW w \in Fitting
    PROVE  /\ w \in Workers /\ w \in Pingers
           /\ Timeout[w] \in Nat \ {0} /\ Interval[w] \in Nat \ {0}
           /\ PingTimes * Timeout[w] \in Nat /\ PingTimes \in Nat /\ NoticedAfter \in Nat
<1>1. w \in Workers /\ w \in Pingers
  BY DEF Fitting, Pingers
<1>2. Timeout[w] \in Nat \ {0} /\ Interval[w] \in Nat \ {0} /\ PingTimes \in Nat
  BY <1>1, Constants
<1>3. PingTimes * Timeout[w] \in Nat
  BY <1>2
<1> QED
  BY <1>1, <1>2, <1>3, OutageConstants

LEMMA FewSteps ==
    ASSUME NEW w \in Fitting, NEW this, NEW that, NEW n \in Nat, NEW r \in Nat,
           OnTime(w, this), Few(w, this, n, r),
           \/ Asks(w, this, that) \/ PingOver(this, that)
           \/ Begins(this, that) /\ (this.pc = "new" \/ (this.pc = "idle" /\ this.due))
    PROVE  Few(w, that, n, r)
<1>1. that.pc \in {"gap", "read"} /\ that.next = this.next
  BY DEF Asks, PingOver, Begins, Same
<1>2. this.pc = "new" \/ ~(this.pc = "idle" /\ ~this.due)
  BY DEF Asks, PingOver
<1> QED
  BY <1>1, <1>2 DEF Few

LEMMA FewRests ==
    ASSUME NEW w \in Fitting, NEW this, NEW that, NEW n \in Nat, NEW m \in Nat, NEW r \in Nat,
           Sound(w, this), OnTime(w, this), Few(w, this, n, r), Rests(w, this, that),
           m = n \/ (m = n + 1 /\ r <= NoticedAfter)
    PROVE  Few(w, that, m, r)
<1> DEFINE I == Interval[w]
           all == PingTimes * Timeout[w]
           nI == n * I
           lessI == (n - 1) * I
           mI == (m - 1) * I
<1>0. /\ I \in Nat \ {0} /\ all \in Nat /\ PingTimes \in Nat /\ NoticedAfter \in Nat
  BY WorkerConstants
<1>1. /\ this.pc = "gap" /\ this.i = PingTimes + 1 /\ this.next \in Nat /\ this.next <= I
      /\ that.pc = "idle" /\ that.due = this.due /\ ~this.due
      /\ that.next = IF this.next = 0 THEN I ELSE this.next
  BY <1>0 DEF Rests, Sound, Fits, PingerType, OnTime
<1>2. this.next # 0 => I - this.next <= all
  <2>1. Waited(w, this) = 0 /\ this.i - 1 = PingTimes
    BY <1>0, <1>1 DEF Waited
  <2>2. this.next # 0 => I - this.next <= all + 0
    BY <1>1, <2>1 DEF OnTime
  <2> QED
    BY <1>0, <2>2
<1>3. CASE m = 0
  BY <1>3 DEF Few
<1>4. CASE m # 0 /\ n = 0
  <2>1. m - 1 = 0
    BY <1>4
  <2>2. mI = 0
    <3>1. 0 * I = 0
      BY <1>0
    <3> QED
      BY <2>1, <3>1
  <2> HIDE DEF mI, I, all
  <2>3. that.next > 0 /\ mI <= r + all - (I - that.next) /\ mI <= NoticedAfter + all
    BY <1>0, <1>1, <1>2, <2>2
  <2> QED
    BY <1>1, <2>3 DEF Few, mI, I, all
<1>5. CASE n # 0
  <2>1. /\ this.next > 0 /\ nI <= r + all - (I - this.next) /\ lessI <= NoticedAfter + all
    BY <1>1, <1>5 DEF Few
  <2>2. lessI \in Nat /\ nI \in Nat /\ nI = lessI + I
    BY <1>0, <1>5, OneMore
  <2>3. m = n => mI = lessI
    OBVIOUS
  <2>4. m = n + 1 => mI = nI
    <3>1. ASSUME m = n + 1 PROVE m - 1 = n
      BY <3>1
    <3> QED
      BY <3>1
  <2> HIDE DEF mI, nI, lessI, I, all
  <2>5. that.next > 0 /\ mI <= r + all - (I - that.next) /\ mI <= NoticedAfter + all
    BY <1>0, <1>1, <2>1, <2>2, <2>3, <2>4
  <2> QED
    BY <1>1, <2>5 DEF Few, mI, I, all
<1> QED
  BY <1>3, <1>4, <1>5

LEMMA FewAges ==
    ASSUME NEW w \in Fitting, NEW this, NEW that, NEW n \in Nat, NEW r \in Nat,
           Sound(w, this), Sound(w, that), OnTime(w, this), OnTime(w, that),
           Few(w, this, n, r), Ages(w, this, that)
    PROVE  Few(w, that, n, r + 1)
<1> DEFINE I == Interval[w]
           all == PingTimes * Timeout[w]
           nI == n * I
           lessI == (n - 1) * I
<1>0. /\ I \in Nat \ {0} /\ all \in Nat /\ PingTimes \in Nat /\ NoticedAfter \in Nat
  BY WorkerConstants
<1> SUFFICES ASSUME n # 0
             PROVE  Few(w, that, n, r + 1)
  BY DEF Few
<1>1. /\ this.pc # "new" /\ this.next > 0 /\ this.next \in Nat /\ this.next <= I
      /\ (IF this.pc = "idle" /\ ~this.due THEN n - 1 ELSE n) * I <= r + all - (I - this.next)
      /\ lessI <= NoticedAfter + all
      /\ this.due \in BOOLEAN /\ that.due \in BOOLEAN
      /\ this.pc \in {"new", "idle", "gap", "read", "gone"}
  <2>1. TargetOf(w, this) \notin Names
    BY FittingPings
  <2> QED
    BY <1>0, <2>1 DEF Few, Sound, Fits, PingerType
<1>2. /\ that.pc = this.pc /\ this.pc # "gap" /\ (this.pc = "idle" => ~this.due)
      /\ that.due = (this.due \/ this.next = 1)
      /\ that.next = IF this.next = 1 THEN I ELSE this.next - 1
  BY <1>1 DEF Ages
<1>3. lessI \in Nat /\ nI \in Nat /\ nI = lessI + I
  BY <1>0, OneMore
<1>4. CASE this.pc = "idle" /\ this.next = 1
  <2>1. that.due /\ that.next = I /\ lessI <= r + all - (I - this.next)
    BY <1>1, <1>2, <1>4
  <2> HIDE DEF nI, lessI, I, all
  <2>2. nI <= r + 1 + all - (I - that.next) /\ that.next > 0
    BY <1>0, <1>3, <1>4, <2>1
  <2> QED
    BY <1>1, <1>2, <2>1, <2>2 DEF Few, nI, lessI, I, all
<1>5. CASE this.pc = "idle" /\ this.next # 1
  <2>1. ~that.due /\ that.next = this.next - 1 /\ lessI <= r + all - (I - this.next)
    BY <1>1, <1>2, <1>5
  <2> HIDE DEF nI, lessI, I, all
  <2>2. lessI <= r + 1 + all - (I - that.next) /\ that.next > 0
    BY <1>0, <1>1, <1>3, <1>5, <2>1
  <2> QED
    BY <1>1, <1>2, <1>5, <2>1, <2>2 DEF Few, nI, lessI, I, all
<1>6. CASE this.pc # "idle"
  <2>1. ~that.due
    BY <1>2, <1>6 DEF OnTime
  <2>2. this.next # 1
    BY <1>2, <2>1
  <2>3. that.next = this.next - 1 /\ nI <= r + all - (I - this.next)
    BY <1>1, <1>2, <1>6, <2>2
  <2> HIDE DEF nI, lessI, I, all
  <2>4. nI <= r + 1 + all - (I - that.next) /\ that.next > 0
    BY <1>0, <1>1, <1>3, <2>2, <2>3
  <2> QED
    BY <1>1, <1>2, <1>6, <2>4 DEF Few, nI, lessI, I, all
<1> QED
  BY <1>4, <1>5, <1>6

-----------------------------------------------------------------------------
\* r: the time of the outage, of which down is the count.
Outage(r) ==
    /\ down <= r
    /\ link => r = 0
    /\ TaskRuns => Noticing(pinger[Liveness], PingLive, r)
    /\ \A w \in Fitting : Few(w, pinger[w], alarms[w], r)

Quiet == link \/ ~TaskRuns => \A w \in Workers : alarms[w] = 0

OutageInv ==
    /\ ProbeInv /\ Punctual
    /\ Reliable => TaskOk(pinger[Liveness]) /\ Quiet /\ \E r \in Nat : Outage(r)

\* livenessTask goes on once it runs.
LEMMA TaskGoesOn ==
    ASSUME PingersType, PingersGood, Reliable, Next
    PROVE  /\ TaskRuns => TaskRuns'
           /\ ~TaskBegins => (TaskRuns' => TaskRuns)
           /\ TaskBegins => ~TaskRuns
<1> DEFINE this == pinger[Liveness]
           that == pinger'[Liveness]
<1>1. \/ that = this \/ Asks(Liveness, this, that) \/ PingOver(this, that)
      \/ FirstNotary(this, that) \/ NextNotary(this, that) \/ Concludes(this, that, PingLive')
      \/ (TaskBegins /\ TaskStarts(this, that)) \/ Ages(Liveness, this, that)
  BY TaskSteps
<1>2. TaskRuns <=> this.pc \notin {"new", "gone"}
  BY DEF TaskRuns
<1>3. TaskRuns' <=> that.pc \notin {"new", "gone"}
  BY DEF TaskRuns
<1>4. TaskBegins => this.pc = "new"
  BY DEF TaskBegins
<1> HIDE DEF this, that
<1> QED
  BY <1>1, <1>2, <1>3, <1>4
     DEF Asks, PingOver, FirstNotary, NextNotary, Concludes, TaskStarts, Ages

\* Where the network and the time of an outage change.
LEMMA NetSteps ==
    ASSUME Next
    PROVE  \/ Link
           \/ Time /\ link' = link
           \/ TaskBegins /\ link' = link /\ alarms' = alarms
           \/ /\ ~TaskBegins /\ link' = link /\ down' = down
              /\ \A w \in Workers : alarms'[w] = alarms[w] \/ WorkerEnds(w)
<1>1. CASE TaskBegins
  BY <1>1 DEF TaskBegins
<1>2. CASE Link \/ Time
  BY <1>2 DEF Time
<1>3. CASE \E w \in Workers : WorkerEnds(w)
  <2>1. PICK v \in Workers : WorkerEnds(v)
    BY <1>3
  <2>2. \A w \in Workers : w # v => alarms'[w] = alarms[w]
    BY <2>1 DEF WorkerEnds
  <2> QED
    BY <1>1, <2>1, <2>2 DEF WorkerEnds
<1>4. CASE \/ ParseConfig \/ NotaryBegins \/ PublicPingEnds
           \/ \E p \in Pingers : Steps(p)
           \/ \E a \in Addresses : \E message \in {"reply", "other", "bad"} :
                 Message(a, message)
           \/ \E w \in Workers : WorkerBegins(w)
  BY <1>1, <1>4
     DEF ParseConfig, NotaryBegins, PublicPingEnds, Steps, Resolve, Dial, Request,
         RequestFails, Expire, Message, WorkerBegins
<1> QED
  BY <1>1, <1>2, <1>3, <1>4 DEF Next, Steps

\* An alarm is one more, in an outage that livenessTask has not noticed.
LEMMA WorkerEndsAlarms ==
    ASSUME WorldType, NEW w \in Workers, WorkerEnds(w)
    PROVE  \/ alarms'[w] = alarms[w]
           \/ alarms'[w] = alarms[w] + 1 /\ ~link /\ TaskRuns /\ PingLive
  BY DEF WorldType, WorkerEnds, Discards

LEMMA QuietNext ==
    ASSUME ProbeInv, Quiet, Reliable, Next
    PROVE  Quiet'
<1>0. PingersType /\ PingersGood /\ WorldType
  BY DEF ProbeInv
<1>1. CASE Link
  BY <1>1 DEF Link, Quiet
<1>2. CASE Time /\ link' = link
  <2>1. alarms' = alarms
    BY <1>2 DEF Time
  <2> QED
    BY <1>0, <1>2, <2>1, TaskGoesOn DEF Quiet
<1>3. CASE TaskBegins /\ link' = link /\ alarms' = alarms
  BY <1>0, <1>3, TaskGoesOn DEF Quiet
<1>4. CASE /\ link' = link
           /\ \A w \in Workers : alarms'[w] = alarms[w] \/ WorkerEnds(w)
  <2> SUFFICES ASSUME link' \/ ~TaskRuns', NEW w \in Workers
               PROVE  alarms'[w] = 0
    BY DEF Quiet
  <2>1. link \/ ~TaskRuns
    BY <1>0, <1>4, TaskGoesOn
  <2>2. alarms[w] = 0
    BY <2>1 DEF Quiet
  <2>3. alarms'[w] = alarms[w]
    BY <1>0, <1>4, <2>1, WorkerEndsAlarms
  <2> QED
    BY <2>2, <2>3
<1> QED
  BY <1>1, <1>2, <1>3, <1>4, NetSteps

\* An outage that is only beginning, or none.
LEMMA OutageStarts ==
    ASSUME ProbeInv', TaskOk(pinger[Liveness])', Reliable, down' <= 0,
           \A w \in Workers : alarms'[w] = 0
    PROVE  Outage(0)'
<1>1. Sound(Liveness, pinger'[Liveness])
  BY DEF ProbeInv, PingersGood, Pingers, Sound, Fits
<1>2. TaskOk(pinger'[Liveness])
  BY DEF TaskOk
<1>3. Noticing(pinger'[Liveness], PingLive', 0)
  BY <1>1, <1>2, NoticingStarts
<1>4. ASSUME NEW w \in Fitting PROVE Few(w, pinger'[w], alarms'[w], 0)
  BY DEF Few, Fitting
<1> QED
  BY <1>3, <1>4 DEF Outage, Noticing, Few, Waited, Fitting, NoticedAfter, PublicPing, Longest,
                    Lost, Done

LEMMA OutageLater ==
    ASSUME NEW r \in Nat, down' <= r, link' => r = 0,
           TaskRuns' => Noticing(pinger'[Liveness], PingLive', r),
           \A w \in Fitting : Few(w, pinger'[w], alarms'[w], r)
    PROVE  Outage(r)'
  BY DEF Outage, Noticing, Few, Waited, Fitting, NoticedAfter, PublicPing, Longest, Lost, Done

LEMMA NoticingNext ==
    ASSUME ProbeInv, ProbeInv', TaskOk(pinger[Liveness]), Reliable, ~link, TaskRuns, Next,
           ~TaskBegins, NEW r \in Nat, Noticing(pinger[Liveness], PingLive, r)
    PROVE  /\ ~Time => Noticing(pinger'[Liveness], PingLive', r)
           /\ Time => Noticing(pinger'[Liveness], PingLive', r + 1)
<1> DEFINE this == pinger[Liveness]
           that == pinger'[Liveness]
<1>0. /\ PingersType /\ PingersGood
      /\ Sound(Liveness, this) /\ Sound(Liveness, that) /\ TaskOk(this)
  BY DEF ProbeInv, PingersGood, Pingers, Sound, Fits
<1>1. CASE Time
  <2>1. ~CanGoOn(Liveness) /\ that = Later(Liveness) /\ PingLive' = PingLive
    BY <1>1 DEF Time, Pingers
  <2>2. Ages(Liveness, this, that)
    BY <1>0, <2>1, LaterFields DEF Pingers, PingersType
  <2>3. Noticing(this, PingLive, r)
    OBVIOUS
  <2> HIDE DEF this, that
  <2>4. Noticing(that, PingLive, r + 1)
    BY <1>0, <2>2, <2>3, NoticingAges
  <2> QED
    BY <1>1, <2>1, <2>4 DEF that
<1>2. CASE ~Time
  <2>1. \/ that = this /\ PingLive' = PingLive
        \/ Asks(Liveness, this, that) /\ PingLive' = PingLive
        \/ PingOver(this, that) /\ PingLive' = PingLive /\ that.failed = this.failed + 1
        \/ FirstNotary(this, that) /\ PingLive' = PingLive
        \/ NextNotary(this, that) /\ PingLive' = PingLive
        \/ Concludes(this, that, PingLive')
    BY <1>0, <1>2, TaskSteps
  <2>2. Noticing(this, PingLive, r)
    OBVIOUS
  <2> HIDE DEF this, that
  <2>3. CASE that = this /\ PingLive' = PingLive
    BY <1>2, <2>2, <2>3 DEF that
  <2>4. CASE Asks(Liveness, this, that) /\ PingLive' = PingLive
    <3>1. Noticing(that, PingLive, r)
      BY <1>0, <2>2, <2>4, NoticingAsks
    <3> QED
      BY <1>2, <2>4, <3>1 DEF that
  <2>5. CASE PingOver(this, that) /\ PingLive' = PingLive /\ that.failed = this.failed + 1
    <3>1. Noticing(that, PingLive, r)
      BY <1>0, <2>2, <2>5, NoticingFails
    <3> QED
      BY <1>2, <2>5, <3>1 DEF that
  <2>6. CASE (FirstNotary(this, that) \/ NextNotary(this, that)) /\ PingLive' = PingLive
    <3>1. Noticing(that, PingLive, r)
      BY <1>0, <2>2, <2>6, NoticingBegins
    <3> QED
      BY <1>2, <2>6, <3>1 DEF that
  <2>7. CASE Concludes(this, that, PingLive')
    <3>1. Noticing(that, PingLive', r)
      BY <1>0, <2>2, <2>7, NoticingConcludes
    <3> QED
      BY <1>2, <3>1 DEF that
  <2> QED
    BY <2>1, <2>3, <2>4, <2>5, <2>6, <2>7
<1> QED
  BY <1>1, <1>2

LEMMA FewNext ==
    ASSUME ProbeInv, ProbeInv', Punctual, Punctual', TaskOk(pinger[Liveness]),
           Reliable, ~link, Next, ~Link,
           NEW r \in Nat, Outage(r), NEW w \in Fitting
    PROVE  /\ ~Time => Few(w, pinger'[w], alarms'[w], r)
           /\ Time => Few(w, pinger'[w], alarms'[w], r + 1)
<1> DEFINE this == pinger[w]
           that == pinger'[w]
           n == alarms[w]
           m == alarms'[w]
<1>0. /\ PingersType /\ PingersGood /\ WorldType /\ w \in Workers /\ w \in Pingers
      /\ Sound(w, this) /\ Sound(w, that) /\ OnTime(w, this) /\ OnTime(w, that)
      /\ n \in Nat /\ m \in Nat /\ Few(w, this, n, r)
  <2>1. w \in Workers /\ w \in Pingers
    BY WorkerConstants
  <2>2. PingersType /\ PingersGood /\ WorldType
    BY DEF ProbeInv
  <2>3. Sound(w, this) /\ Sound(w, that)
    BY <2>1 DEF ProbeInv, PingersGood, Sound, Fits
  <2>4. OnTime(w, this) /\ OnTime(w, that)
    BY DEF Punctual, OnTime, Waited, Fitting
  <2>5. n \in Nat /\ m \in Nat
    BY <2>1 DEF ProbeInv, WorldType
  <2>6. Few(w, this, n, r)
    BY DEF Outage
  <2> QED
    BY <2>1, <2>2, <2>3, <2>4, <2>5, <2>6
<1>1. CASE Time
  <2>1. ~CanGoOn(w) /\ that = Later(w) /\ m = n
    BY <1>0, <1>1 DEF Time
  <2>2. Ages(w, this, that)
    BY <1>0, <2>1, LaterFields DEF PingersType
  <2> HIDE DEF this, that, n, m
  <2>3. Few(w, that, m, r + 1)
    BY <1>0, <2>1, <2>2, FewAges
  <2> QED
    BY <1>1, <2>3 DEF that, m
<1>2. CASE ~Time
  <2>1. \/ that = this /\ m = n
        \/ m = n /\ (Asks(w, this, that) \/ PingOver(this, that))
        \/ /\ m = n /\ Begins(this, that)
           /\ this.pc = "new" \/ (this.pc = "idle" /\ this.due)
        \/ WorkerEnds(w) /\ Rests(w, this, that)
    <3>1. AddressOf[w] \notin Names
      BY DEF Fitting
    <3> QED
      BY <1>0, <1>2, <3>1, WorkerSteps
  <2>2. WorkerEnds(w) => m = n \/ (m = n + 1 /\ r <= NoticedAfter)
    <3> SUFFICES ASSUME WorkerEnds(w), m # n, r > NoticedAfter
                 PROVE  FALSE
      <4>1. NoticedAfter \in Nat
        BY OutageConstants
      <4> QED
        BY <1>0, <4>1, WorkerEndsAlarms
    <3>1. TaskRuns /\ PingLive
      BY <1>0, WorkerEndsAlarms
    <3>2. Sound(Liveness, pinger[Liveness]) /\ PingLive \in BOOLEAN
      BY <1>0 DEF PingersGood, Pingers, WorldType
    <3>3. pinger[Liveness].pc \in {"idle", "gap", "read"}
      BY <3>1, <3>2, TaskFields DEF TaskRuns
    <3>4. Noticing(pinger[Liveness], PingLive, r)
      BY <3>1 DEF Outage
    <3> QED
      BY <3>1, <3>2, <3>3, <3>4, NoticingTells
  <2> HIDE DEF this, that, n, m
  <2>3. CASE that = this /\ m = n
    BY <1>0, <1>2, <2>3 DEF that, m
  <2>4. CASE /\ m = n
             /\ \/ Asks(w, this, that) \/ PingOver(this, that)
                \/ Begins(this, that) /\ (this.pc = "new" \/ (this.pc = "idle" /\ this.due))
    <3>1. Few(w, that, m, r)
      BY <1>0, <2>4, FewSteps
    <3> QED
      BY <1>2, <3>1 DEF that, m
  <2>5. CASE WorkerEnds(w) /\ Rests(w, this, that)
    <3>1. Few(w, that, m, r)
      BY <1>0, <2>2, <2>5, FewRests
    <3> QED
      BY <1>2, <3>1 DEF that, m
  <2> QED
    BY <2>1, <2>3, <2>4, <2>5
<1> QED
  BY <1>1, <1>2

LEMMA OutageNext ==
    ASSUME ProbeInv, ProbeInv', Punctual, Punctual', TaskOk(pinger[Liveness]),
           TaskOk(pinger[Liveness])', Quiet, Quiet', Reliable, Next, NEW r \in Nat, Outage(r)
    PROVE  \E later \in Nat : Outage(later)'
<1>0. /\ down \in Nat /\ down <= r /\ (link => r = 0) /\ PingersType /\ PingersGood
      /\ MaxDown \in Nat
  BY Constants DEF Outage, ProbeInv, WorldType
<1>1. ASSUME down' <= 0, \A w \in Workers : alarms'[w] = 0
      PROVE  \E later \in Nat : Outage(later)'
  <2>1. Outage(0)'
    BY <1>1, OutageStarts
  <2> QED
    BY <2>1
<1>2. CASE Link
  <2>1. down' = 0 /\ \A w \in Workers : alarms'[w] = 0
    BY <1>2 DEF Link
  <2> QED
    BY <1>1, <2>1
<1>3. CASE TaskBegins /\ link' = link /\ alarms' = alarms
  <2>1. ~TaskRuns /\ down' = 0
    BY <1>0, <1>3, TaskGoesOn DEF TaskBegins
  <2>2. \A w \in Workers : alarms'[w] = 0
    BY <1>3, <2>1 DEF Quiet
  <2> QED
    BY <1>1, <2>1, <2>2
<1>4. CASE Time /\ link' = link /\ ~Link
  <2>1. CASE link
    <3>1. down' = 0 /\ alarms' = alarms
      BY <1>4, <2>1 DEF Time
    <3>2. \A w \in Workers : alarms'[w] = 0
      BY <2>1, <3>1 DEF Quiet
    <3> QED
      BY <1>1, <3>1, <3>2
  <2>2. CASE ~link
    <3>1. down' <= r + 1
      <4>1. down' = Min({down + 1, MaxDown})
        BY <1>4, <2>2 DEF Time
      <4>2. Min({down + 1, MaxDown}) <= down + 1 /\ Min({down + 1, MaxDown}) \in Nat
        BY <1>0, MinOfTwo
      <4> QED
        BY <1>0, <4>1, <4>2
    <3>2. ~TaskBegins
      <4>1. Time => link' = link /\ ~CanGoOn(Liveness)
        BY DEF Time, Pingers
      <4>2. ASSUME TaskBegins PROVE FALSE
        <5>1. pinger[Liveness].pc = "new" /\ pinger'[Liveness].pc \in {"idle", "gone"}
          BY <1>0, <4>2, TaskBeginsSteps DEF TaskBegins, TaskStarts
        <5>2. pinger'[Liveness] = Later(Liveness)
          BY <1>4 DEF Time, Pingers
        <5>3. Ages(Liveness, pinger[Liveness], pinger'[Liveness])
          BY <1>0, <1>4, <4>1, <5>2, LaterFields DEF Pingers, PingersType
        <5> QED
          BY <5>1, <5>3 DEF Ages
      <4> QED
        BY <4>2
    <3>3. TaskRuns' => Noticing(pinger'[Liveness], PingLive', r + 1)
      <4>1. TaskRuns' => TaskRuns /\ Noticing(pinger[Liveness], PingLive, r)
        BY <1>0, <3>2, TaskGoesOn DEF Outage
      <4> QED
        BY <1>4, <2>2, <3>2, <4>1, NoticingNext
    <3>4. \A w \in Fitting : Few(w, pinger'[w], alarms'[w], r + 1)
      BY <1>4, <2>2, FewNext
    <3>5. ~link' /\ r + 1 \in Nat
      BY <1>4, <2>2
    <3> DEFINE later == r + 1
    <3> HIDE DEF later
    <3>6. Outage(later)'
      BY <3>1, <3>3, <3>4, <3>5, OutageLater DEF later
    <3> QED
      BY <3>5, <3>6 DEF later
  <2> QED
    BY <2>1, <2>2
<1>5. CASE /\ ~TaskBegins /\ link' = link /\ down' = down /\ ~Time /\ ~Link
           /\ \A w \in Workers : alarms'[w] = alarms[w] \/ WorkerEnds(w)
  <2>1. CASE link
    <3>1. \A w \in Workers : alarms'[w] = 0
      BY <1>5, <2>1 DEF Quiet
    <3> QED
      BY <1>0, <1>1, <1>5, <2>1, <3>1
  <2>2. CASE ~link
    <3>1. TaskRuns' => Noticing(pinger'[Liveness], PingLive', r)
      <4>1. TaskRuns' => TaskRuns /\ Noticing(pinger[Liveness], PingLive, r)
        BY <1>0, <1>5, TaskGoesOn DEF Outage
      <4> QED
        BY <1>5, <2>2, <4>1, NoticingNext
    <3>2. \A w \in Fitting : Few(w, pinger'[w], alarms'[w], r)
      BY <1>5, <2>2, FewNext
    <3>3. Outage(r)'
      BY <1>0, <1>5, <2>2, <3>1, <3>2, OutageLater
    <3> QED
      BY <3>3
  <2> QED
    BY <2>1, <2>2
<1> QED
  BY <1>2, <1>3, <1>4, <1>5, NetSteps

LEMMA OutageInvInit == Init => OutageInv
<1> SUFFICES ASSUME Init PROVE OutageInv
  OBVIOUS
<1>1. ProbeInv /\ Punctual
  BY ProbeInvInit, PunctualInit
<1>2. pinger[Liveness].pc = "new" /\ \A w \in Workers : alarms[w] = 0
  BY DEF Init, Fresh, Pingers
<1>3. TaskOk(pinger[Liveness]) /\ Quiet
  BY <1>2 DEF TaskOk, Quiet
<1>4. Outage(0)
  <2>1. down = 0 /\ ~TaskRuns
    BY <1>2 DEF Init, TaskRuns
  <2> QED
    BY <1>2, <2>1 DEF Outage, Few, Fitting
<1> QED
  BY <1>1, <1>3, <1>4 DEF OutageInv

LEMMA OutageInvNext == OutageInv /\ [Next]_vars => OutageInv'
<1>1. ASSUME OutageInv, Next PROVE OutageInv'
  <2>1. ProbeInv /\ Punctual /\ PingersType /\ PingersGood
    BY <1>1 DEF OutageInv, ProbeInv
  <2>2. ProbeInv'
    BY <1>1, <2>1, ProbeInvNext
  <2>3. Punctual'
    BY <1>1, <2>1, <2>2, PunctualNext DEF ProbeInv
  <2>4. ASSUME Reliable
        PROVE  TaskOk(pinger[Liveness])' /\ Quiet' /\ \E r \in Nat : Outage(r)'
    <3>1. TaskOk(pinger[Liveness]) /\ Quiet
      BY <1>1, <2>4 DEF OutageInv
    <3>2. PICK r \in Nat : Outage(r)
      BY <1>1, <2>4 DEF OutageInv
    <3>3. TaskOk(pinger[Liveness])'
      BY <1>1, <2>1, <2>4, <3>1, TaskOkNext DEF TaskOk
    <3>4. Quiet'
      BY <1>1, <2>1, <2>4, <3>1, QuietNext
    <3>5. \E later \in Nat : Outage(later)'
      BY <1>1, <2>1, <2>2, <2>3, <2>4, <3>1, <3>2, <3>3, <3>4, OutageNext
    <3> QED
      BY <3>3, <3>4, <3>5
  <2> QED
    BY <2>2, <2>3, <2>4 DEF OutageInv, Reliable
<1>2. ASSUME OutageInv, UNCHANGED vars PROVE OutageInv'
  <2>1. ProbeInv'
    BY <1>2, ProbeInvNext DEF OutageInv
  <2> QED
    BY <1>2, <2>1
       DEF vars, OutageInv, Punctual, OnTime, Waited, TaskOk, Quiet, TaskRuns, Outage, Noticing,
           Few, Lost, Done
<1> QED
  BY <1>1, <1>2

LEMMA AtMostSo ==
    ASSUME NEW n \in Nat, NEW d \in Nat \ {0}, NEW x \in Nat, n * d <= x
    PROVE  n <= x \div d
<1> DEFINE q == x \div d
           nd == n * d
           qd == q * d
           moreD == (q + 1) * d
<1>1. q \in Nat /\ qd <= x /\ x < qd + d
  OBVIOUS
<1> HIDE DEF q
<1>2. moreD = qd + d /\ nd \in Nat /\ qd \in Nat /\ moreD \in Nat
  BY <1>1
<1>3. q + 1 <= n => moreD <= nd
  BY <1>1, MoreTakeLonger
<1>4. nd <= x
  OBVIOUS
<1> HIDE DEF nd, qd, moreD
<1>5. ~(q + 1 <= n)
  BY <1>1, <1>2, <1>3, <1>4
<1> QED
  BY <1>1, <1>5 DEF q

\* livenessTask (liveness.go:14-70): an outage that began while it ran is noticed by
\* the publicPing after the one that it interrupted, for any notaries, timeouts and
\* interval; the bound is in their terms.
THEOREM OutagesAreNoticed == Spec => []OutageIsNoticed
<1>1. OutageInv => OutageIsNoticed
  <2> SUFFICES ASSUME OutageInv, TaskRuns, Reliable, down > NoticedAfter
               PROVE  ~PingLive
    BY DEF OutageIsNoticed
  <2>1. PICK r \in Nat : Outage(r)
    BY DEF OutageInv
  <2>2. /\ Sound(Liveness, pinger[Liveness]) /\ TaskOk(pinger[Liveness])
        /\ PingLive \in BOOLEAN /\ down \in Nat
    BY Constants DEF OutageInv, ProbeInv, PingersGood, Pingers, WorldType
  <2>3. pinger[Liveness].pc \in {"idle", "gap", "read"}
    BY <2>2, TaskFields DEF TaskRuns
  <2>4. Noticing(pinger[Liveness], PingLive, r)
    BY <2>1 DEF Outage
  <2>5. r > NoticedAfter
    BY <2>1, <2>2, OutageConstants DEF Outage
  <2> QED
    BY <2>2, <2>3, <2>4, <2>5, NoticingTells
<1> QED
  BY OutageInvInit, OutageInvNext, <1>1, PTL DEF Spec

\* pingfunc (worker.go:119-127): in an outage a worker reports no total loss but those
\* of the Pings that end before it is noticed, so many as intervals fit into that time
\* and one more.
THEOREM AlarmsAreFew == Spec => []FewFalseAlarms
<1>1. OutageInv => FewFalseAlarms
  <2> SUFFICES ASSUME OutageInv, Reliable, NEW w \in Fitting
               PROVE  alarms[w] <=
                          (NoticedAfter + PingTimes * Timeout[w]) \div Interval[w] + 1
    BY DEF FewFalseAlarms, Fitting
  <2> DEFINE I == Interval[w]
             most == NoticedAfter + PingTimes * Timeout[w]
             n == alarms[w]
  <2>1. PICK r \in Nat : Outage(r)
    BY DEF OutageInv
  <2>2. I \in Nat \ {0} /\ most \in Nat /\ w \in Workers
    BY WorkerConstants
  <2>3. n \in Nat
    BY <2>2 DEF OutageInv, ProbeInv, WorldType
  <2>4. n # 0 => (n - 1) * I <= most
    BY <2>1 DEF Outage, Few
  <2>5. most \div I \in Nat
    BY <2>2
  <2> HIDE DEF I, most, n
  <2>6. n # 0 => n - 1 <= most \div I
    BY <2>2, <2>3, <2>4, AtMostSo
  <2>7. n <= most \div I + 1
    BY <2>3, <2>5, <2>6
  <2> QED
    BY <2>7 DEF I, most, n
<1> QED
  BY OutageInvInit, OutageInvNext, <1>1, PTL DEF Spec
=============================================================================
