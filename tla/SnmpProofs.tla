----------------------------- MODULE SnmpProofs -----------------------------
(***************************************************************************)
(* For any workers, interfaces (also of equal names), names, traffic and   *)
(* bounds:                                                                 *)
(*  - every state of the snmp module has the type TypeOK (SnmpTypes);      *)
(*  - the points of a name cover no second twice (NoSecondTwice);          *)
(*  - a point has the name and the status of its own interface, whatever   *)
(*    answers are late or come twice (PointsBelong);                       *)
(*  - and every rate is 0, since no value that gosnmp decodes is an int64  *)
(*    (RatesAreZero).                                                      *)
(***************************************************************************)
EXTENDS SnmpTraffic, TLAPS

Ask == Ifs \X Requests

\* What is in the socket after a request is answers to requests, and so is what
\* was read from it.
LEMMA ExchangesType ==
    ASSUME NEW socket \in Seq(Ask), NEW request \in Ask, NEW x \in Exchanges(socket, request)
    PROVE  x.left \in Seq(Ask)
<1>1. \A a \in Answers(request) : a \in Seq(Ask)
  <2>1. <<>> \in Seq(Ask)
    OBVIOUS
  <2>2. <<request>> \in Seq(Ask)
    OBVIOUS
  <2>3. <<request, request>> \in Seq(Ask)
    OBVIOUS
  <2> QED
    BY <2>1, <2>2, <2>3 DEF Answers
<1>2. \A a \in Answers(request) : socket \o a # <<>> => Tail(socket \o a) \in Seq(Ask)
  <2> SUFFICES ASSUME NEW a \in Answers(request), socket \o a # <<>>
               PROVE  Tail(socket \o a) \in Seq(Ask)
    OBVIOUS
  <2>1. socket \o a \in Seq(Ask)
    BY <1>1
  <2> QED
    BY <2>1
<1>3. \/ \E a \in Answers(request) : socket \o a # <<>> /\ x.left = Tail(socket \o a)
      \/ \E a \in Answers(request) : x.left = a
  BY DEF Exchanges
<1> QED
  BY <1>1, <1>2, <1>3

\* A value of any type leaves the value it has or the zero value.
LEMMA AssertedIsOneOfTwo ==
    ASSUME NEW asn, NEW type, NEW value, NEW zero
    PROVE  Asserted(asn, type, value, zero) \in {value, zero}
  BY DEF Asserted

LEMMA BlankType == Blank \in ReadingType /\ Idle \in PollType
<1>1. Zero \in [Types -> Nat]
  BY DEF Zero
<1>2. Blank \in ReadingType
  BY <1>1 DEF Blank, ReadingType, Names
<1> QED
  BY <1>2 DEF Idle, PollType

\* A poll, changed in some places.
LEMMA PollFacts ==
    ASSUME NEW this \in PollType
    PROVE  /\ this.one \in ReadingType /\ this.todo \in Seq(Ifs) /\ this.socket \in Seq(Ask)
           /\ \A pc \in {"info", "in", "out", "status", "make"} :
                 /\ [this EXCEPT !.pc = pc] \in PollType
                 /\ [this EXCEPT !.pc = pc].pc = pc
           /\ \A t \in Seq(Ifs) : [this EXCEPT !.todo = t] \in PollType
           /\ \A t \in Seq(Ask) : [this EXCEPT !.socket = t] \in PollType
           /\ \A i \in Ifs : [this EXCEPT !.at = i] \in PollType
           /\ \A one \in ReadingType : [this EXCEPT !.one = one] \in PollType
           /\ \A ok \in BOOLEAN : [this EXCEPT !.ok = ok] \in PollType
  BY DEF PollType, Ask

LEMMA NextOfType ==
    ASSUME NEW this \in PollType
    PROVE  NextOf(this) \in PollType /\ NextOf(this).pc = "info"
<1> DEFINE r1 == [Idle EXCEPT !.pc = "info"]
           r2 == [r1 EXCEPT !.todo = this.todo]
<1>1. this.todo \in Seq(Ifs) /\ this.socket \in Seq(Ask)
  BY PollFacts
<1>2. r1 \in PollType
  BY BlankType, PollFacts
<1>3. r2 \in PollType
  BY <1>1, <1>2, PollFacts
<1>4. NextOf(this) = [r2 EXCEPT !.socket = this.socket]
  BY DEF NextOf
<1>5. NextOf(this).pc = "info"
  BY DEF NextOf, Idle
<1> HIDE DEF r1, r2
<1>6. \A t \in Seq(Ask) : [r2 EXCEPT !.socket = t] \in PollType
  BY <1>3, PollFacts
<1>7. NextOf(this) \in PollType
  BY <1>1, <1>4, <1>6
<1> QED
  BY <1>5, <1>7

\* A step that only takes a poll on.
LEMMA GoesType ==
    ASSUME TypeOK, NEW p \in Workers, NEW now \in PollType, NEW event, Goes(p, now, event),
           inst[p].pc = "select", now.pc \notin {"idle", "info"} => now.at \in Ifs
    PROVE  TypeOK'
<1>1. /\ poll' = [poll EXCEPT ![p] = now]
      /\ UNCHANGED <<clock, advanced, carried, worker, inst, history, lasttime, covered>>
      /\ point' = NoPoint
  BY DEF Goes, time, workers, points
<1>2. poll' \in [Workers -> PollType]
  BY <1>1 DEF TypeOK
<1>3. \A q \in Workers : (q = p /\ poll'[q] = now) \/ poll'[q] = poll[q]
  BY <1>1 DEF TypeOK
<1> QED
  BY <1>1, <1>2, <1>3 DEF TypeOK

\* The reading of a poll, changed in one place.
LEMMA ReadingFacts ==
    ASSUME NEW one \in ReadingType
    PROVE  /\ one.name \in Names /\ one.status \in Ifs \cup {NoIf}
           /\ one.value \in [Types -> Nat] /\ one.carried \in [Types -> Nat]
           /\ one.odd \subseteq {"info", "status"}
           /\ \A n \in Names, odd \in SUBSET {"info", "status"} :
                 [one EXCEPT !.name = n, !.odd = odd] \in ReadingType
           /\ \A s \in Ifs \cup {NoIf}, odd \in SUBSET {"info", "status"} :
                 [one EXCEPT !.status = s, !.odd = odd] \in ReadingType
           /\ \A type \in Types, v \in Nat, b \in Nat :
                 [one EXCEPT !.value[type] = v, !.carried[type] = b] \in ReadingType
  BY DEF ReadingType

LEMMA TypeInit == Init => TypeOK
<1> SUFFICES ASSUME Init PROVE TypeOK
  OBVIOUS
<1>1. Nobody \in InstType
  BY DEF Nobody, SnmpWorker, InstType
<1>2. Zero \in [Types -> Nat]
  BY DEF Zero
<1>3. clock \in 0 .. MaxTime /\ advanced \in Nat
  BY SnmpAssumption DEF Init
<1>4. DOMAIN history = {} /\ DOMAIN lasttime = {}
  BY DEF Init
<1>5. /\ DOMAIN history \subseteq Names /\ history \in [DOMAIN history -> ReadingType]
      /\ lasttime \in [DOMAIN history -> 0 .. MaxTime]
  BY <1>4 DEF Init
<1>6. inst \in [Workers -> InstType] /\ poll \in [Workers -> PollType]
  BY <1>1, BlankType DEF Init
<1>7. \A p \in Workers : poll[p].pc = "idle"
  BY DEF Init, Idle
<1>8. carried \in [Ifs -> [Types -> Nat]] /\ covered \in [Names -> Nat]
  BY <1>2 DEF Init
<1> QED
  BY <1>3, <1>5, <1>6, <1>7, <1>8 DEF TypeOK, Init

\* The steps that take no part in a poll.
LEMMA TypeWorld ==
    ASSUME TypeOK,
           \/ \E i \in Ifs, type \in Types : Carry(i, type)
           \/ Second \/ SetBack
    PROVE  TypeOK'
<1>1. CASE \E i \in Ifs, type \in Types : Carry(i, type)
  <2>1. PICK i \in Ifs, type \in Types : Carry(i, type)
    BY <1>1
  <2>2. carried' \in [Ifs -> [Types -> Nat]]
    BY <2>1 DEF Carry, TypeOK
  <2>3. /\ UNCHANGED <<clock, advanced, worker, inst, poll, history, lasttime, covered>>
        /\ point' = NoPoint
    BY <2>1 DEF Carry, time, workers, points
  <2> QED
    BY <2>2, <2>3 DEF TypeOK
<1>2. CASE Second
  <2>1. clock' \in 0 .. MaxTime /\ advanced' \in Nat
    BY <1>2, SnmpAssumption DEF Second, TypeOK
  <2>2. /\ UNCHANGED <<carried, worker, inst, poll, history, lasttime, covered>>
        /\ point' = NoPoint
    BY <1>2 DEF Second, workers, points
  <2> QED
    BY <2>1, <2>2 DEF TypeOK
<1>3. CASE SetBack
  <2>1. clock' \in 0 .. MaxTime
    BY <1>3, SnmpAssumption DEF SetBack, TypeOK
  <2>2. /\ UNCHANGED <<advanced, carried, worker, inst, poll, history, lasttime, covered>>
        /\ point' = NoPoint
    BY <1>3 DEF SetBack, workers, points
  <2> QED
    BY <2>1, <2>2 DEF TypeOK
<1> QED
  BY <1>1, <1>2, <1>3

\* The steps of the master and of the goroutines of workers, outside a poll.
LEMMA TypeWorkers ==
    ASSUME TypeOK,
           \/ CreateWorker \/ RemoveWorker
           \/ \E p \in Workers : RunBegins(p) \/ Exit(p)
    PROVE  TypeOK'
<1>0. /\ Nobody \in InstType /\ SnmpWorker("born", FALSE, FALSE) \in InstType
      /\ \A done \in BOOLEAN : SnmpWorker("sleep", TRUE, done) \in InstType
      /\ Nobody.pc = "none"
  BY DEF Nobody, SnmpWorker, InstType
<1>1. /\ UNCHANGED <<clock, advanced, carried, poll, history, lasttime, covered>>
      /\ point' = NoPoint
  BY DEF CreateWorker, RemoveWorker, RunBegins, Exit, time, points
<1>2. SUFFICES /\ inst' \in [Workers -> InstType] /\ worker' \in Workers \cup {NoWorker}
               /\ \A p \in Workers : poll[p].pc # "idle" => inst'[p].pc = "select"
  BY <1>1 DEF TypeOK
<1>3. CASE CreateWorker
  <2>1. PICK p \in Workers :
           /\ inst[p] = Nobody /\ worker' = p
           /\ inst' = [inst EXCEPT ![p] = SnmpWorker("born", FALSE, FALSE)]
    BY <1>3 DEF CreateWorker
  <2>2. poll[p].pc = "idle"
    BY <2>1, <1>0 DEF TypeOK
  <2> QED
    BY <1>0, <2>1, <2>2 DEF TypeOK
<1>4. CASE RemoveWorker
  <2>1. worker \in Workers
    BY <1>4 DEF RemoveWorker, TypeOK
  <2>2. /\ inst' \in [Workers -> InstType]
        /\ \A p \in Workers : inst'[p].pc = inst[p].pc
    BY <1>4, <2>1 DEF RemoveWorker, TypeOK, InstType
  <2>3. worker' = NoWorker
    BY <1>4 DEF RemoveWorker
  <2> QED
    BY <2>2, <2>3 DEF TypeOK
<1>5. CASE \E p \in Workers : RunBegins(p) \/ Exit(p)
  <2>1. PICK p \in Workers : RunBegins(p) \/ Exit(p)
    BY <1>5
  <2>2. worker' = worker
    BY <2>1 DEF RunBegins, Exit
  <2>3. poll[p].pc = "idle"
    BY <2>1 DEF RunBegins, Exit, TypeOK
  <2>4. \E x \in InstType : inst' = [inst EXCEPT ![p] = x]
    <3>1. inst[p].done \in BOOLEAN
      BY DEF TypeOK, InstType
    <3>2. CASE RunBegins(p)
      BY <3>1, <3>2, <1>0 DEF RunBegins, TypeOK
    <3>3. CASE Exit(p)
      BY <3>3, <1>0 DEF Exit
    <3> QED
      BY <2>1, <3>2, <3>3
  <2> QED
    BY <2>2, <2>3, <2>4 DEF TypeOK
<1> QED
  BY <1>3, <1>4, <1>5

LEMMA TypeStartPoll ==
    ASSUME TypeOK, NEW p \in Workers, StartPoll(p)
    PROVE  TypeOK'
<1>1. PICK list \in {Infs, <<>>} :
         poll' = [poll EXCEPT ![p] = [Idle EXCEPT !.pc = "info", !.todo = list]]
  BY DEF StartPoll
<1>2. list \in Seq(Ifs)
  <2>1. Infs \in Seq(Ifs)
    BY SnmpAssumption DEF Ifs
  <2>2. <<>> \in Seq(Ifs)
    OBVIOUS
  <2> QED
    BY <2>1, <2>2
<1>3. [Idle EXCEPT !.pc = "info"] \in PollType
  BY BlankType, PollFacts
<1>4. [[Idle EXCEPT !.pc = "info"] EXCEPT !.todo = list] \in PollType
  BY <1>2, <1>3, PollFacts
<1> DEFINE now == [Idle EXCEPT !.pc = "info", !.todo = list]
<1>5. now \in PollType /\ now.pc = "info"
  BY <1>4 DEF Idle
<1>6. poll' = [poll EXCEPT ![p] = now]
  BY <1>1
<1> HIDE DEF now
<1>7. poll' \in [Workers -> PollType]
  BY <1>5, <1>6 DEF TypeOK
<1>8. inst' = [inst EXCEPT ![p].pc = "select"]
  BY DEF StartPoll
<1>9. inst' \in [Workers -> InstType]
  BY <1>8 DEF TypeOK, InstType
<1>10. \A q \in Workers : /\ poll'[q].pc # "idle" => inst'[q].pc = "select"
                          /\ poll'[q].pc \notin {"idle", "info"} => poll'[q].at \in Ifs
  BY <1>5, <1>6, <1>8 DEF TypeOK, InstType
<1>11. /\ UNCHANGED <<clock, advanced, carried, worker, history, lasttime, covered>>
       /\ point' = NoPoint
  BY DEF StartPoll, time, points
<1> QED
  BY <1>7, <1>9, <1>10, <1>11 DEF TypeOK

\* The interface that a poll comes to, and what its request may find.
LEMMA HeadFacts ==
    ASSUME NEW this \in PollType, this.todo # <<>>
    PROVE  Head(this.todo) \in Ifs /\ Tail(this.todo) \in Seq(Ifs)
<1>1. this.todo \in Seq(Ifs)
  BY PollFacts
<1>2. \A s \in Seq(Ifs) : s # <<>> => Head(s) \in Ifs /\ Tail(s) \in Seq(Ifs)
  OBVIOUS
<1> QED
  BY <1>1, <1>2

LEMMA AskFacts ==
    ASSUME NEW i \in Ifs, NEW r \in Requests
    PROVE  /\ <<i, r>> \in Ask
           /\ \A got : Accepted(got, <<i, r>>) => got[1] = i /\ got[2] = r
  BY DEF Ask, Accepted

LEMMA TypeGetInfo ==
    ASSUME TypeOK, NEW p \in Workers, GetInfo(p)
    PROVE  TypeOK'
<1> DEFINE this == poll[p]
           i == Head(this.todo)
<1>1. this \in PollType /\ this.pc = "info" /\ this.todo # <<>> /\ inst[p].pc = "select"
  BY DEF GetInfo, TypeOK
<1>2. i \in Ifs /\ Tail(this.todo) \in Seq(Ifs)
  BY <1>1, HeadFacts
<1>3. <<i, "info">> \in Ask
  BY <1>2, AskFacts DEF Requests
<1>4. PICK x \in Exchanges(this.socket, <<i, "info">>), odd \in BOOLEAN :
         LET asn == IF odd THEN "Null" ELSE Asn(x.got[2])
             rest == [this EXCEPT !.todo = Tail(@), !.socket = x.left]
         IN  IF Accepted(x.got, <<i, "info">>)
             THEN Goes(p, [rest EXCEPT !.pc = "in", !.at = i,
                              !.one.name = Asserted(asn, "string", NameOf[x.got[1]], NoName),
                              !.one.odd = Odd(poll[p].one, "info", odd)],
                       x.fault \/ odd)
             ELSE ~odd /\ Goes(p, rest, x.fault)
  BY DEF GetInfo
<1>5. x.left \in Seq(Ask)
  BY <1>1, <1>3, PollFacts, ExchangesType
<1> DEFINE rest == [this EXCEPT !.todo = Tail(@), !.socket = x.left]
<1>6. rest \in PollType /\ rest.pc = "info" /\ rest.one = this.one
  <2>1. [this EXCEPT !.todo = Tail(this.todo)] \in PollType
    BY <1>1, <1>2, PollFacts
  <2>2. [[this EXCEPT !.todo = Tail(this.todo)] EXCEPT !.socket = x.left] \in PollType
    BY <1>5, <2>1, PollFacts
  <2> QED
    BY <1>1, <2>2 DEF PollType
<1>7. CASE Accepted(x.got, <<i, "info">>)
  <2> DEFINE asn == IF odd THEN "Null" ELSE Asn(x.got[2])
             name == Asserted(asn, "string", NameOf[x.got[1]], NoName)
             one == [rest.one EXCEPT !.name = name, !.odd = Odd(this.one, "info", odd)]
             now == [rest EXCEPT !.pc = "in", !.at = i, !.one = one]
  <2>1. name \in Names
    <3>1. x.got[1] = i
      BY <1>2, <1>7, AskFacts DEF Requests
    <3>2. NameOf[x.got[1]] \in Names /\ NoName \in Names
      BY <1>2, <3>1 DEF Names
    <3> QED
      BY <3>2, AssertedIsOneOfTwo
  <2>2. Odd(this.one, "info", odd) \subseteq {"info", "status"}
    BY <1>1, PollFacts, ReadingFacts DEF Odd
  <2>3. one \in ReadingType
    BY <1>1, <1>6, <2>1, <2>2, PollFacts, ReadingFacts
  <2>4. Goes(p, now, x.fault \/ odd)
    BY <1>4, <1>7
  <2>5. now \in PollType /\ now.at \in Ifs
    BY <1>2, <1>6, <2>3 DEF PollType
  <2> HIDE DEF now
  <2> QED
    BY <1>1, <2>4, <2>5, GoesType
<1>8. CASE ~Accepted(x.got, <<i, "info">>)
  <2>1. Goes(p, rest, x.fault)
    BY <1>4, <1>8
  <2> HIDE DEF rest
  <2> QED
    BY <1>1, <1>6, <2>1, GoesType
<1> QED
  BY <1>7, <1>8

LEMMA TypeGetTraffic ==
    ASSUME TypeOK, NEW p \in Workers, NEW type \in Types, GetTraffic(p, type)
    PROVE  TypeOK'
<1> DEFINE this == poll[p]
           i == this.at
           pc == IF type = "in" THEN "out" ELSE "status"
           bytes == carried[i][type]
<1>1. this \in PollType /\ this.pc = type /\ i \in Ifs /\ inst[p].pc = "select"
  BY DEF GetTraffic, TypeOK, Types
<1>2. bytes \in Nat
  BY <1>1 DEF TypeOK
<1>3. <<i, type>> \in Ask
  BY <1>1, AskFacts DEF Requests, Types
<1>4. PICK x \in Exchanges(this.socket, <<i, type>>), odd \in BOOLEAN :
         LET asn == IF odd THEN "Null" ELSE Asn(x.got[2])
             next == [this EXCEPT !.pc = pc, !.socket = x.left]
         IN  IF Accepted(x.got, <<i, type>>)
             THEN Goes(p, [next EXCEPT !.one.value[type] = Asserted(asn, "int64", bytes, 0),
                                       !.one.carried[type] = bytes],
                       x.fault \/ odd)
             ELSE ~odd /\ Goes(p, [next EXCEPT !.ok = FALSE], x.fault)
  BY DEF GetTraffic
<1>5. x.left \in Seq(Ask)
  BY <1>1, <1>3, PollFacts, ExchangesType
<1> DEFINE next == [this EXCEPT !.pc = pc, !.socket = x.left]
<1>6. next \in PollType /\ next.at = i /\ next.one = this.one
  <2>1. [this EXCEPT !.pc = pc] \in PollType
    BY <1>1, PollFacts DEF Types
  <2>2. [[this EXCEPT !.pc = pc] EXCEPT !.socket = x.left] \in PollType
    BY <1>5, <2>1, PollFacts
  <2> QED
    BY <1>1, <2>2 DEF PollType
<1> HIDE DEF bytes
<1>7. CASE Accepted(x.got, <<i, type>>)
  <2> DEFINE asn == IF odd THEN "Null" ELSE Asn(x.got[2])
             v == Asserted(asn, "int64", bytes, 0)
             one == [next.one EXCEPT !.value[type] = v, !.carried[type] = bytes]
             now == [next EXCEPT !.one = one]
  <2>1. v \in Nat
    BY <1>2, AssertedIsOneOfTwo
  <2>2. one \in ReadingType
    <3> HIDE DEF v, next
    <3> QED
      BY <1>1, <1>2, <1>6, <2>1, PollFacts, ReadingFacts
  <2>3. Goes(p, now, x.fault \/ odd)
    <3>1. Goes(p, [next EXCEPT !.one.value[type] = v, !.one.carried[type] = bytes],
               x.fault \/ odd)
      BY <1>4, <1>7
    <3>2. [next EXCEPT !.one.value[type] = v, !.one.carried[type] = bytes] = now
      <4> HIDE DEF v, next
      <4> QED
        BY <1>6 DEF PollType, ReadingType
    <3> QED
      BY <3>1, <3>2
  <2>4. now \in PollType
    <3> HIDE DEF one, next
    <3> QED
      BY <1>6, <2>2, PollFacts
  <2>5. now.at \in Ifs
    BY <1>1, <1>6 DEF PollType
  <2> HIDE DEF now
  <2> QED
    BY <1>1, <2>3, <2>4, <2>5, GoesType
<1>8. CASE ~Accepted(x.got, <<i, type>>)
  <2> DEFINE now == [next EXCEPT !.ok = FALSE]
  <2>1. Goes(p, now, x.fault)
    BY <1>4, <1>8
  <2>2. now \in PollType
    <3> HIDE DEF next
    <3> QED
      BY <1>6, PollFacts
  <2>3. now.at \in Ifs
    BY <1>1, <1>6 DEF PollType
  <2> HIDE DEF now
  <2> QED
    BY <1>1, <2>1, <2>2, <2>3, GoesType
<1> QED
  BY <1>7, <1>8

LEMMA TypeGetStatus ==
    ASSUME TypeOK, NEW p \in Workers, GetStatus(p)
    PROVE  TypeOK'
<1> DEFINE this == poll[p]
           i == this.at
<1>1. this \in PollType /\ this.pc = "status" /\ i \in Ifs /\ inst[p].pc = "select"
  BY DEF GetStatus, TypeOK
<1>2. <<i, "status">> \in Ask
  BY <1>1, AskFacts DEF Requests
<1>3. PICK x \in Exchanges(this.socket, <<i, "status">>), odd \in BOOLEAN :
         LET asn == IF odd THEN "Null" ELSE Asn(x.got[2])
             rest == [this EXCEPT !.socket = x.left]
         IN  IF Accepted(x.got, <<i, "status">>) /\ this.ok
             THEN Goes(p, [rest EXCEPT !.pc = "make",
                              !.one.status = Asserted(asn, "int", x.got[1], NoIf),
                              !.one.odd = Odd(this.one, "status", odd)],
                       x.fault \/ odd)
             ELSE ~odd /\ Goes(p, NextOf(rest), x.fault)
  BY DEF GetStatus
<1> DEFINE rest == [this EXCEPT !.socket = x.left]
<1>4. x.left \in Seq(Ask)
  BY <1>1, <1>2, PollFacts, ExchangesType
<1>5. rest \in PollType /\ rest.at = i /\ rest.one = this.one
  <2>1. rest \in PollType
    BY <1>1, <1>4, PollFacts
  <2> QED
    BY <1>1, <2>1 DEF PollType
<1>6. CASE Accepted(x.got, <<i, "status">>) /\ this.ok
  <2> DEFINE asn == IF odd THEN "Null" ELSE Asn(x.got[2])
             s == Asserted(asn, "int", x.got[1], NoIf)
             one == [rest.one EXCEPT !.status = s, !.odd = Odd(this.one, "status", odd)]
             now == [rest EXCEPT !.pc = "make", !.one = one]
  <2>1. s \in Ifs \cup {NoIf}
    <3>1. x.got[1] = i
      BY <1>1, <1>6, AskFacts DEF Requests
    <3> QED
      BY <1>1, <3>1, AssertedIsOneOfTwo
  <2>2. Odd(this.one, "status", odd) \subseteq {"info", "status"}
    BY <1>1, PollFacts, ReadingFacts DEF Odd
  <2>3. one \in ReadingType
    <3> HIDE DEF s, rest
    <3> QED
      BY <1>1, <1>5, <2>1, <2>2, PollFacts, ReadingFacts
  <2>4. Goes(p, now, x.fault \/ odd)
    BY <1>3, <1>6
  <2>5. now \in PollType /\ now.at \in Ifs
    <3> HIDE DEF one, rest
    <3> QED
      BY <1>1, <1>5, <2>3 DEF PollType
  <2> HIDE DEF now
  <2> QED
    BY <1>1, <2>4, <2>5, GoesType
<1>7. CASE ~(Accepted(x.got, <<i, "status">>) /\ this.ok)
  <2>1. Goes(p, NextOf(rest), x.fault)
    BY <1>3, <1>7
  <2>2. NextOf(rest) \in PollType /\ NextOf(rest).pc = "info"
    BY <1>5, NextOfType
  <2> QED
    BY <1>1, <2>1, <2>2, GoesType
<1> QED
  BY <1>6, <1>7

LEMMA TypeEndPoll ==
    ASSUME TypeOK, NEW p \in Workers, EndPoll(p)
    PROVE  TypeOK'
<1>1. Goes(p, Idle, FALSE) /\ inst[p].pc = "select"
  BY DEF EndPoll, TypeOK
<1>2. Idle \in PollType /\ Idle.pc = "idle"
  BY BlankType DEF Idle
<1> QED
  BY <1>1, <1>2, GoesType

\* What Remember does with the two maps.
LEMMA WithType ==
    ASSUME NEW S, NEW R, NEW f, f \in [DOMAIN f -> R], DOMAIN f \subseteq S,
           NEW n \in S, NEW x \in R
    PROVE  /\ DOMAIN With(f, n, x) = DOMAIN f \cup {n}
           /\ DOMAIN With(f, n, x) \subseteq S
           /\ With(f, n, x) \in [DOMAIN With(f, n, x) -> R]
           /\ With(f, n, x)[n] = x
           /\ \A m \in DOMAIN f : m # n => With(f, n, x)[m] = f[m]
  BY DEF With

LEMMA TypeMakePoint ==
    ASSUME TypeOK, NEW p \in Workers, MakePoint(p)
    PROVE  TypeOK'
<1> DEFINE one == poll[p].one
           name == one.name
<1>1. poll[p] \in PollType /\ inst[p].pc = "select"
  BY DEF MakePoint, TypeOK
<1>2. one \in ReadingType /\ name \in Names
  BY <1>1, PollFacts, ReadingFacts
<1>3. /\ history' = With(history, name, one)
      /\ lasttime' = With(lasttime, name, clock)
      /\ poll' = [poll EXCEPT ![p] = NextOf(@)]
      /\ UNCHANGED <<clock, advanced, carried, worker, inst>>
  BY DEF MakePoint, Remember, time, workers
<1> HIDE DEF one, name
<1>4. /\ DOMAIN history' \subseteq Names /\ DOMAIN history' = DOMAIN history \cup {name}
      /\ history' \in [DOMAIN history' -> ReadingType]
  <2>1. DOMAIN history \subseteq Names /\ history \in [DOMAIN history -> ReadingType]
    BY DEF TypeOK
  <2>2. /\ DOMAIN With(history, name, one) = DOMAIN history \cup {name}
        /\ DOMAIN With(history, name, one) \subseteq Names
        /\ With(history, name, one) \in [DOMAIN With(history, name, one) -> ReadingType]
    BY <1>2, <2>1, WithType
  <2> QED
    BY <1>3, <2>2
<1>5. lasttime' \in [DOMAIN history' -> 0 .. MaxTime]
  <2>1. DOMAIN lasttime = DOMAIN history
    BY DEF TypeOK
  <2> QED
    BY <1>2, <1>3, <1>4, <2>1 DEF TypeOK, With
<1>6. covered' \in [Names -> Nat] /\ (point' = NoPoint \/ point'.duration > 0)
  <2> DEFINE duration == clock - lasttime[name]
  <2>1. CASE NothingToCompare(name, one)
    <3>1. point' = NoPoint /\ UNCHANGED covered
      BY <2>1 DEF MakePoint, one, name
    <3> QED
      BY <3>1 DEF TypeOK
  <2>2. CASE ~NothingToCompare(name, one)
    <3>1. /\ point'.duration = duration
          /\ covered' = [covered EXCEPT ![name] = @ + duration]
      BY <2>2 DEF MakePoint, one, name
    <3>2. duration \in Nat /\ duration > 0
      <4>1. name \in DOMAIN lasttime /\ ~(duration <= 0)
        BY <2>2 DEF NothingToCompare
      <4>2. lasttime[name] \in 0 .. MaxTime /\ clock \in 0 .. MaxTime
        BY <4>1 DEF TypeOK
      <4> QED
        BY <4>1, <4>2, SnmpAssumption
    <3> HIDE DEF duration
    <3>3. covered' \in [Names -> Nat]
      BY <1>2, <3>1, <3>2 DEF TypeOK
    <3> QED
      BY <3>1, <3>2, <3>3
  <2> QED
    BY <2>1, <2>2
<1>7. /\ poll' \in [Workers -> PollType]
      /\ \A q \in Workers : (q = p /\ poll'[q].pc = "info") \/ poll'[q] = poll[q]
  <2>1. NextOf(poll[p]) \in PollType /\ NextOf(poll[p]).pc = "info"
    BY <1>1, NextOfType
  <2> QED
    BY <1>3, <2>1 DEF TypeOK
<1>8. \A q \in Workers : /\ poll'[q].pc # "idle" => inst'[q].pc = "select"
                         /\ poll'[q].pc \notin {"idle", "info"} => poll'[q].at \in Ifs
  BY <1>1, <1>3, <1>7 DEF TypeOK
<1> QED
  BY <1>3, <1>4, <1>5, <1>6, <1>7, <1>8 DEF TypeOK

LEMMA TypeNext == TypeOK /\ [Next]_vars => TypeOK'
<1> SUFFICES ASSUME TypeOK, [Next]_vars PROVE TypeOK'
  OBVIOUS
<1>1. CASE \/ \E i \in Ifs, type \in Types : Carry(i, type)
           \/ Second \/ SetBack
  BY <1>1, TypeWorld
<1>2. CASE \/ CreateWorker \/ RemoveWorker
           \/ \E p \in Workers : RunBegins(p) \/ Exit(p)
  BY <1>2, TypeWorkers
<1>3. CASE \E p \in Workers : \/ StartPoll(p) \/ GetInfo(p) \/ GetStatus(p) \/ EndPoll(p)
                              \/ MakePoint(p) \/ \E type \in Types : GetTraffic(p, type)
  BY <1>3, TypeStartPoll, TypeGetInfo, TypeGetTraffic, TypeGetStatus, TypeEndPoll,
     TypeMakePoint
<1>4. CASE UNCHANGED vars
  BY <1>4 DEF vars, TypeOK
<1> QED
  BY <1>1, <1>2, <1>3, <1>4 DEF Next

\* Every state of the snmp module has the type TypeOK: no point has a duration
\* of 0 or less, and the two maps always have the same names.
THEOREM SnmpTypes == Spec => []TypeOK
<1>1. Init => TypeOK
  BY TypeInit
<1>2. TypeOK /\ [Next]_vars => TypeOK'
  BY TypeNext
<1> QED
  BY <1>1, <1>2, PTL DEF Spec

-----------------------------------------------------------------------------
(* No second is covered twice.  What the points of a name cover, and the time *)
(* since its last reading, are together no more than the clock has gone ahead. *)

CoverInv ==
    \A n \in Names :
        /\ covered[n] <= advanced
        /\ n \in DOMAIN lasttime => covered[n] + (clock - lasttime[n]) <= advanced

\* Every step but those of the clock and of MakePoint leaves these as they are.
LEMMA QuietSteps ==
    ASSUME [Next]_vars, ~Second, ~SetBack, \A p \in Workers : ~MakePoint(p)
    PROVE  UNCHANGED <<clock, advanced, history, lasttime, covered>>
<1>1. CASE \E p \in Workers : \/ RunBegins(p) \/ StartPoll(p) \/ Exit(p)
                              \/ GetInfo(p) \/ GetStatus(p) \/ EndPoll(p)
                              \/ \E type \in Types : GetTraffic(p, type)
  <2>1. PICK p \in Workers : \/ RunBegins(p) \/ StartPoll(p) \/ Exit(p)
                             \/ GetInfo(p) \/ GetStatus(p) \/ EndPoll(p)
                             \/ \E type \in Types : GetTraffic(p, type)
    BY <1>1
  <2>2. UNCHANGED <<time, points>>
    <3>1. CASE RunBegins(p) \/ StartPoll(p) \/ Exit(p)
      BY <3>1 DEF RunBegins, StartPoll, Exit
    <3>2. CASE GetInfo(p)
      BY <3>2 DEF GetInfo, Goes
    <3>3. CASE GetStatus(p)
      BY <3>3 DEF GetStatus, Goes
    <3>4. CASE EndPoll(p)
      BY <3>4 DEF EndPoll, Goes
    <3>5. CASE \E type \in Types : GetTraffic(p, type)
      BY <3>5 DEF GetTraffic, Goes
    <3> QED
      BY <2>1, <3>1, <3>2, <3>3, <3>4, <3>5
  <2> QED
    BY <2>2 DEF time, points
<1>2. CASE \/ \E i \in Ifs, type \in Types : Carry(i, type)
           \/ CreateWorker \/ RemoveWorker
  BY <1>2 DEF Carry, CreateWorker, RemoveWorker, time, points
<1>3. CASE UNCHANGED vars
  BY <1>3 DEF vars
<1> QED
  BY <1>1, <1>2, <1>3 DEF Next

LEMMA CoverMakePoint ==
    ASSUME TypeOK, CoverInv, NEW p \in Workers, MakePoint(p)
    PROVE  CoverInv'
<1> DEFINE one == poll[p].one
           name == one.name
           duration == clock - lasttime[name]
<1>1. name \in Names
  BY PollFacts, ReadingFacts DEF TypeOK
<1>2. lasttime' = With(lasttime, name, clock) /\ UNCHANGED <<clock, advanced>>
  BY DEF MakePoint, Remember, time
<1> HIDE DEF one, name
<1>3. clock \in Nat /\ advanced \in Nat /\ covered \in [Names -> Nat]
  BY SnmpAssumption DEF TypeOK
<1>4. \A n \in Names : n # name =>
         /\ n \in DOMAIN lasttime' => n \in DOMAIN lasttime /\ lasttime'[n] = lasttime[n]
         /\ covered'[n] = covered[n]
  <2>1. covered' = covered \/ covered' = [covered EXCEPT ![name] = @ + duration]
    BY DEF MakePoint, one, name
  <2> QED
    BY <1>1, <1>2, <1>3, <2>1 DEF With
<1>5. lasttime'[name] = clock
  BY <1>2 DEF With
<1>6. covered'[name] <= advanced
  <2>1. CASE NothingToCompare(name, one)
    <3>1. covered' = covered
      BY <2>1 DEF MakePoint, one, name
    <3> QED
      BY <1>1, <3>1 DEF CoverInv
  <2>2. CASE ~NothingToCompare(name, one)
    <3>1. covered' = [covered EXCEPT ![name] = @ + duration]
      BY <2>2 DEF MakePoint, one, name
    <3>2. name \in DOMAIN lasttime
      BY <2>2 DEF NothingToCompare
    <3> QED
      BY <1>1, <1>3, <3>1, <3>2 DEF CoverInv
  <2> QED
    BY <2>1, <2>2
<1>7. covered'[name] + (clock - lasttime'[name]) <= advanced
  <2>1. covered'[name] \in Nat
    BY <1>1, TypeMakePoint DEF TypeOK
  <2> QED
    BY <1>3, <1>5, <1>6, <2>1
<1>8. ASSUME NEW n \in Names
      PROVE  /\ covered'[n] <= advanced'
             /\ n \in DOMAIN lasttime' => covered'[n] + (clock' - lasttime'[n]) <= advanced'
  <2>1. CASE n = name
    BY <1>2, <1>6, <1>7, <2>1
  <2>2. CASE n # name
    BY <1>2, <1>4, <2>2 DEF CoverInv
  <2> QED
    BY <2>1, <2>2
<1> QED
  BY <1>8 DEF CoverInv

LEMMA CoverNext == TypeOK /\ CoverInv /\ [Next]_vars => CoverInv'
<1> SUFFICES ASSUME TypeOK, CoverInv, [Next]_vars PROVE CoverInv'
  OBVIOUS
<1>1. /\ clock \in Int /\ advanced \in Int /\ \A n \in Names : covered[n] \in Int
      /\ \A n \in DOMAIN lasttime : lasttime[n] \in Int
  BY SnmpAssumption DEF TypeOK
<1>2. CASE Second
  <2>1. clock' = clock + 1 /\ advanced' = advanced + 1 /\ UNCHANGED <<lasttime, covered>>
    BY <1>2 DEF Second, points
  <2> QED
    BY <1>1, <2>1 DEF CoverInv
<1>3. CASE SetBack
  <2>1. clock' \in 0 .. clock - 1 /\ UNCHANGED <<advanced, lasttime, covered>>
    BY <1>3 DEF SetBack, points
  <2> QED
    BY <1>1, <2>1 DEF CoverInv
<1>4. CASE \E p \in Workers : MakePoint(p)
  BY <1>4, CoverMakePoint
<1>5. CASE ~Second /\ ~SetBack /\ \A p \in Workers : ~MakePoint(p)
  BY <1>5, QuietSteps DEF CoverInv
<1> QED
  BY <1>2, <1>3, <1>4, <1>5

\* The durations of the points of a name add up to no more than the clock has
\* gone ahead, though polls overlap, the clock is set back and names are shared
\* (snmp/collect.go:171-206).
THEOREM NoSecondTwice == Spec => []CoveredOnce
<1>1. Init => CoverInv
  BY DEF Init, CoverInv
<1>2. TypeOK /\ CoverInv /\ [Next]_vars => CoverInv'
  BY CoverNext
<1>3. CoverInv => CoveredOnce
  BY DEF CoverInv, CoveredOnce
<1> QED
  BY <1>1, <1>2, <1>3, SnmpTypes, PTL DEF Spec

-----------------------------------------------------------------------------
(* A point is about its own interface.  What a poll has read by its place in *)
(* FetchTraffic:                                                             *)

OwnName(one, i) == one.name = IF "info" \in one.odd THEN NoName ELSE NameOf[i]
OwnStatus(one, i) == one.status = IF "status" \in one.odd THEN NoIf ELSE i

OwnReading(this) ==
    /\ this.pc \in {"idle", "info"} => this.one = Blank
    /\ this.pc \in {"in", "out", "status"} => "status" \notin this.one.odd
    /\ this.pc \in {"in", "out", "status", "make"} => OwnName(this.one, this.at)
    /\ this.pc = "make" => OwnStatus(this.one, this.at)

OwnInv == (\A p \in Workers : OwnReading(poll[p])) /\ PointsAreOwn

LEMMA GoesOwn ==
    ASSUME TypeOK, OwnInv, NEW p \in Workers, NEW now, NEW event, Goes(p, now, event),
           OwnReading(now)
    PROVE  OwnInv'
<1>1. poll' = [poll EXCEPT ![p] = now] /\ point' = NoPoint
  BY DEF Goes
<1>2. \A q \in Workers : poll'[q] = now \/ poll'[q] = poll[q]
  BY <1>1 DEF TypeOK
<1>3. \A q \in Workers : OwnReading(poll'[q])
  BY <1>2 DEF OwnInv
<1>4. PointsAreOwn'
  BY <1>1 DEF PointsAreOwn
<1> QED
  BY <1>3, <1>4 DEF OwnInv, OwnReading, OwnName, OwnStatus

\* A poll that is at none of its requests.
LEMMA OwnAtRest ==
    /\ OwnReading(Idle)
    /\ \A this : OwnReading(NextOf(this))
    /\ \A list : OwnReading([Idle EXCEPT !.pc = "info", !.todo = list])
  BY DEF OwnReading, Idle, NextOf

LEMMA OwnGetInfo ==
    ASSUME TypeOK, OwnInv, NEW p \in Workers, GetInfo(p)
    PROVE  OwnInv'
<1> DEFINE this == poll[p]
           i == Head(this.todo)
<1>1. /\ this \in PollType /\ this.pc = "info" /\ this.todo # <<>> /\ this.one = Blank
      /\ i \in Ifs
  <2>1. this \in PollType /\ this.pc = "info" /\ this.todo # <<>>
    BY DEF GetInfo, TypeOK
  <2>2. this.one = Blank
    BY <2>1 DEF OwnInv, OwnReading
  <2> QED
    BY <2>1, <2>2, HeadFacts
<1>2. PICK x \in Exchanges(this.socket, <<i, "info">>), odd \in BOOLEAN :
         LET asn == IF odd THEN "Null" ELSE Asn(x.got[2])
             rest == [this EXCEPT !.todo = Tail(@), !.socket = x.left]
         IN  IF Accepted(x.got, <<i, "info">>)
             THEN Goes(p, [rest EXCEPT !.pc = "in", !.at = i,
                              !.one.name = Asserted(asn, "string", NameOf[x.got[1]], NoName),
                              !.one.odd = Odd(poll[p].one, "info", odd)],
                       x.fault \/ odd)
             ELSE ~odd /\ Goes(p, rest, x.fault)
  BY DEF GetInfo
<1> DEFINE rest == [this EXCEPT !.todo = Tail(@), !.socket = x.left]
<1>3. CASE Accepted(x.got, <<i, "info">>)
  <2> DEFINE asn == IF odd THEN "Null" ELSE Asn(x.got[2])
             name == Asserted(asn, "string", NameOf[x.got[1]], NoName)
             now == [rest EXCEPT !.pc = "in", !.at = i, !.one.name = name,
                                 !.one.odd = Odd(this.one, "info", odd)]
  <2>1. x.got[1] = i /\ x.got[2] = "info"
    BY <1>1, <1>3, AskFacts DEF Requests
  <2>2. name = IF odd THEN NoName ELSE NameOf[i]
    BY <2>1 DEF Asserted, Asn, GoType
  <2>3. Odd(this.one, "info", odd) = IF odd THEN {"info"} ELSE {}
    BY <1>1 DEF Odd, Blank
  <2>4. /\ now.pc = "in" /\ now.at = i /\ now.one.name = name
        /\ now.one.odd = Odd(this.one, "info", odd)
    <3> HIDE DEF name
    <3> QED
      BY <1>1 DEF PollType, Blank
  <2>5. Goes(p, now, x.fault \/ odd)
    BY <1>2, <1>3
  <2> HIDE DEF now
  <2>6. OwnReading(now)
    BY <2>2, <2>3, <2>4 DEF OwnReading, OwnName
  <2> QED
    BY <2>5, <2>6, GoesOwn
<1>4. CASE ~Accepted(x.got, <<i, "info">>)
  <2>1. Goes(p, rest, x.fault)
    BY <1>2, <1>4
  <2>2. rest.pc = "info" /\ rest.one = Blank
    BY <1>1 DEF PollType
  <2> HIDE DEF rest
  <2>3. OwnReading(rest)
    BY <2>2 DEF OwnReading
  <2> QED
    BY <2>1, <2>3, GoesOwn
<1> QED
  BY <1>3, <1>4

LEMMA OwnGetTraffic ==
    ASSUME TypeOK, OwnInv, NEW p \in Workers, NEW type \in Types, GetTraffic(p, type)
    PROVE  OwnInv'
<1> DEFINE this == poll[p]
           pc == IF type = "in" THEN "out" ELSE "status"
<1>1. this \in PollType /\ this.pc \in {"in", "out"}
  BY DEF GetTraffic, TypeOK, Types
<1>2. PICK now, event : Goes(p, now, event) /\ now.pc = pc /\ now.at = this.at
                        /\ now.one.name = this.one.name /\ now.one.odd = this.one.odd
  <2>1. PICK x \in Exchanges(this.socket, <<this.at, type>>), odd \in BOOLEAN :
           LET asn == IF odd THEN "Null" ELSE Asn(x.got[2])
               next == [this EXCEPT !.pc = pc, !.socket = x.left]
               bytes == carried[this.at][type]
           IN  IF Accepted(x.got, <<this.at, type>>)
               THEN Goes(p, [next EXCEPT !.one.value[type] = Asserted(asn, "int64", bytes, 0),
                                         !.one.carried[type] = bytes],
                         x.fault \/ odd)
               ELSE ~odd /\ Goes(p, [next EXCEPT !.ok = FALSE], x.fault)
    BY DEF GetTraffic
  <2> DEFINE asn == IF odd THEN "Null" ELSE Asn(x.got[2])
             bytes == carried[this.at][type]
             v == Asserted(asn, "int64", bytes, 0)
             next == [this EXCEPT !.pc = pc, !.socket = x.left]
             read == [next EXCEPT !.one.value[type] = v, !.one.carried[type] = bytes]
             none == [next EXCEPT !.ok = FALSE]
  <2>2. CASE Accepted(x.got, <<this.at, type>>)
    <3>1. Goes(p, read, x.fault \/ odd)
      BY <2>1, <2>2
    <3>2. /\ read.pc = pc /\ read.at = this.at
          /\ read.one.name = this.one.name /\ read.one.odd = this.one.odd
      <4> HIDE DEF v, bytes, pc
      <4> QED
        BY <1>1 DEF PollType, ReadingType
    <3> HIDE DEF read
    <3> QED
      BY <3>1, <3>2
  <2>3. CASE ~Accepted(x.got, <<this.at, type>>)
    <3>1. Goes(p, none, x.fault)
      BY <2>1, <2>3
    <3>2. none.pc = pc /\ none.at = this.at /\ none.one = this.one
      <4> HIDE DEF pc
      <4> QED
        BY <1>1 DEF PollType
    <3> HIDE DEF none
    <3> QED
      BY <3>1, <3>2
  <2> QED
    BY <2>2, <2>3
<1>3. OwnReading(now)
  <2>1. "status" \notin this.one.odd /\ OwnName(this.one, this.at)
    BY <1>1 DEF OwnInv, OwnReading
  <2> QED
    BY <1>2, <2>1 DEF OwnReading, OwnName
<1> QED
  BY <1>2, <1>3, GoesOwn

LEMMA OwnGetStatus ==
    ASSUME TypeOK, OwnInv, NEW p \in Workers, GetStatus(p)
    PROVE  OwnInv'
<1> DEFINE this == poll[p]
           i == this.at
<1>1. this \in PollType /\ this.pc = "status" /\ i \in Ifs
  BY DEF GetStatus, TypeOK
<1>2. PICK x \in Exchanges(this.socket, <<i, "status">>), odd \in BOOLEAN :
         LET asn == IF odd THEN "Null" ELSE Asn(x.got[2])
             rest == [this EXCEPT !.socket = x.left]
         IN  IF Accepted(x.got, <<i, "status">>) /\ this.ok
             THEN Goes(p, [rest EXCEPT !.pc = "make",
                              !.one.status = Asserted(asn, "int", x.got[1], NoIf),
                              !.one.odd = Odd(this.one, "status", odd)],
                       x.fault \/ odd)
             ELSE ~odd /\ Goes(p, NextOf(rest), x.fault)
  BY DEF GetStatus
<1> DEFINE rest == [this EXCEPT !.socket = x.left]
<1>3. CASE Accepted(x.got, <<i, "status">>) /\ this.ok
  <2> DEFINE asn == IF odd THEN "Null" ELSE Asn(x.got[2])
             s == Asserted(asn, "int", x.got[1], NoIf)
             now == [rest EXCEPT !.pc = "make", !.one.status = s,
                                 !.one.odd = Odd(this.one, "status", odd)]
  <2>1. x.got[1] = i /\ x.got[2] = "status"
    BY <1>1, <1>3, AskFacts DEF Requests
  <2>2. s = IF odd THEN NoIf ELSE i
    BY <2>1 DEF Asserted, Asn, GoType
  <2>3. Odd(this.one, "status", odd) =
           IF odd THEN this.one.odd \cup {"status"} ELSE this.one.odd
    BY DEF Odd
  <2>4. /\ now.pc = "make" /\ now.at = i /\ now.one.status = s
        /\ now.one.name = this.one.name /\ now.one.odd = Odd(this.one, "status", odd)
    <3> HIDE DEF s
    <3> QED
      BY <1>1 DEF PollType, ReadingType
  <2>5. Goes(p, now, x.fault \/ odd)
    BY <1>2, <1>3
  <2>6. "status" \notin this.one.odd /\ OwnName(this.one, i)
    BY <1>1 DEF OwnInv, OwnReading
  <2> HIDE DEF now
  <2>7. OwnName(now.one, now.at) /\ OwnStatus(now.one, now.at)
    BY <2>2, <2>3, <2>4, <2>6 DEF OwnName, OwnStatus
  <2>8. OwnReading(now)
    BY <2>4, <2>7 DEF OwnReading
  <2> QED
    BY <2>5, <2>8, GoesOwn
<1>4. CASE ~(Accepted(x.got, <<i, "status">>) /\ this.ok)
  <2>1. Goes(p, NextOf(rest), x.fault)
    BY <1>2, <1>4
  <2> QED
    BY <2>1, OwnAtRest, GoesOwn
<1> QED
  BY <1>3, <1>4

LEMMA OwnMakePoint ==
    ASSUME TypeOK, OwnInv, NEW p \in Workers, MakePoint(p)
    PROVE  OwnInv'
<1>1. poll[p].pc = "make" /\ poll' = [poll EXCEPT ![p] = NextOf(poll[p])]
  BY DEF MakePoint
<1>2. \A q \in Workers : OwnReading(poll'[q])
  BY <1>1, OwnAtRest DEF OwnInv, TypeOK
<1>3. point' = NoPoint \/ (point'.at = poll[p].at /\ point'.one = poll[p].one)
  BY DEF MakePoint
<1>4. OwnName(poll[p].one, poll[p].at) /\ OwnStatus(poll[p].one, poll[p].at)
  BY <1>1 DEF OwnInv, OwnReading
<1>5. PointsAreOwn'
  BY <1>3, <1>4 DEF PointsAreOwn, OwnName, OwnStatus
<1> QED
  BY <1>2, <1>5 DEF OwnInv, OwnReading, OwnName, OwnStatus

LEMMA OwnNext == TypeOK /\ OwnInv /\ [Next]_vars => OwnInv'
<1> SUFFICES ASSUME TypeOK, OwnInv, [Next]_vars PROVE OwnInv'
  OBVIOUS
<1>1. CASE UNCHANGED poll /\ (point' = NoPoint \/ UNCHANGED point)
  BY <1>1 DEF OwnInv, OwnReading, OwnName, OwnStatus, PointsAreOwn
<1>2. CASE \E p \in Workers : StartPoll(p)
  <2>1. PICK p \in Workers, list \in {Infs, <<>>} :
           /\ poll' = [poll EXCEPT ![p] = [Idle EXCEPT !.pc = "info", !.todo = list]]
           /\ point' = NoPoint
    BY <1>2 DEF StartPoll
  <2>2. \A q \in Workers : OwnReading(poll'[q])
    BY <2>1, OwnAtRest DEF OwnInv, TypeOK
  <2>3. PointsAreOwn'
    BY <2>1 DEF PointsAreOwn
  <2> QED
    BY <2>2, <2>3 DEF OwnInv, OwnReading, OwnName, OwnStatus
<1>3. CASE \E p \in Workers : EndPoll(p)
  BY <1>3, OwnAtRest, GoesOwn DEF EndPoll
<1>4. CASE \E p \in Workers : \/ GetInfo(p) \/ GetStatus(p) \/ MakePoint(p)
                              \/ \E type \in Types : GetTraffic(p, type)
  BY <1>4, OwnGetInfo, OwnGetTraffic, OwnGetStatus, OwnMakePoint
<1>5. CASE \/ \E i \in Ifs, type \in Types : Carry(i, type)
           \/ Second \/ SetBack \/ CreateWorker \/ RemoveWorker
           \/ \E p \in Workers : RunBegins(p) \/ Exit(p)
  <2>1. UNCHANGED poll /\ point' = NoPoint
    BY <1>5 DEF Carry, Second, SetBack, CreateWorker, RemoveWorker, RunBegins, Exit
  <2> QED
    BY <1>1, <2>1
<1>6. CASE UNCHANGED vars
  BY <1>1, <1>6 DEF vars
<1> QED
  BY <1>2, <1>3, <1>4, <1>5, <1>6 DEF Next

\* A point has the name and the status of its own interface unless the very
\* answer had a value of another type: no late or second answer, and none that
\* is missing, makes it those of another (gosnmp.go:221, snmp/collect.go:108-146).
THEOREM PointsBelong == Spec => []PointsAreOwn
<1>1. Init => OwnInv
  <2> SUFFICES ASSUME Init PROVE OwnInv
    OBVIOUS
  <2>1. \A p \in Workers : OwnReading(poll[p])
    BY OwnAtRest DEF Init
  <2> QED
    BY <2>1 DEF Init, OwnInv, PointsAreOwn
<1>2. TypeOK /\ OwnInv /\ [Next]_vars => OwnInv'
  BY OwnNext
<1>3. OwnInv => PointsAreOwn
  BY DEF OwnInv
<1> QED
  BY <1>1, <1>2, <1>3, SnmpTypes, PTL DEF Spec

-----------------------------------------------------------------------------
(* Every rate is 0.  No counter is read as an int64, so all values stay 0.   *)

ZeroInv ==
    /\ \A p \in Workers : poll[p].one.value = Zero
    /\ \A n \in DOMAIN history : history[n].value = Zero
    /\ point.rate = Zero

LEMMA GoesZero ==
    ASSUME TypeOK, ZeroInv, NEW p \in Workers, NEW now, NEW event, Goes(p, now, event),
           now.one.value = Zero
    PROVE  ZeroInv'
<1>1. poll' = [poll EXCEPT ![p] = now] /\ point' = NoPoint /\ history' = history
  BY DEF Goes, points
<1>2. \A q \in Workers : poll'[q] = now \/ poll'[q] = poll[q]
  BY <1>1 DEF TypeOK
<1> QED
  BY <1>1, <1>2 DEF ZeroInv, NoPoint, Zero

LEMMA ZeroAtRest ==
    /\ Idle.one.value = Zero
    /\ \A this : NextOf(this).one.value = Zero
    /\ \A list : [Idle EXCEPT !.pc = "info", !.todo = list].one.value = Zero
  BY DEF Idle, NextOf, Blank

\* A request leaves the values of the poll as they were.
LEMMA RequestsKeepZero ==
    ASSUME TypeOK, ZeroInv, NEW p \in Workers,
           GetInfo(p) \/ GetStatus(p) \/ \E type \in Types : GetTraffic(p, type)
    PROVE  ZeroInv'
<1> DEFINE this == poll[p]
<1>1. this \in PollType /\ this.one.value = Zero
  BY DEF TypeOK, ZeroInv
<1>2. CASE GetInfo(p)
  <2>1. PICK now, event : Goes(p, now, event) /\ now.one.value = this.one.value
    <3> DEFINE i == Head(this.todo)
    <3>1. PICK x \in Exchanges(this.socket, <<i, "info">>), odd \in BOOLEAN :
             LET asn == IF odd THEN "Null" ELSE Asn(x.got[2])
                 rest == [this EXCEPT !.todo = Tail(@), !.socket = x.left]
             IN  IF Accepted(x.got, <<i, "info">>)
                 THEN Goes(p, [rest EXCEPT !.pc = "in", !.at = i,
                                  !.one.name = Asserted(asn, "string", NameOf[x.got[1]], NoName),
                                  !.one.odd = Odd(poll[p].one, "info", odd)],
                           x.fault \/ odd)
                 ELSE ~odd /\ Goes(p, rest, x.fault)
      BY <1>2 DEF GetInfo
    <3> DEFINE rest == [this EXCEPT !.todo = Tail(@), !.socket = x.left]
               asn == IF odd THEN "Null" ELSE Asn(x.got[2])
               name == Asserted(asn, "string", NameOf[x.got[1]], NoName)
               odds == Odd(poll[p].one, "info", odd)
               read == [rest EXCEPT !.pc = "in", !.at = i,
                                    !.one.name = name, !.one.odd = odds]
    <3>2. read.one.value = this.one.value /\ rest.one.value = this.one.value
      BY <1>1 DEF PollType, ReadingType
    <3>3. Goes(p, read, x.fault \/ odd) \/ Goes(p, rest, x.fault)
      BY <3>1
    <3> HIDE DEF read, rest
    <3> QED
      BY <3>2, <3>3
  <2> QED
    BY <1>1, <2>1, GoesZero
<1>3. CASE GetStatus(p)
  <2>1. PICK now, event : Goes(p, now, event) /\ now.one.value = Zero
    <3>1. PICK x \in Exchanges(this.socket, <<this.at, "status">>), odd \in BOOLEAN :
             LET asn == IF odd THEN "Null" ELSE Asn(x.got[2])
                 rest == [this EXCEPT !.socket = x.left]
             IN  IF Accepted(x.got, <<this.at, "status">>) /\ this.ok
                 THEN Goes(p, [rest EXCEPT !.pc = "make",
                                  !.one.status = Asserted(asn, "int", x.got[1], NoIf),
                                  !.one.odd = Odd(poll[p].one, "status", odd)],
                           x.fault \/ odd)
                 ELSE ~odd /\ Goes(p, NextOf(rest), x.fault)
      BY <1>3 DEF GetStatus
    <3> DEFINE rest == [this EXCEPT !.socket = x.left]
               asn == IF odd THEN "Null" ELSE Asn(x.got[2])
               status == Asserted(asn, "int", x.got[1], NoIf)
               odds == Odd(poll[p].one, "status", odd)
               read == [rest EXCEPT !.pc = "make", !.one.status = status, !.one.odd = odds]
    <3>2. read.one.value = Zero /\ NextOf(rest).one.value = Zero
      BY <1>1, ZeroAtRest DEF PollType, ReadingType
    <3>3. Goes(p, read, x.fault \/ odd) \/ Goes(p, NextOf(rest), x.fault)
      BY <3>1
    <3> HIDE DEF read, rest
    <3> QED
      BY <3>2, <3>3
  <2> QED
    BY <2>1, GoesZero
<1>4. ASSUME NEW type \in Types, GetTraffic(p, type) PROVE ZeroInv'
  <2> DEFINE pc == IF type = "in" THEN "out" ELSE "status"
             bytes == carried[this.at][type]
  <2>1. PICK x \in Exchanges(this.socket, <<this.at, type>>), odd \in BOOLEAN :
           LET asn == IF odd THEN "Null" ELSE Asn(x.got[2])
               next == [this EXCEPT !.pc = pc, !.socket = x.left]
           IN  IF Accepted(x.got, <<this.at, type>>)
               THEN Goes(p, [next EXCEPT !.one.value[type] = Asserted(asn, "int64", bytes, 0),
                                         !.one.carried[type] = bytes],
                         x.fault \/ odd)
               ELSE ~odd /\ Goes(p, [next EXCEPT !.ok = FALSE], x.fault)
    BY <1>4 DEF GetTraffic
  <2> DEFINE asn == IF odd THEN "Null" ELSE Asn(x.got[2])
             v == Asserted(asn, "int64", bytes, 0)
             next == [this EXCEPT !.pc = pc, !.socket = x.left]
             read == [next EXCEPT !.one.value[type] = v, !.one.carried[type] = bytes]
             none == [next EXCEPT !.ok = FALSE]
  <2>2. CASE Accepted(x.got, <<this.at, type>>)
    <3>1. x.got[2] = type
      BY <2>2 DEF Accepted
    <3>2. v = 0
      BY <3>1 DEF Asserted, Asn, GoType, Types
    <3>3. Goes(p, read, x.fault \/ odd)
      BY <2>1, <2>2
    <3>4. read.one.value = [this.one.value EXCEPT ![type] = v]
      <4> HIDE DEF v, bytes, pc
      <4> QED
        BY <1>1 DEF PollType, ReadingType
    <3>5. [Zero EXCEPT ![type] = 0] = Zero
      BY DEF Zero
    <3> HIDE DEF read, v
    <3> QED
      BY <1>1, <3>2, <3>3, <3>4, <3>5, GoesZero
  <2>3. CASE ~Accepted(x.got, <<this.at, type>>)
    <3>1. Goes(p, none, x.fault)
      BY <2>1, <2>3
    <3>2. none.one = this.one
      <4> HIDE DEF pc
      <4> QED
        BY <1>1 DEF PollType
    <3> HIDE DEF none
    <3> QED
      BY <1>1, <3>1, <3>2, GoesZero
  <2> QED
    BY <2>2, <2>3
<1> QED
  BY <1>2, <1>3, <1>4

LEMMA ZeroMakePoint ==
    ASSUME TypeOK, ZeroInv, NEW p \in Workers, MakePoint(p)
    PROVE  ZeroInv'
<1> DEFINE one == poll[p].one
           name == one.name
           duration == clock - lasttime[name]
<1>1. /\ history' = With(history, name, one)
      /\ poll' = [poll EXCEPT ![p] = NextOf(poll[p])]
      /\ \/ point' = NoPoint
         \/ /\ ~NothingToCompare(name, one)
            /\ point'.rate = Rate(one, history[name], duration)
  BY DEF MakePoint, Remember
<1>2. one.value = Zero
  BY DEF ZeroInv
<1>3. \A n \in DOMAIN history' : history'[n].value = Zero
  <2> HIDE DEF one, name
  <2> QED
    BY <1>1, <1>2 DEF With, ZeroInv
<1>4. \A q \in Workers : poll'[q].one.value = Zero
  <2>1. \A q \in Workers : poll'[q] = NextOf(poll[p]) \/ poll'[q] = poll[q]
    BY <1>1 DEF TypeOK
  <2> QED
    BY <2>1, ZeroAtRest DEF ZeroInv
<1>5. point'.rate = Zero
  <2>1. CASE point' = NoPoint
    BY <2>1 DEF NoPoint, Zero
  <2>2. CASE /\ ~NothingToCompare(name, one)
             /\ point'.rate = Rate(one, history[name], duration)
    <3>1. history[name].value = Zero
      BY <2>2 DEF NothingToCompare, ZeroInv
    <3>2. duration \in Nat /\ duration > 0
      <4>1. name \in DOMAIN lasttime /\ ~(duration <= 0)
        BY <2>2 DEF NothingToCompare
      <4> HIDE DEF one, name
      <4>2. lasttime[name] \in 0 .. MaxTime /\ clock \in 0 .. MaxTime
        BY <4>1 DEF TypeOK
      <4> QED
        BY <4>1, <4>2, SnmpAssumption
    <3> HIDE DEF one, name, duration
    <3>3. \A type \in Types : (one.value[type] - history[name].value[type]) \div duration = 0
      BY <1>2, <3>1, <3>2 DEF Zero
    <3> QED
      BY <2>2, <3>3 DEF Rate, Zero
  <2> QED
    BY <1>1, <2>1, <2>2
<1> QED
  BY <1>3, <1>4, <1>5 DEF ZeroInv

LEMMA ZeroNext == TypeOK /\ ZeroInv /\ [Next]_vars => ZeroInv'
<1> SUFFICES ASSUME TypeOK, ZeroInv, [Next]_vars PROVE ZeroInv'
  OBVIOUS
<1>1. CASE UNCHANGED <<poll, history>> /\ (point' = NoPoint \/ UNCHANGED point)
  BY <1>1 DEF ZeroInv, NoPoint, Zero
<1>2. CASE \E p \in Workers : StartPoll(p)
  <2>1. PICK p \in Workers, list \in {Infs, <<>>} :
           /\ poll' = [poll EXCEPT ![p] = [Idle EXCEPT !.pc = "info", !.todo = list]]
           /\ point' = NoPoint /\ history' = history
    BY <1>2 DEF StartPoll, points
  <2>2. \A q \in Workers : poll'[q].one.value = Zero
    BY <2>1, ZeroAtRest DEF ZeroInv, TypeOK
  <2> QED
    BY <2>1, <2>2 DEF ZeroInv, NoPoint, Zero
<1>3. CASE \E p \in Workers : EndPoll(p)
  BY <1>3, ZeroAtRest, GoesZero DEF EndPoll
<1>4. CASE \E p \in Workers : \/ GetInfo(p) \/ GetStatus(p) \/ MakePoint(p)
                              \/ \E type \in Types : GetTraffic(p, type)
  BY <1>4, RequestsKeepZero, ZeroMakePoint
<1>5. CASE \/ \E i \in Ifs, type \in Types : Carry(i, type)
           \/ Second \/ SetBack \/ CreateWorker \/ RemoveWorker
           \/ \E p \in Workers : RunBegins(p) \/ Exit(p)
  <2>1. UNCHANGED <<poll, history>> /\ point' = NoPoint
    BY <1>5 DEF Carry, Second, SetBack, CreateWorker, RemoveWorker, RunBegins, Exit, points
  <2> QED
    BY <1>1, <2>1
<1>6. CASE UNCHANGED vars
  BY <1>1, <1>6 DEF vars
<1> QED
  BY <1>2, <1>3, <1>4, <1>5, <1>6 DEF Next

\* Whatever an interface carries, the rate of every point is 0: gosnmp decodes a
\* counter to a uint64, which is never the int64 that FetchTraffic asserts
\* (snmp/collect.go:130, 137; gosnmp decode.go:127-130).
THEOREM RatesAreZero == Spec => [](\A type \in Types : point.rate[type] = 0)
<1> DEFINE AllZero == \A type \in Types : point.rate[type] = 0
<1>1. Init => ZeroInv
  <2> SUFFICES ASSUME Init PROVE ZeroInv
    OBVIOUS
  <2>1. \A p \in Workers : poll[p].one.value = Zero
    BY ZeroAtRest DEF Init
  <2> QED
    BY <2>1 DEF Init, ZeroInv, NoPoint, Zero
<1>2. TypeOK /\ ZeroInv /\ [Next]_vars => ZeroInv'
  BY ZeroNext
<1>3. ZeroInv => AllZero
  BY DEF ZeroInv, Zero
<1>4. Spec => []AllZero
  BY <1>1, <1>2, <1>3, SnmpTypes, PTL DEF Spec
<1> QED
  BY <1>4
=============================================================================
