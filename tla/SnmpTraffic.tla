---------------------------- MODULE SnmpTraffic -----------------------------
(***************************************************************************)
(* The snmp module for one switch: snmp/worker.go and snmp/collect.go.     *)
(*                                                                         *)
(* The master makes a worker for the switch, and stops it, as answers of   *)
(* the registry have it or not.  A worker polls once a minute: it lists    *)
(* the interfaces and, for each, asks for the name, the two octet counters *)
(* and the status, one request after the other.  MakePoint compares the    *)
(* counters with those of the poll before, which the package keeps in two  *)
(* maps, and gives rates and a status, or nothing when it cannot tell.     *)
(*                                                                         *)
(* Around it: the switch, whose counters grow; the network, where an       *)
(* answer is lost, late or comes twice, or has a value of another type;    *)
(* and the clock, which may be set back.  Two polls of the switch overlap  *)
(* when a worker was stopped during a poll and another was made.           *)
(***************************************************************************)
EXTENDS Integers, Sequences, Functions

CONSTANTS
    Workers,        \* bound: SnmpWorkers of the switch alive at a time
    NoWorker,
    Infs, NameOf,   \* interfaces of the switch, as listed, and their names (ifDescr)
    NoIf, NoName,   \* what a value of another type leaves: status 0, name ""
    MaxBytes,       \* bound: bytes carried by each interface in each direction
    MaxTime,        \* bound: the clock, in seconds
    MaxBacks,       \* bound: the clock is set back
    MaxFaults,      \* bound: answers that are not one answer in time of the type asked for
    MaxRemovals,    \* bound: the switch leaves the registry
    MaxEvents       \* bound: all of these together

ASSUME SnmpAssumption ==
    /\ {MaxTime, MaxBacks, MaxFaults, MaxRemovals, MaxEvents} \subseteq Nat
    /\ NoWorker \notin Workers
    /\ Infs \in Seq(Range(Infs))
    /\ NoIf \notin Range(Infs)

Ifs == Range(Infs)
Names == {NameOf[i] : i \in Ifs} \cup {NoName}
Types == {"in", "out"}      \* TYPE_IN, TYPE_OUT
Requests == {"info", "in", "out", "status"}

VARIABLES
    clock,          \* time.Now().Unix()
    advanced,       \* history: the seconds that the clock went ahead
    carried,        \* ifHCInOctets and ifHCOutOctets of each interface
    history,        \* historymap: the last reading under each name
    lasttime,       \* lasttimemap
    covered,        \* history: the durations of the points under a name, added up
    worker,         \* the worker that the table of the master has for the switch
    inst,           \* the SnmpWorkers, with the place of their goroutines in Run
    poll,           \* the poll that each of them is at
    point,          \* history: the points of the last step, with what they are about
    bounds          \* events that have happened

vars == <<clock, advanced, carried, history, lasttime, covered, worker, inst, poll, point,
          bounds>>
time == <<clock, advanced>>
points == <<history, lasttime, covered>>
workers == <<worker, inst>>

Zero == [type \in Types |-> 0]

\* A NetworkTraffic that is being read.  History: the bytes carried when the
\* counters were read, and which of name and status came with another type.
Blank == [name |-> NoName, value |-> Zero, status |-> NoIf, carried |-> Zero, odd |-> {}]

SnmpWorker(pc, opened, done) == [pc |-> pc, opened |-> opened, done |-> done]
Nobody == SnmpWorker("none", FALSE, FALSE)

Idle == [pc |-> "idle", todo |-> <<>>, at |-> NoIf, one |-> Blank, ok |-> TRUE, socket |-> <<>>]
NoPoint == [at |-> NoIf, duration |-> 0, rate |-> Zero, one |-> Blank, old |-> Zero]

Init ==
    /\ clock = 0 /\ advanced = 0
    /\ carried = [i \in Ifs |-> Zero]
    /\ history = [n \in {} |-> Blank]
    /\ lasttime = [n \in {} |-> 0]
    /\ covered = [n \in Names |-> 0]
    /\ worker = NoWorker
    /\ inst = [p \in Workers |-> Nobody]
    /\ poll = [p \in Workers |-> Idle]
    /\ point = NoPoint
    /\ bounds = [back |-> 0, fault |-> 0, removal |-> 0]

Happens(event, max) ==
    /\ bounds[event] < max
    /\ bounds.back + bounds.fault + bounds.removal < MaxEvents
    /\ bounds' = [bounds EXCEPT ![event] = @ + 1]
-----------------------------------------------------------------------------
(* The world.                                                              *)

Carry(i, type) ==
    /\ carried[i][type] < MaxBytes[i][type]
    /\ carried' = [carried EXCEPT ![i][type] = @ + 1]
    /\ UNCHANGED <<time, workers, poll, points, bounds>>
    /\ point' = NoPoint

Second ==
    /\ clock < MaxTime
    /\ clock' = clock + 1
    /\ advanced' = advanced + 1
    /\ UNCHANGED <<carried, workers, poll, points, bounds>>
    /\ point' = NoPoint

SetBack ==
    /\ Happens("back", MaxBacks)
    /\ clock' \in 0 .. clock - 1
    /\ UNCHANGED <<advanced, carried, workers, poll, points>>
    /\ point' = NoPoint
-----------------------------------------------------------------------------
(* The master and its workers.                                             *)

\* Do with an answer that has the switch, for which there is no worker yet.
CreateWorker ==
    /\ worker = NoWorker
    /\ \E p \in Workers :
          /\ inst[p] = Nobody
          /\ worker' = p
          /\ inst' = [inst EXCEPT ![p] = SnmpWorker("born", FALSE, FALSE)]
    /\ UNCHANGED <<time, carried, points, poll, bounds>>
    /\ point' = NoPoint

\* Do with an answer that has not.  Stop leaves a worker that is not in Run as it is.
RemoveWorker ==
    /\ worker # NoWorker /\ Happens("removal", MaxRemovals)
    /\ inst' = IF inst[worker].opened
               THEN [inst EXCEPT ![worker].opened = FALSE, ![worker].done = TRUE] ELSE inst
    /\ worker' = NoWorker
    /\ UNCHANGED <<time, carried, points, poll>>
    /\ point' = NoPoint

RunBegins(p) ==
    /\ inst[p].pc = "born"
    /\ inst' = [inst EXCEPT ![p] = SnmpWorker("sleep", TRUE, @.done)]
    /\ UNCHANGED <<time, carried, points, worker, poll, bounds>>
    /\ point' = NoPoint

\* The random sleep is over, or the next tick is there: traffic lists the
\* interfaces, by a socket of its own, or finds none when the list fails.
StartPoll(p) ==
    /\ inst[p].pc \in {"sleep", "select"} /\ poll[p].pc = "idle"
    /\ inst' = [inst EXCEPT ![p].pc = "select"]
    /\ \E list \in {Infs, <<>>} :
          poll' = [poll EXCEPT ![p] = [Idle EXCEPT !.pc = "info", !.todo = list]]
    /\ UNCHANGED <<time, carried, points, worker, bounds>>
    /\ point' = NoPoint

Exit(p) ==
    /\ inst[p].pc = "select" /\ poll[p].pc = "idle" /\ inst[p].done
    /\ inst' = [inst EXCEPT ![p] = Nobody]
    /\ UNCHANGED <<time, carried, points, worker, poll, bounds>>
    /\ point' = NoPoint
-----------------------------------------------------------------------------
(* A request and its answer.                                               *)

\* The answer to a request is lost, or comes, or comes twice.
Answers(request) == {<<>>, <<request>>, <<request, request>>}
NoAnswer == <<NoIf, "none">>

\* How sendPacket can end: with the first answer in the socket; or with none in
\* time, when the answer is there for the next request.
Exchanges(socket, request) ==
    {[left |-> Tail(socket \o a), got |-> Head(socket \o a), fault |-> a # <<request>>] :
        a \in {b \in Answers(request) : socket \o b # <<>>}}
    \cup
    {[left |-> a, got |-> NoAnswer, fault |-> TRUE] :
        a \in {b \in Answers(request) : socket = <<>>}}

\* The Request-ID is that of this request (and a version that does not look).
AnyAnswer(got, request) == got # NoAnswer

Accepted(got, request) == got = request

\* The Go type of a Variable, by that of its value.
GoType == [Counter64 |-> "uint64", Integer |-> "int", OctetString |-> "string", Null |-> "nil"]

\* A type assertion with ok: another type gives the zero value.
Asserted(asn, type, value, zero) == IF GoType[asn] = type THEN value ELSE zero

\* The type of the value in an answer to a request, when it is not odd.
Asn(request) ==
    CASE request = "info" -> "OctetString"
      [] request = "status" -> "Integer"
      [] OTHER -> "Counter64"

\* The poll goes on after a request; a fault or an odd value is an event.
Goes(p, now, event) ==
    /\ poll' = [poll EXCEPT ![p] = now]
    /\ IF event THEN Happens("fault", MaxFaults) ELSE UNCHANGED bounds
    /\ UNCHANGED <<time, carried, workers, points>>
    /\ point' = NoPoint
-----------------------------------------------------------------------------
(* A poll: traffic, FetchInfIndex and FetchTraffic.                        *)

\* The loop goes on to the interfaces that are left.
NextOf(this) ==
    [Idle EXCEPT !.pc = "info", !.todo = this.todo, !.socket = this.socket]

Odd(one, request, odd) == IF odd THEN one.odd \cup {request} ELSE one.odd

\* The next interface, and its name.  Without an answer it is skipped; with one
\* that is no string it has the name "".
GetInfo(p) ==
    /\ poll[p].pc = "info" /\ poll[p].todo # <<>>
    /\ \E x \in Exchanges(poll[p].socket, <<Head(poll[p].todo), "info">>), odd \in BOOLEAN :
          LET i == Head(poll[p].todo)
              asn == IF odd THEN "Null" ELSE Asn(x.got[2])
              rest == [poll[p] EXCEPT !.todo = Tail(@), !.socket = x.left]
          IN  IF Accepted(x.got, <<i, "info">>)
              THEN Goes(p, [rest EXCEPT !.pc = "in", !.at = i,
                               !.one.name = Asserted(asn, "string", NameOf[x.got[1]], NoName),
                               !.one.odd = Odd(poll[p].one, "info", odd)],
                        x.fault \/ odd)
              ELSE ~odd /\ Goes(p, rest, x.fault)

\* A counter is read, or there is no answer.
GetTraffic(p, type) ==
    /\ poll[p].pc = type
    /\ \E x \in Exchanges(poll[p].socket, <<poll[p].at, type>>), odd \in BOOLEAN :
          LET asn == IF odd THEN "Null" ELSE Asn(x.got[2])
              next == [poll[p] EXCEPT !.pc = IF type = "in" THEN "out" ELSE "status",
                                      !.socket = x.left]
              bytes == carried[poll[p].at][type]
          IN  IF Accepted(x.got, <<poll[p].at, type>>)
              THEN Goes(p, [next EXCEPT !.one.value[type] = Asserted(asn, "int64", bytes, 0),
                                        !.one.carried[type] = bytes],
                        x.fault \/ odd)
              ELSE ~odd /\ Goes(p, [next EXCEPT !.ok = FALSE], x.fault)

\* The status is read, or there is no answer.  An interface with an answer missing
\* is skipped.
GetStatus(p) ==
    /\ poll[p].pc = "status"
    /\ \E x \in Exchanges(poll[p].socket, <<poll[p].at, "status">>), odd \in BOOLEAN :
          LET asn == IF odd THEN "Null" ELSE Asn(x.got[2])
              rest == [poll[p] EXCEPT !.socket = x.left]
          IN  IF Accepted(x.got, <<poll[p].at, "status">>) /\ poll[p].ok
              THEN Goes(p, [rest EXCEPT !.pc = "make",
                               !.one.status = Asserted(asn, "int", x.got[1], NoIf),
                               !.one.odd = Odd(poll[p].one, "status", odd)],
                        x.fault \/ odd)
              ELSE ~odd /\ Goes(p, NextOf(rest), x.fault)

EndPoll(p) ==
    /\ poll[p].pc = "info" /\ poll[p].todo = <<>>
    /\ Goes(p, Idle, FALSE)
-----------------------------------------------------------------------------
(* MakePoint, which holds mu: one step, with one reading of the clock.     *)

With(f, name, x) == [n \in DOMAIN f \cup {name} |-> IF n = name THEN x ELSE f[n]]

CounterFell(one, old) == \E type \in Types : one.value[type] < old.value[type]

\* The four early returns (and with the duration taken the wrong way round).
NothingBefore(name, one) ==
    \/ name \notin DOMAIN history
    \/ name \notin DOMAIN lasttime
    \/ lasttime[name] - clock <= 0
    \/ CounterFell(one, history[name])

NothingToCompare(name, one) ==
    \/ name \notin DOMAIN history
    \/ name \notin DOMAIN lasttime
    \/ clock - lasttime[name] <= 0
    \/ CounterFell(one, history[name])

\* What every branch stores (and a version that keeps the first time).
KeepsFirst(name, one) ==
    /\ history' = With(history, name, one)
    /\ lasttime' = IF name \in DOMAIN lasttime THEN lasttime ELSE With(lasttime, name, clock)

Remember(name, one) ==
    /\ history' = With(history, name, one)
    /\ lasttime' = With(lasttime, name, clock)

\* The value of a point, in bytes (the code multiplies it by 8), by integer division.
Rate(one, old, duration) ==
    [type \in Types |-> (one.value[type] - old.value[type]) \div duration]

MakePoint(p) ==
    /\ poll[p].pc = "make"
    /\ LET one == poll[p].one
           duration == clock - lasttime[one.name]
           old == history[one.name]
       IN  /\ Remember(one.name, one)
           /\ IF NothingToCompare(one.name, one)
              THEN point' = NoPoint /\ UNCHANGED covered
              ELSE /\ point' = [at |-> poll[p].at, duration |-> duration,
                                rate |-> Rate(one, old, duration),
                                one |-> one, old |-> old.carried]
                   /\ covered' = [covered EXCEPT ![one.name] = @ + duration]
    /\ poll' = [poll EXCEPT ![p] = NextOf(@)]
    /\ UNCHANGED <<time, carried, workers, bounds>>

Next ==
    \/ \E i \in Ifs, type \in Types : Carry(i, type)
    \/ Second \/ SetBack
    \/ CreateWorker \/ RemoveWorker
    \/ \E p \in Workers :
          \/ RunBegins(p) \/ StartPoll(p) \/ Exit(p)
          \/ GetInfo(p) \/ GetStatus(p) \/ EndPoll(p) \/ MakePoint(p)
          \/ \E type \in Types : GetTraffic(p, type)

Spec == Init /\ [][Next]_vars
-----------------------------------------------------------------------------
ReadingType ==
    [name : Names, value : [Types -> Nat], status : Ifs \cup {NoIf},
     carried : [Types -> Nat], odd : SUBSET {"info", "status"}]

PollType ==
    [pc : {"idle", "info", "in", "out", "status", "make"}, todo : Seq(Ifs),
     at : Ifs \cup {NoIf}, one : ReadingType, ok : BOOLEAN, socket : Seq(Ifs \X Requests)]

InstType == [pc : {"none", "born", "sleep", "select"}, opened : BOOLEAN, done : BOOLEAN]

TypeOK ==
    /\ clock \in 0 .. MaxTime /\ advanced \in Nat
    /\ carried \in [Ifs -> [Types -> Nat]]
    /\ DOMAIN history \subseteq Names /\ history \in [DOMAIN history -> ReadingType]
    /\ lasttime \in [DOMAIN history -> 0 .. MaxTime]
    /\ covered \in [Names -> Nat]
    /\ point = NoPoint \/ point.duration > 0
    /\ worker \in Workers \cup {NoWorker}
    /\ inst \in [Workers -> InstType]
    /\ poll \in [Workers -> PollType]
    /\ \A p \in Workers :
          /\ poll[p].pc # "idle" => inst[p].pc = "select"
          /\ poll[p].pc \notin {"idle", "info"} => poll[p].at \in Ifs

(***************************************************************************)
(* The points of an interface cover no second twice: their durations add   *)
(* up to no more than the clock has gone ahead, though polls overlap, the  *)
(* clock is set back between two of them (line 179), answers are missing   *)
(* and two interfaces may have one name.                                   *)
(***************************************************************************)
CoveredOnce == \A n \in Names : covered[n] <= advanced

(***************************************************************************)
(* A point has the name and the status of the interface that it was asked  *)
(* for, unless the very answer had a value of another type: an answer that *)
(* is late or comes twice is never taken for another (gosnmp.go:221 and    *)
(* the lines of FetchTraffic that skip an interface).                      *)
(***************************************************************************)
PointsAreOwn ==
    point # NoPoint =>
        /\ point.one.name = IF "info" \in point.one.odd THEN NoName ELSE NameOf[point.at]
        /\ point.one.status = IF "status" \in point.one.odd THEN NoIf ELSE point.at

(***************************************************************************)
(* A rate is what the interface carried between the two readings that      *)
(* MakePoint compares, over the time between them (line 203).              *)
(***************************************************************************)
PointsAreTraffic ==
    point # NoPoint => \A type \in Types :
        point.rate[type] = (point.one.carried[type] - point.old[type]) \div point.duration
=============================================================================
