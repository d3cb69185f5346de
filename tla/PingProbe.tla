------------------------------ MODULE PingProbe -------------------------------
(***************************************************************************)
(* Pings and the liveness of the adapter's own network: ping/icmp.go,      *)
(* ping/liveness.go and what Run of ping/worker.go does with a ping.       *)
(*                                                                         *)
(* Ping asks an address PingTimes times, each time with a socket of its    *)
(* own and a deadline, and returns the share that failed.  All requests of *)
(* the process have one identifier and sequence number, and a raw socket   *)
(* gets every ICMP message of its address: the first echo reply that       *)
(* arrives ends the ping, whichever request it answers.                    *)
(*                                                                         *)
(* Each worker pings its address at each tick; livenessTask pings the      *)
(* notaries and writes PingLive, by which the workers discard total losses *)
(* when it is the adapter that has no network.  livenessTask starts in     *)
(* init, before runStart parses the configuration.                         *)
(*                                                                         *)
(* Time is discrete: a goroutine that can go on does so before time        *)
(* passes; the 50 ms between two pings are a moment without a socket.  To  *)
(* resolve a name takes any time, and to dial one up to the timeout (it is *)
(* resolved again); an address is resolved and dialled at once.            *)
(***************************************************************************)
EXTENDS Integers, Sequences, FiniteSetsExt

CONSTANTS
    Workers, Liveness,          \* the PingWorkers and the goroutine of livenessTask
    Addresses, AddressOf,       \* AddressOf: of each worker
    V6, Names,                  \* addresses of version 6, and names of hosts of their own
    Enable, Notary,             \* config.C.Ping; Notary is a sequence
    PingTimes,
    Timeout, Interval,          \* of each of Workers and Liveness
    MaxFlight,                  \* bound: replies on their way from an address
    MaxDown                     \* bound: up to which the time of an outage is counted

Pingers == Workers \cup {Liveness}

ASSUME ProbeAssumption ==
    /\ Liveness \notin Workers
    /\ V6 \subseteq Addresses /\ Names \subseteq Addresses
    /\ AddressOf \in [Workers -> Addresses]
    /\ Notary \in Seq(Addresses)
    /\ Enable \in BOOLEAN
    /\ {PingTimes, MaxFlight, MaxDown} \subseteq Nat \ {0}
    /\ Timeout \in [Pingers -> Nat \ {0}] /\ Interval \in [Pingers -> Nat \ {0}]

VARIABLES
    parsed,     \* config.C is filled in
    PingLive,
    pinger,     \* the goroutines, each with its local variables
    link,       \* the adapter has a network
    flight,     \* number of replies on their way from each address
    toReport,   \* history: pings of a Ping that no reply was sent to, less the replies
                \* to earlier requests or to those of others that it may meet
    down,       \* history: how long there is no network, since livenessTask began
    alarms      \* history: total losses that a worker of an address reported meanwhile

vars == <<parsed, PingLive, pinger, link, flight, toReport, down, alarms>>

\* pc: before the first tick (new), waiting for a tick (idle), in ResolveIPAddr
\* (resolve), between two pings (gap), in DialTimeout (dial), waiting for a reply
\* (read), or returned (gone).  at: the notary that is pinged; i, failed: of Ping;
\* lost: failed pings of the notaries before; left: time to the deadline or to the
\* timeout of the dial; next: time to the next tick, 0 without a ticker.
Fresh == [pc |-> "new", at |-> 1, i |-> 1, failed |-> 0, lost |-> 0, left |-> 0,
          next |-> 0, due |-> FALSE]

Init ==
    /\ parsed = FALSE
    /\ PingLive = TRUE
    /\ pinger = [p \in Pingers |-> Fresh]
    /\ link = TRUE
    /\ flight = [a \in Addresses |-> 0]
    /\ toReport = [p \in Pingers |-> 0]
    /\ down = 0
    /\ alarms = [w \in Workers |-> 0]

Target(p) == IF p = Liveness THEN Notary[pinger[p].at] ELSE AddressOf[p]

TaskRuns == pinger[Liveness].pc \notin {"new", "gone"}

\* runStart parses the configuration, and ping.Start makes workers after that.
ParseConfig ==
    /\ ~parsed /\ parsed' = TRUE
    /\ UNCHANGED <<PingLive, pinger, link, flight, toReport, down, alarms>>
-----------------------------------------------------------------------------
(* Ping.                                                                   *)

\* There are no more pings for a foreign reply than PingTimes.
AtLeast(n) == IF n < 0 - PingTimes THEN 0 - PingTimes ELSE n

\* Ping begins, for which a tick was taken or not.
Begun(p, this, address) ==
    /\ pinger' = [pinger EXCEPT ![p] =
                     [this EXCEPT !.pc = IF address \in Names THEN "resolve" ELSE "gap",
                                  !.i = 1, !.failed = 0,
                                  !.due = @ /\ this.pc # "idle"]]
    /\ toReport' = [toReport EXCEPT ![p] =
                       IF address \in Names THEN 0 ELSE AtLeast(0 - flight[address])]

\* A name is resolved, or cannot be, which ends Ping without a failure.
Resolve(p) ==
    /\ pinger[p].pc = "resolve"
    /\ \E i \in {1, PingTimes + 1} :
          pinger' = [pinger EXCEPT ![p].pc = "gap", ![p].i = i]
    /\ UNCHANGED <<parsed, PingLive, link, flight, toReport, down, alarms>>

\* v4Pinger or v6Pinger dials, which for a name takes up to the timeout.
Dial(p) ==
    /\ pinger[p].pc = "gap" /\ pinger[p].i <= PingTimes /\ Target(p) \in Names
    /\ pinger' = [pinger EXCEPT ![p].pc = "dial", ![p].left = Timeout[p]]
    /\ UNCHANGED <<parsed, PingLive, link, flight, toReport, down, alarms>>

Dials(p) ==
    \/ pinger[p].pc = "dial"
    \/ pinger[p].pc = "gap" /\ pinger[p].i <= PingTimes /\ Target(p) \notin Names

\* A failed ping.  (And one that is tried again.)
FailedAgain(this) == [this EXCEPT !.pc = "gap", !.failed = @ + 1, !.left = 0]

Failed(this) == [this EXCEPT !.pc = "gap", !.i = @ + 1, !.failed = @ + 1, !.left = 0]

\* The pingers that are at a Ping of address a, and those with a socket.
Pinging(a) == {p \in Pingers : pinger[p].pc \in {"gap", "read"} /\ Target(p) = a}
Reading(a) == {p \in Pinging(a) : pinger[p].pc = "read"}

\* The dial is done, the deadline set and the request written.  The request, or its
\* reply, may be lost, and is without a network; else the reply is on its way, for
\* any time.
Request(p) ==
    /\ Dials(p)
    /\ pinger' = [pinger EXCEPT ![p].pc = "read", ![p].left = Timeout[p]]
    /\ \E reply \in 0 .. (IF link THEN 1 ELSE 0) :
          /\ flight[Target(p)] + reply <= MaxFlight
          /\ flight' = [flight EXCEPT ![Target(p)] = @ + reply]
          /\ toReport' = IF Target(p) \in Names THEN toReport ELSE [q \in Pingers |->
                CASE q = p -> toReport[q] + 1 - reply
                  [] q \in Pinging(Target(p)) \ {p} -> AtLeast(toReport[q] - reply)
                  [] OTHER -> toReport[q]]
    /\ UNCHANGED <<parsed, PingLive, link, down, alarms>>

\* Dial or write fails.
RequestFails(p) ==
    /\ Dials(p)
    /\ pinger' = [pinger EXCEPT ![p] = Failed(@)]
    /\ toReport' = [toReport EXCEPT ![p] = IF Target(p) \in Names THEN 0 ELSE @ + 1]
    /\ UNCHANGED <<parsed, PingLive, link, flight, down, alarms>>

\* The deadline, which was set before the request was sent, is over.
Expire(p) ==
    /\ pinger[p].pc = "read" /\ pinger[p].left = 0
    /\ pinger' = [pinger EXCEPT ![p] = Failed(@)]
    /\ UNCHANGED <<parsed, PingLive, link, flight, toReport, down, alarms>>

Answered(this) == [this EXCEPT !.pc = "gap", !.i = @ + 1, !.left = 0]

\* What the loop of a pinger does with a message: an echo reply ends the ping
\* well, a message that icmp.ParseMessage refuses (version 6) ends it badly, and
\* after any other the loop reads on.  (parseICMPMessage, of version 4, refuses
\* only what is shorter than 4 bytes, which a buffer of 67 less the header never
\* is.  And a loop without the switch, and one that sets the deadline for each
\* message.)
ReadAny(p, message) ==
    IF message = "bad" /\ Target(p) \in V6 THEN Failed(pinger[p]) ELSE Answered(pinger[p])

ReadAfresh(p, message) ==
    CASE message = "reply" -> Answered(pinger[p])
      [] message = "bad" /\ Target(p) \in V6 -> Failed(pinger[p])
      [] OTHER -> [pinger[p] EXCEPT !.left = Timeout[p]]

Read(p, message) ==
    CASE message = "reply" -> Answered(pinger[p])
      [] message = "bad" /\ Target(p) \in V6 -> Failed(pinger[p])
      [] OTHER -> pinger[p]

\* A message of address a arrives: every socket for the address has it.
Message(a, message) ==
    /\ link
    /\ message = "reply" => flight[a] > 0
    /\ message # "reply" => Reading(a) # {}
    /\ flight' = IF message = "reply" THEN [flight EXCEPT ![a] = @ - 1] ELSE flight
    /\ pinger' = [p \in Pingers |->
                     IF p \in Reading(a) THEN Read(p, message) ELSE pinger[p]]
    /\ UNCHANGED <<parsed, PingLive, link, toReport, down, alarms>>

PingEnds(p) == pinger[p].pc = "gap" /\ pinger[p].i > PingTimes

\* The losses that Ping returns, and publicPing sums, are percentages.
Percent(failed) == (100 * failed) \div PingTimes
-----------------------------------------------------------------------------
(* A worker: its first ping after the random sleep, and one at each tick.  *)

WorkerBegins(w) ==
    /\ \/ pinger[w].pc = "new" /\ parsed /\ Enable
       \/ pinger[w].pc = "idle" /\ pinger[w].due
    /\ Begun(w, pinger[w], AddressOf[w])
    /\ UNCHANGED <<parsed, PingLive, link, flight, down, alarms>>

\* pingfunc discards a total loss when the adapter is not live.  (And the test
\* the wrong way round.)
DiscardsLive(w) == PingLive /\ Percent(pinger[w].failed) > 90

Discards(w) == ~PingLive /\ Percent(pinger[w].failed) > 90

WorkerEnds(w) ==
    /\ PingEnds(w)
    /\ pinger' = [pinger EXCEPT ![w].pc = "idle", ![w].i = 1, ![w].failed = 0,
                                ![w].next = IF @ = 0 THEN Interval[w] ELSE @]
    /\ alarms' = IF AddressOf[w] \notin Names /\ ~link /\ TaskRuns
                     /\ Percent(pinger[w].failed) > 90 /\ ~Discards(w)
                 THEN [alarms EXCEPT ![w] = @ + 1] ELSE alarms
    /\ toReport' = [toReport EXCEPT ![w] = 0]
    /\ UNCHANGED <<parsed, PingLive, link, flight, down>>
-----------------------------------------------------------------------------
(* livenessTask.                                                           *)

\* It returns when it finds neither Enable nor a notary, as in a config.C that is
\* not parsed yet.
TaskBegins ==
    /\ pinger[Liveness].pc = "new"
    /\ pinger' = IF parsed /\ (Enable \/ Notary # <<>>)
                 THEN [pinger EXCEPT ![Liveness].pc = "idle",
                                     ![Liveness].next = Interval[Liveness]]
                 ELSE [pinger EXCEPT ![Liveness].pc = "gone"]
    /\ down' = 0
    /\ UNCHANGED <<parsed, PingLive, link, flight, toReport, alarms>>

\* publicPing pings the first notary, or the next.
NotaryBegins ==
    LET this == pinger[Liveness]
        next == IF this.pc = "idle" THEN [this EXCEPT !.at = 1, !.lost = 0]
                ELSE [this EXCEPT !.at = @ + 1, !.lost = @ + this.failed]
    IN  /\ (this.pc = "idle" /\ this.due) \/ PingEnds(Liveness)
        /\ next.at <= Len(Notary)
        /\ Begun(Liveness, next, Notary[next.at])
        /\ UNCHANGED <<parsed, PingLive, link, flight, down, alarms>>

\* (A loss taken for a percentage that is a share, and) the mean loss of the
\* notaries is not more than 60; without a notary it is not a number, which is not.
LiveByShare(lost) == ~(lost > 60 * PingTimes * Len(Notary))

Live(lost) == ~(100 * lost > 60 * PingTimes * Len(Notary))

PublicPingEnds ==
    LET this == pinger[Liveness]
    IN  /\ \/ PingEnds(Liveness) /\ this.at = Len(Notary)
           \/ this.pc = "idle" /\ this.due /\ Notary = <<>>
        /\ PingLive' = Live(this.lost + this.failed)
        /\ pinger' = [pinger EXCEPT ![Liveness] =
                         [Fresh EXCEPT !.pc = "idle", !.next = this.next,
                                       !.due = this.due /\ Notary # <<>>]]
        /\ toReport' = [toReport EXCEPT ![Liveness] = 0]
        /\ UNCHANGED <<parsed, link, flight, down, alarms>>
-----------------------------------------------------------------------------
(* The network, and time.                                                  *)

\* The network fails, with what is on its way, or comes back.
Link ==
    /\ link' = ~link
    /\ flight' = [a \in Addresses |-> 0]
    /\ down' = 0
    /\ alarms' = [w \in Workers |-> 0]
    /\ UNCHANGED <<parsed, PingLive, pinger, toReport>>

CanGoOn(p) ==
    CASE pinger[p].pc = "gap" -> TRUE
      [] pinger[p].pc \in {"dial", "read"} -> pinger[p].left = 0
      [] pinger[p].pc = "idle" -> pinger[p].due
      [] OTHER -> FALSE

\* A ticker holds one tick; those that come while it is not taken are lost.
Later(p) ==
    LET this == pinger[p]
    IN  [this EXCEPT !.left = IF this.pc \in {"dial", "read"} THEN @ - 1 ELSE @,
                     !.next = CASE @ = 0 -> 0 [] @ = 1 -> Interval[p] [] OTHER -> @ - 1,
                     !.due = @ \/ this.next = 1]

Time ==
    /\ \A p \in Pingers : ~CanGoOn(p)
    /\ pinger' = [p \in Pingers |-> Later(p)]
    /\ down' = IF link THEN 0 ELSE Min({down + 1, MaxDown})
    /\ UNCHANGED <<parsed, PingLive, link, flight, toReport, alarms>>

Next ==
    \/ ParseConfig
    \/ \E p \in Pingers :
          Resolve(p) \/ Dial(p) \/ Request(p) \/ RequestFails(p) \/ Expire(p)
    \/ \E a \in Addresses : \E message \in {"reply", "other", "bad"} : Message(a, message)
    \/ \E w \in Workers : WorkerBegins(w) \/ WorkerEnds(w)
    \/ TaskBegins \/ NotaryBegins \/ PublicPingEnds
    \/ Link \/ Time

Spec == Init /\ [][Next]_vars
-----------------------------------------------------------------------------
TypeOK ==
    /\ {parsed, PingLive, link} \subseteq BOOLEAN
    /\ pinger \in [Pingers ->
          [pc : {"new", "idle", "resolve", "gap", "dial", "read", "gone"}, at : Nat \ {0},
           i : 1 .. PingTimes + 1, failed : 0 .. PingTimes, lost : Nat, left : Nat,
           next : Nat, due : BOOLEAN]]
    /\ \A p \in Pingers : pinger[p].failed < pinger[p].i
    /\ \A p \in Pingers : pinger[p].left <= Timeout[p] /\ pinger[p].next <= Interval[p]
    /\ flight \in [Addresses -> 0 .. MaxFlight]
    /\ \A p \in Pingers : pinger[p].pc \in {"resolve", "dial"} => Target(p) \in Names
    /\ toReport \in [Pingers -> -PingTimes .. PingTimes]
    /\ down \in 0 .. MaxDown
    /\ alarms \in [Workers -> Nat]

(***************************************************************************)
(* How much loss of an address a Ping may hide.  A pinger takes any echo   *)
(* reply of its address for its own (icmp.go:200), and the requests are    *)
(* all alike, so a late reply, or one to another pinger, may pass off a    *)
(* lost ping as answered: but one ping each, and nothing else does.  Of    *)
(* the pings that no reply was sent to all are reported but as many as     *)
(* there were such foreign replies.                                        *)
(***************************************************************************)
LossIsReported ==
    \A p \in Pingers :
        pinger[p].pc = "gap" /\ Target(p) \notin Names => pinger[p].failed >= toReport[p]

\* The workers of addresses whose pings fit into their interval.
Fitting ==
    {w \in Workers : AddressOf[w] \notin Names /\ PingTimes * Timeout[w] < Interval[w]}

(***************************************************************************)
(* A worker's Ping of an address is over before its next tick if all its   *)
(* timeouts fit into the interval, whatever messages keep coming           *)
(* (icmp.go:190-203): no tick waits, and none is lost.                     *)
(***************************************************************************)
PingsFitInterval ==
    \A w \in Fitting : pinger[w].due => pinger[w].pc = "idle"

\* The longest publicPing; one that an outage interrupts and that does not notice
\* it has at most 60 % of its pings in the outage, and the next one notices it.
PublicPing == Len(Notary) * PingTimes * Timeout[Liveness]
NoticedAfter == PublicPing + Max({(60 * PublicPing) \div 100, Interval[Liveness]})

Reliable == Notary # <<>> /\ \A k \in DOMAIN Notary : Notary[k] \notin Names

(***************************************************************************)
(* An outage of the adapter's own network is noticed: when livenessTask    *)
(* runs and the notaries are addresses, PingLive is false after the        *)
(* publicPing that the outage interrupted and the next one.                *)
(***************************************************************************)
OutageIsNoticed == TaskRuns /\ Reliable /\ down > NoticedAfter => ~PingLive

(***************************************************************************)
(* However long an outage is, a worker of an address reports a total loss  *)
(* only for the Pings that ended before it was noticed.                    *)
(***************************************************************************)
FewFalseAlarms ==
    Reliable =>
        \A w \in Fitting :
            alarms[w] <= (NoticedAfter + PingTimes * Timeout[w]) \div Interval[w] + 1

(***************************************************************************)
(* ping/liveness.go:9 says of PingLive that it "is a liveness of this      *)
(* service", and the configuration turns pings on and names notaries: it   *)
(* is false in an outage that has lasted long enough.                      *)
(***************************************************************************)
PingLiveTells ==
    /\ parsed /\ Enable /\ Reliable
    /\ pinger[Liveness].pc # "new" /\ down > NoticedAfter
    => ~PingLive
=============================================================================
