# Verification of alarm-adapter

TLA+ modules, TLC runs and TLAPS proofs for lodastack/alarm-adapter, kept
beside the code.  Line numbers are those of the files under `src/`.

## 1. The system

alarm-adapter is one Go process.  `runStart` (command/start.go:48) parses the
configuration, writes a PID file and starts four modules, each a goroutine
with a loop of its own.  They share only the configuration and the registry
(an HTTP service) that all of them poll.

| component | source | state | operations |
|---|---|---|---|
| consistent-hash ring | adapter/consistent.go | `circle`, `members`, `sortedHashes`, `count`, RWMutex | Add, Remove, Set, Get, GetTwo, GetN |
| alarm reconciliation | adapter/adapter.go, kapacitor.go, registry.go | `Addrs`, `Clients`, `Hash` under `mu`; the tasks on the servers | Start loop (Tasks, Alarms, Work), updateAlarmServers (SetAddr) |
| ping master, workers | ping/ping.go, worker.go, registry.go | `workers`, `count`; `opened`, `done` of a worker | Do, CreateWorker, RemoveWorker, Run, Stop |
| ping probes | ping/icmp.go, liveness.go | `PingLive` | Ping, v4Pinger, v6Pinger, livenessTask, publicPing |
| snmp master, workers | snmp/worker.go, snmp.go, registry.go | as ping | as ping |
| snmp traffic points | snmp/collect.go | `historymap`, `lasttimemap` under `mu` | traffic, FetchInfIndex, FetchTraffic, MakePoint |
| API monitoring | APIStatus/ | as ping | as ping, monitorAPI |
| process | command/, cmd/, service.sh | PID file | start, stop, Notify |
| helpers | requests/, report/, config/ | none | HTTP calls, constants |

How they interact: the alarm loop calls the registry and, one after the other,
every Kapacitor server; its deletes run in goroutines that nobody waits for.
`updateAlarmServers` replaces what the loop reads, under a lock that the loop
takes for `Clients` but not for `Addrs` and `Hash`.  Each of the three masters
gets the registry's answer in `go m.Do(answer)`, every three minutes, and
starts and stops workers; a worker polls once in its interval.  Ping workers
read `PingLive`, which a goroutine that `init` starts writes.  `start`, `stop`
and service.sh are processes of their own that share the PID file.

What is hard, and what makes each component correct:

- *ring*: three representations of one set and a counter beside it, and walks
  that end only because the counter is right.  Correct: the state is a
  function of the members; lookups find the next point; a write moves no name
  between two elements that stay.
- *alarms*: a pass decides from lists that are old when it acts; calls fail,
  or are executed after their caller gave up; server lists change inside a
  pass; a slice is read while it is stored; restarts forget what is in flight.
  Correct: one copy of each alarm in the end; never a second copy made, never
  the last copy of a wanted task lost.
- *masters*: answers put together while the registry changes and applied in any
  order, partial answers, and a `Stop` that reads what `Run` writes.  Correct: the table holds what runs, and follows
  the registry.
- *traffic*: answers that are lost, late, come twice or have a value of another
  type, a clock that is set back, overlapping polls.  Correct: no second is
  covered twice, a point is about its own interface and is the traffic between
  two readings.
- *API monitoring*: monitors that overlap, a list of addresses with one reader
  for the body, metas that go stale under their key, a stop during a sleep.
  Correct: a bounded number of monitors, reports about one answer, workers as
  old as their API, no worker that goes on after its stop or stops unasked.
- *ping probes*: replies that are late or another's, messages that are no
  replies, a liveness that is as old as its last round, the order of init.
  Correct: a foreign reply hides no more than one loss, a ping ends by its
  deadline, an outage of the adapter's own network is noticed and not reported
  as everybody's.
- *process*: processes that die and leave their PID, stops that overlap other
  stops and starts, a start beside an adapter.  Correct, unless somebody does
  what the code has no defence against: one adapter, which the PID file names
  and a stop ends.

`PROJECT.json` lists every hazard at its line with the properties for it.

## 2. Modules

| module | models |
|---|---|
| `Ring` | the circle as operators on values: virtual nodes, put, drop, next point, owner |
| `HashRing` | the type `Consistent`: Add, Remove, Set; GetN and GetTwo as loops |
| `AlarmSync` | abstract: what the alarm module promises about copies of tasks |
| `Kapacitor` | adapter.go and kapacitor.go: both goroutines, servers, network, registry, restart |
| `PingMaster` | the ping module's Start, Servers, Do, and the life of its workers |
| `PingProbe` | Ping and its pingers, livenessTask, and what a worker does with a loss |
| `SnmpTraffic` | the snmp module for one switch: its worker, a poll request by request, MakePoint |
| `ApiMonitor` | the API module for one key: Do, the worker, monitorAPI request by request |
| `Process` | start, stop, service.sh, signals and the PID file |
| `MC*` | small instances for TLC |
| `*Proofs` | theorems (section 5) |

`HashRing` and `Kapacitor` are both built on `Ring`: what SetAddr builds by Add
on a new ring is `CircleOf`, what `hashKapacitor` looks up is `Owner`.

### HashRing

One variable per field.  Add, Remove and Set hold the write lock and are one
step each, the refresh of `sortedHashes` (`Store`) included.  GetN and GetTwo
take one step up to their loop and one step per index, since the question is
whether they end; `reader` is the call, and writes wait for it.  A negative
`count` would make GetN panic in `make`; the action is not taken then.
`CarefulCallers` says whether callers add only what is not a member.

### Kapacitor

`addrs`, `clients`, `ring` are the fields of `Kapacitor`; `pc`, `urls`, `pos`,
`seen`, `todo`, `alarms`, `target` the locals of Start, Tasks and Work.
`Tasks` is BeginPass (which reads the slice header of `Addrs`, torn while
SetAddr stores it), then per server NoClient, ListTasks or ListFails, and
DeleteDuplicate for each task met before.  `Work` is FetchAlarms, per alarm
RefuseTask or ChooseServer and CreateTask, BeginRemove, and RemoveTask per
task.  SetAddr is three steps: StartSetAddr, SetAddrs, SetClientsAndHash.
A call may succeed, fail, or be left in `pending` after a timeout; the deletes
of RemoveTask always go to `pending`; Land executes and Lose drops one.
Restart forgets the locals and any part of what is in flight.
Maps are sets of their keys; the order of map iteration is a free choice.
A torn read whose length is greater than its slice reads the memory past it as
strings: `Garbage` is what these may be, `NoAddr` for what is no server's URL.
Such a string has no client (NoClient, the pass ends), or is no string at all
and the process dies when it is looked up (Crash, after which somebody starts
it again).  A version of `agent.alive`, or one whose script genTick refuses, is in
`Uncreatable`.  `withdrawn` is a history of the versions that were not wanted.

### AlarmSync

For each task the servers that host it.  A copy is placed only when there is
none; a copy is dropped if another is left or the task was unwanted at some
time.  `Kapacitor` maps `hosted` to it.

### PingMaster

Servers asks one namespace after the other: Ask or AskFails for each in
`toAsk`, which collects `servers`; the last one gives the answer to a goroutine.
The registry may change between two of them, and the order of the namespaces is
a free choice.
`jobs` is the bag of answers given to `go m.Do`; Do takes any one of them.
`workers` maps a key to a slot, `inst` has the PingWorker and its goroutine:
born (started, not in Run), busy (sleeping or pinging), select.  The addresses
of a machine that `allow` selects are targets of their own; the key
ns+hostname+ip may be equal for two of them.  `PromptRun` says whether a
worker is in Run before the next Do.

`SnmpTraffic` and `ApiMonitor` have the life of a worker as the ping module
does, for one key: the three masters are copies of each other, and what a table
of several keys and answers in any order add is checked in `PingMaster` once.

### SnmpTraffic

`worker` is the table's entry for the switch, `inst` the workers, in the table
or stopped but still in Run, `poll` what each of them is at.  A poll takes a
step per request: name, in, out, status, then MakePoint.  `Exchanges` is what
sendPacket makes of a request: the switch answers not at all, once or twice,
the first answer in the socket is read, and what comes when nobody waits is
left for the next request.  `Accepted` is the test of the Request-ID: after one
late answer every later request of the poll reads the answer to the one before
and fails.  An answer may also have a value of another type (`odd`).  `GoType` is
the Go type that the vendored gosnmp gives a value, and `Asserted` the
assertions of FetchTraffic, which leave 0 or "" where they fail and go on to
MakePoint.  Since a Counter64 comes as uint64, both counters are always 0: the
branch of MakePoint for a counter that was reset is modelled (`CounterFell`)
and never taken.
`advanced`, `covered`, `point` and the fields `carried` and `odd` of a reading
are histories: how far the clock has gone ahead, the durations of the points
under a name, the points of the last step and what they are about.
The reading of the clock is one for a call of MakePoint; the factor 8 is left
out.

### ApiMonitor

An answer is the set of metas it has for the key; empty is an answer without
it.  `mon` has the goroutines of monitorAPI with their locals: RequestFails,
Answer, Match and Send are the ways on through the loop, NextRequest is its
head (an address that makes no request is passed over), `left` the rest of the
client's timeout.  Panic is MustCompile, Restart a new process.  Run waits for
its first monitor and for no other.  Time passes when no goroutine can go on;
only the start of Run and its random sleep may take any time, the reason for
`PromptRun`.

### PingProbe

`pinger` has the goroutines that ping: the workers, and livenessTask.  Ping
resolves a name once (Resolve: any time, or it ends without a failure), and
each of its pings dials (Dial: up to the timeout, since the name is resolved
again), sets a deadline, sends a request (Request) or fails to (RequestFails),
and reads messages until a reply or the deadline (Message, Expire).  An address
that is no name, one not in `Names`, is resolved and dialled at once.  `flight`
counts the echo replies on their way from an address, without saying whose
they are, as the code cannot tell either; a message arrives at every socket
that is open for its address.  `Message` has three kinds: a reply, one that the
parser of version 6 refuses, any other.  (The parser of version 4 refuses only
what is shorter than 4 bytes, and the buffer never is.)  A ticker keeps one
tick (`due`).  `toReport`, `down` and `alarms` are histories: `toReport` counts
the pings of a Ping that no reply was sent to, less the replies to earlier
requests or to others' that it may meet.  Link cuts the network or brings it
back.

### Process

`proc` is the adapter process of each PID, `op` what each operator runs: stop,
or service.sh, which is a stop, a sleep and a start.  BareStart is `start` run
by hand, at any time and beside whatever runs: runStart looks for no other
process.  WriteFile is two steps, as it truncates first.  SIGINT to a process
that has not called signal.Notify ends it or, since shells start background
commands with SIGINT ignored, does nothing.  The sleep of service.sh is taken
to be longer than a process needs from a signal to its exit.  `disturbed` is
the history of what the code does not guard against: a start while an adapter
runs, a command while another or a start is not over, and a PID that could not
be written.  The properties are about what happens without it: they say that
nothing else can go wrong, not that the code keeps operators from doing so.

## 3. Runs

| run | shows | bounds |
|---|---|---|
| ring | TypeOK, RingIsItsMembers, GetIsOwner, WalksFindTheClosest, MinimalDisruption, WalksEnd | 3 elements with 2 virtual nodes, interleaved on the circle; 4 names: before, on and past points; lists with repeats; n from 1 to 4; careful callers |
| alarm_fixed | ImplementsAlarmSync | 3 servers (one refused by client.New), 1 alarm, 1 foreign task; 3 faults, 2 edits, 1 restart |
| alarm_settle | TypeOK, Converges, LastCopyKept | 2 servers, 2 alarms, one of which genTick refuses, any tasks anywhere; a server joins or leaves, also in torn reads, whose garbage is no server's URL; 1 edit, 1 fault, crashes |
| alarm_last_removed | RemovedAlarmsEnd is violated | 1 alarm, 1 edit |
| ping_master | TypeOK, OneWorkerPerKey, TableIsLive, StoppedWorkerEnds, TableConverges, SteadyKeepsWorker | 3 targets, two with one key, 2 namespaces, asked in any order; 2 answers at a time with the one being fetched, 1 edit, 1 namespace that fails; prompt workers |
| snmp | TypeOK, CoveredOnce, PointsAreOwn | 2 workers of one switch, 2 interfaces, 2 seconds; any two of a fault (an answer lost, late, twice or of another type), a clock set back, a removal; a byte where none of them happens (`BytesOrEvents`) |
| snmp_type | PointsAreTraffic is violated | 1 worker, 1 interface, no fault: 2 bytes each way in 3 seconds |
| api | TypeOK, BoundedMonitors, ReportTellsOneAnswer, StaleOnlyWithoutGap, OneMoreAfterStop, WatchedStaysWatched | 3 metas: one whose two timeouts exceed the interval, one whose timeout is out of range, one whose pattern does not compile; 2 addresses; 2 workers, 3 monitors each; prompt workers |
| api_pattern | BadPatternIsReported is violated | a meta whose pattern does not compile |
| probe | TypeOK, LossIsReported, PingsFitInterval, OutageIsNoticed, FewFalseAlarms | 2 notaries; 2 workers, one of a name of version 6 that takes time to resolve and dial, one of an address that shares replies with livenessTask, each with livenessTask but not both at once (`OneWorker`); 2 pings per Ping, 2 replies in flight per address |
| probe_live | PingLiveTells is violated | 1 worker |
| process | TypeOK, OneAdapter, CanBeStopped, StopEndsAdapter | 2 operators, 2 processes; bare starts at any time |

Why the bounds are enough for the cases of interest: a ring of three elements
has a name that moves, one that stays and a third owner; two virtual nodes
interleave and make a walk wrap.  Two servers are what a duplicate needs, and
the third of alarm_fixed is the address without client.  Two pending answers
are what out-of-order needs.  Two seconds, of which one may be set back, give a
duration of 0 or below and a second that could be counted twice; two
interfaces, and requests that are one behind, give answers of the other one.
Two timeouts of 2 in an interval of 3 make two monitors overlap, the bound
that BoundedMonitors states, and the third slot is the one it forbids.  A
publicPing that is longer than its interval makes ticks wait and be lost, an
outage may begin at any of its pings, and MaxDown is one past the time that
OutageIsNoticed allows.  A reply in flight may be taken for another's, and two
sockets have it; two in flight may pass off both pings of a Ping.  The two
workers of the probe run have no address in common, so that neither sees the
replies of the other; and no byte that a counter has gets into a point
(finding 2), so that bytes and events need not meet.  Two operators are what a disturbance needs.
What larger values could add is left to the proofs.

Every property has a mutant (`PROJECT.json`): an operator next to the
definition that is wrong as a plausible bug would make it, and breaks it.

### Fairness

- HashRing: a walk that has started goes on; nothing in it blocks.
- Kapacitor: WF of the updater (its ticker fires again and again), SF of the
  loop (Go's RWMutex lets readers in between two writers), WF of Land (a
  request in flight is executed unless it is lost).
- PingMaster: WF of fetching (the ticker fires, requests end), SF of Do (a goroutine waiting
  for a mutex gets it), WF of a worker's steps, SF of Exit (`select` chooses at
  random when the tick and `done` are both ready).
- ApiMonitor: WF of each worker's Run, of its monitors and of Time: goroutines
  run and no request outlives its timeout.  Nothing says that the registry
  changes or that somebody starts a process that died.
- Process: WF of the steps of a process and of a command that was begun;
  nobody has to run one.
- SnmpTraffic and PingProbe state safety only; OutageIsNoticed bounds a time.

## 4. What the code does otherwise than it says

1. An empty list of alarms is taken for a failure (adapter.go:38): the tasks of
   the last alarms removed run on.
2. FetchTraffic asserts int64 where gosnmp gives uint64 (collect.go:130, 137):
   all traffic points are 0, and a counter that was reset is never seen.
3. MustCompile (APIStatus/worker.go:214) panics for a pattern that does not
   compile, in a goroutine: the process ends.  The branch that would report it
   (lines 215-220) never runs.
4. livenessTask (liveness.go:18) looks at the configuration before runStart
   parses it, and returns; PingLive stays true in every outage.  The properties
   OutageIsNoticed and FewFalseAlarms say what the rest of the code does in the
   runs of the goroutine in which the configuration came first.

Not findings with a run of their own, but worth knowing:

- Two machines with one address make Tasks list that server twice and delete
  every task there in each pass (kapacitor.go:85); Work creates them again one
  pass later.  And a delete of a duplicate that timed out and is executed after
  the machine list came back in another order can meet a pass that deleted the
  other copy.  Both are why `OrderedLists` is needed in section 5.
- After an element was added twice or a stranger removed, `count` is not 1 on
  a ring of one element (consistent.go:67, 84, 157): GetTwo then gives that
  element twice, or never ends while it holds the read lock.  SetAddr does add
  an address as often as the registry lists it; it calls Get only.
- A torn read of `Addrs` whose garbage is a server's URL can list one server
  twice, with the same end; with `Garbage = {A, B, NoAddr}` TLC finds it.  The
  theorems about last copies say so (`NoServerInGarbage`).
- A name that cannot be resolved is reported as no loss at all
  (icmp.go:138-141), and to resolve one has no limit: nothing bounds the Ping
  of a name, whose worker may miss its ticks.  The properties about losses and
  time are about addresses, which is what the registry lists.  A notary that is
  a name can delay the notice of an outage for as long.
- Two pingers of one address share replies, and a late reply is taken by the
  next ping: each such reply may hide one lost ping.  LossIsReported bounds it.
- An SNMP error answer carries Null values; interfaces with one name, or whose
  name is no string, share a history; the duration of a point is between two
  MakePoints, its bytes between two readings.
- `start` run beside an adapter gives two adapters and one PID file
  (command/start.go:48-68); the second adapter is the one that stop ends.
- README.md:12 of the repository names the flag `-f`; `start` has `-c`
  (command/start.go:30).
- The workers' `opened` is written by Run and read by Stop without a lock: a
  worker that is stopped before it is in Run goes on outside the table
  (`PromptRun` and the worker that is born in SnmpTraffic).

## 5. Proofs

All hold for every value of the constants, from the assumptions of the module
(`RingAssumption`, `HashRingAssumption`, `KapacitorAssumption`,
`PingAssumption`, `SnmpAssumption`, `ApiAssumption`, `ProbeAssumption`,
`ProcessAssumption`) and the hypothesis in
the statement.

| theorem | statement | argument |
|---|---|---|
| `PutAllIsTheLoop` | PutAll over one more place is CirclePut after PutAll | the greatest claiming place is the last one added |
| `OrderOfServersIsFree` | no collision, same elements: `CircleOf(old) = CircleOf(new)` | every hash of an element is its own (`CircleOfElements`) |
| `RebuildsDisturbLittle` | no collision: an owner differs between two rings only if it left or came | as for `CarefulWritesDisturbLittle` |
| `RingTyping` | `Spec => []TypeOK` of HashRing | `SortedInv`: the sorted hashes are SortedHashes of the circle; `ReaderInv`: a walk is over a circle that is not empty |
| `GetFindsOwner` | `Spec => []GetIsOwner` | from `SortedInv`: the sorted hashes are a strictly increasing enumeration of the circle, so the first index above the key is that of NextPoint |
| `CarefulRing` | careful callers, no collision: `Spec => []RingIsItsMembers` | `RingInv` adds types and finiteness; Set is the hard case: the places it adds are as many as the new elements (`FreshPlacesFacts`) |
| `CarefulWritesDisturbLittle` | same: `Spec => MinimalDisruption` | from `RingInv` before and after: if both owners are in both rings, both points are on both circles, and the next point is the same (`SharedPointIsNext`) |
| `CarefulWalksFindTheClosest` | same: `Spec => []WalksFindTheClosest` | `WalkOk`: what a walk found are the owners of the places it has visited, closest first, and it has found too few |
| `CarefulWalksShorten` | same: `Spec => WalksShorten` | a walk that starts at index 0 has found all elements before it could begin anew (`WalkIsNotOver`) |
| `TypeCorrect` | `Spec => []TypeOK` of Kapacitor | TypeOK is inductive with the part for `pc = "sleep"`; a torn read is a sequence over the URLs and `Garbage` |
| `OrderedListsKeepLastCopies` | no server in `Garbage`, lists in one order: `Spec => LastCopyKept` | `KeptInv`: every delete in flight leaves a copy on a server earlier in the order, as does every one that may still be sent; removals are of withdrawn versions |
| `PromptDeletesKeepLastCopies` | `NoServerInGarbage /\ DistinctLists => (Spec /\ [][~LateDelete]_vars => LastCopyKept)` | `MetInv`: what the pass has seen is still on a server that it listed before, and deletes in flight are of withdrawn versions |
| `AlarmsMoveLittle` | `NoCollision => (Spec => OwnersMoveLittle)` | the ring is always CircleOf of a list; then `RebuildsDisturbLittle` |
| `FixedServersImplementSync` | `OrderedLists /\ FixedServers => (Spec => ImplementsAlarmSync)` | `OnceInv` on top of `KeptInv`: a create in flight is for the owner on the ring and no other server has a copy; what was listed and not seen is nowhere but at its owner |
| `PingTypes` | `Spec => []TypeOK` of PingMaster | `TableInv` (next row) and `RegistryType` |
| `LiveTable` | `Spec => []TableIsLive` | `TableInv`: a worker is opened while it is busy or at the select unless it is stopped |
| `SteadyTargetsKeepWorkers` | `Spec => SteadyKeepsWorker` | a steady target is in every answer not yet applied, and in the one being fetched once its namespace was asked |
| `OneWorkerWhenPrompt` | `PromptRun => (Spec => []OneWorkerPerKey)` | with no worker born, Stop closes every worker that leaves the table |
| `ApiTypes` | `Spec => []TypeOK` of ApiMonitor | proved with the next one: a monitor's timeout is in range because Timeout is |
| `ReportsTellOneAnswer` | `Spec => []ReportTellsOneAnswer` | `Told1`: a monitor that still asks has no code, match or 2xx yet, and has lost the body only past its first address |
| `WorkersAreFresh` | `Spec => []StaleOnlyWithoutGap` | `since` grows with every answer that has the key and is emptied only with the entry |
| `StoppedStartOneMore` | `Spec => []OneMoreAfterStop` | before its ticker a stopped worker has started none, at the select it may have a tick due; once `next` is reset time cannot pass while `done` can be received |
| `MonitorsAreBounded` | `Spec => []BoundedMonitors` | `AgeInv`: the monitors have ages, each at most the timeouts used so far, any two of a worker an interval apart |
| `ProbeTypes` | `Spec => []TypeOK` of PingProbe | `ProbeInv`: who dials or reads has pings to do, so that its count and failures stay in range; only names are resolved and dialled over time |
| `LossIsNotHidden` | `Spec => []LossIsReported` | `ReportInv`: the pings of a Ping that were answered, with the replies on their way, are no more than those sent less `toReport` (or foreign replies were as many as the pings) |
| `PingsFit` | `Spec => []PingsFitInterval` | `Punctual`: in a Ping, the time since the tick is at most the timeouts of the pings that are over and of the one that waits |
| `OutagesAreNoticed` | `Spec => []OutageIsNoticed` | `OutageInv`, below |
| `AlarmsAreFew` | `Spec => []FewFalseAlarms` | `OutageInv`, below |
| `SnmpTypes` | `Spec => []TypeOK` of SnmpTraffic | inductive; what is in a socket is answers to requests |
| `NoSecondTwice` | `Spec => []CoveredOnce` | `CoverInv`: what the points under a name cover and the time since its last reading are together no more than the clock has gone ahead; a clock that is set back makes the second part smaller |
| `PointsBelong` | `Spec => []PointsAreOwn` | `OwnInv`: what a poll has read so far is of the interface it is at, by its place in FetchTraffic |
| `RatesAreZero` | every rate of every point is 0 | `ZeroInv`: no type that gosnmp decodes is int64, so every reading and every history is 0 |
| `ProcessTypes` | `Spec => []TypeOK` of Process | inductive |
| `OneAdapterAtMost` | `Spec => []OneAdapter` | `ProcessInv`, under `~disturbed`: at most one command runs, and only while no process boots; when it sleeps whoever lives was signalled |
| `AdapterCanBeStopped` | `Spec => []CanBeStopped` | the same invariant: the command's target is the one that lives, and the file names it until it is signalled |

Why the invariants are stronger than the properties: LastCopyKept is not
preserved by itself, since a delete that was sent when there were two copies
may be executed when there is one; the invariant must bound what is in flight.
AlarmSync's "no second copy" likewise needs to know where a create in flight
goes.

Two properties speak of time that no variable holds, and their invariants say
that a suitable time exists.  BoundedMonitors counts monitors: `AgeInv` is
`\E age \in [Monitors -> Nat] : Aged(age)`, the steps of time make everyone one
older, and ages that are an interval apart and at most the sum of the timeouts
are so few (`FS_Injection` into the quotients).  In an outage `down` stops at
`MaxDown`, so the invariant cannot be in its terms: `OutageInv` has an `r` that
`down` does not exceed and that goes on.  With it, `Noticing` says of the
publicPing in progress that the time since the outage began went into pings
that were lost, or that all its pings so far were lost, so that it will notice;
and `Few` says that the total losses of a worker are an interval apart.

`PromptDeletesKeepLastCopies` and `OrderedListsKeepLastCopies` have different
hypotheses on purpose.  LastCopyKept fails when a delete is late and the lists
swap two machines meanwhile, and when a list has an address twice; TLC finds
the first within a dozen steps once the lists are `<<m1, m2>>` and
`<<m2, m1>>`.  The theorems say that each of the two repairs would be enough:
one order for the lists, or no delete after its caller gave up.  Both need
distinct addresses, and that no garbage of a torn read is a server's URL, as
such a read can name a server twice too.

Only model-checked: everything with fairness (WalksEnd, Converges,
StoppedWorkerEnds, TableConverges, WatchedStaysWatched, StopEndsAdapter), which
is out of the prover's reach.  Of WalksEnd the measure is proved
(`CarefulWalksShorten`), what is left is that an enabled round is taken.
All invariants and step properties of the passing runs are stated by a theorem;
those of the ring about its members and walks, for careful callers.

The theorems of Process are conditional as their properties are: `disturbed`
records what the code has no defence against, and the proof shows that deaths,
panics, stops and restarts, with a sleep of service.sh that is long enough, need
no other condition.

## 6. Not modelled

- Pure I/O: requests, report, the Sends; their failures are choices of the
  modules that call them.  Logging and profiles.
- The text of the TICK scripts (genTick, genTimeLambda), the bytes of ICMP and
  SNMP messages, how the registry's JSON is decoded.  `IntranetIP`, `allow` and
  the contents of the configuration enter as constants.
- The masters of snmp and APIStatus for several keys: they are copies of the
  ping master's code, but that the key has other parts.
- Callers of the ring that are not careful, and ping workers that are not
  prompt, have no run; `LiveTable` and `SteadyTargetsKeepWorkers` are proved
  for the latter.
- In Process, a PID that the system has given to another program.
- In PingMaster, that the list of namespaces (Registry.NS) changes too: it is a
  constant, and a namespace that comes or goes is one whose targets do.

## 7. Plan

Done, in this order: Ring and HashRing; Kapacitor with AlarmSync; PingMaster;
SnmpTraffic; their proofs; the workers of SnmpTraffic; ApiMonitor, PingProbe
and Process; the proofs of ApiMonitor, Process, PingProbe and SnmpTraffic.

Then the proofs that were open: the types, Get and the walks of HashRing,
BoundedMonitors, the three properties of PingProbe about time, and
LastCopyKept for lists in any order.

Next:

1. `TimeWindow`: genTimeLambda over bounded hours against a reference.
