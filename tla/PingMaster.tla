----------------------------- MODULE PingMaster -----------------------------
(***************************************************************************)
(* The ping module's master and workers: ping/ping.go, ping/worker.go and  *)
(* Servers of ping/registry.go.                                            *)
(*                                                                         *)
(* Every three minutes Start fetches the servers, one namespace after the  *)
(* other, and gives the answer to `go m.Do`.  An answer need not be what   *)
(* the registry had at any one time, and answers are applied under the     *)
(* lock of the master, one at a time, in any order.  Do starts a worker    *)
(* for each key it has none for and stops the workers of keys that are not *)
(* in its answer.  A worker is a goroutine of its own: `opened` is written *)
(* by Run and read by Stop, which is called by Do, without a lock.         *)
(*                                                                         *)
(* A target is one (namespace, hostname, IP) of the registry, KeyOf its    *)
(* key in the table, the concatenation ns+hostname+ip, which may be the    *)
(* same for two targets.  snmp/worker.go and APIStatus/worker.go have the  *)
(* same master with keys of their own.                                     *)
(***************************************************************************)
EXTENDS Integers, FiniteSets, Bags

CONSTANTS
    Targets, Namespaces, NsOf,
    Keys, KeyOf,
    NoTarget,
    Slots,          \* bound: goroutines of one key alive at a time
    MaxJobs,        \* bound: answers not yet applied, with the one being fetched
    MaxEdits,       \* bound: changes of the registry
    MaxFaults,      \* bound: namespaces whose machines cannot be fetched
    PromptRun       \* BOOLEAN: workers reach Run before the next Do starts

ASSUME PingAssumption ==
    /\ NsOf \in [Targets -> Namespaces]
    /\ KeyOf \in [Targets -> Keys]
    /\ Namespaces # {}
    /\ NoTarget \notin Targets
    /\ IsFiniteSet(Keys)
    /\ {MaxJobs, MaxEdits, MaxFaults} \subseteq Nat
    /\ PromptRun \in BOOLEAN

VARIABLES
    listed,     \* the targets in the registry
    toAsk,      \* namespaces that the fetch in progress has still to ask
    servers,    \* serversMap: what it was told by the others
    jobs,       \* bag of the answers given to `go m.Do` and not yet applied
    workers,    \* the table of the master: for each key, the slot of its worker
    count,      \* PingMaster.count
    inst,       \* the PingWorker in each slot of each key, with its goroutine
    edits, faults,
    steady      \* history: targets that every answer of the registry had

fetch == <<toAsk, servers>>
vars == <<listed, fetch, jobs, workers, count, inst, edits, faults, steady>>

\* A PingWorker: pc is where its goroutine is (started but not in Run, busy
\* with the random sleep or a ping, at the select), target what it pings.
Worker(pc, target, opened, done) ==
    [pc |-> pc, target |-> target, opened |-> opened, done |-> done]

Nobody == Worker("none", NoTarget, FALSE, FALSE)

Gone(k, s) == inst[k, s] = Nobody

KeysOf(answer) == {KeyOf[t] : t \in answer}

Init ==
    /\ listed \in SUBSET Targets
    /\ toAsk = Namespaces
    /\ servers = {}
    /\ jobs = EmptyBag
    /\ workers = [k \in {} |-> k]
    /\ count = 0
    /\ inst = [i \in Keys \X Slots |-> Nobody]
    /\ edits = 0
    /\ faults = 0
    /\ steady = listed

\* The registry gains or loses a target.
Edit(t) ==
    /\ edits < MaxEdits
    /\ edits' = edits + 1
    /\ listed' = IF t \in listed THEN listed \ {t} ELSE listed \cup {t}
    /\ steady' = steady \ {t}
    /\ UNCHANGED <<fetch, jobs, workers, count, inst, faults>>

\* Servers asks for the machines of the next namespace, after which it has found that
\* much; after the last one workFunc gives the answer to a goroutine of its own.
Asks(ns, found) ==
    /\ ns \in toAsk /\ BagCardinality(jobs) < MaxJobs
    /\ IF toAsk = {ns}
       THEN toAsk' = Namespaces /\ servers' = {} /\ jobs' = jobs (+) SetToBag({found})
       ELSE toAsk' = toAsk \ {ns} /\ servers' = found /\ UNCHANGED jobs
    /\ UNCHANGED <<listed, workers, count, inst, edits>>

\* It gets them, or leaves the namespace out.
Ask(ns) ==
    /\ Asks(ns, servers \cup {t \in listed : NsOf[t] = ns})
    /\ UNCHANGED <<faults, steady>>

AskFails(ns) ==
    /\ Asks(ns, servers)
    /\ faults < MaxFaults /\ faults' = faults + 1
    /\ steady' = {t \in steady : NsOf[t] # ns}

\* A Stop that does not close `done`, and Stop: a worker that has not opened is left
\* as it is.
ClosedOnly(w) == [w EXCEPT !.opened = FALSE]

Stopped(w) == IF w.opened THEN [w EXCEPT !.opened = FALSE, !.done = TRUE] ELSE w

\* The keys of an answer that have no worker yet (and a test that finds none).
EveryKey(answer) == KeysOf(answer)

NewKeys(answer) == KeysOf(answer) \ DOMAIN workers

\* The keys of the table that serverExist does not find in an answer (and what a
\* serverExist that always, or never, finds one would give).
NoKey(answer) == {}
AnyKey(answer) == DOMAIN workers

GoneKeys(answer) == DOMAIN workers \ KeysOf(answer)

\* One up in CreateWorker (or forgotten there) and one down in RemoveWorker.
CountedDown(new, gone) == count - Cardinality(gone)

CountAfter(new, gone) == count + Cardinality(new) - Cardinality(gone)

\* Do with an answer: CreateWorker for each key without a worker, for the first
\* target of that key in the order of the maps; then RemoveWorker for each key
\* that the answer does not have.
Do(answer) ==
    LET new == NewKeys(answer)
        gone == GoneKeys(answer)
        free(k) == {s \in Slots : Gone(k, s)}
        slot == [k \in new |-> CHOOSE s \in free(k) : TRUE]
    IN  /\ BagIn(answer, jobs)
        /\ PromptRun => \A i \in Keys \X Slots : inst[i].pc # "born"
        /\ \A k \in new : free(k) # {}
        /\ jobs' = jobs (-) SetToBag({answer})
        /\ workers' = [k \in (DOMAIN workers \cup new) \ gone |->
                          IF k \in new THEN slot[k] ELSE workers[k]]
        /\ count' = CountAfter(new, gone)
        /\ \E first \in [new -> answer] :
              /\ \A k \in new : KeyOf[first[k]] = k
              /\ inst' = [i \in Keys \X Slots |->
                    IF i[1] \in new /\ i[2] = slot[i[1]]
                    THEN Worker("born", first[i[1]], FALSE, FALSE)
                    ELSE IF i[1] \in gone /\ i[2] = workers[i[1]] THEN Stopped(inst[i])
                    ELSE inst[i]]
        /\ UNCHANGED <<listed, fetch, edits, faults, steady>>

\* Steps of the goroutine of a worker.
Goes(i, from, w) ==
    /\ inst[i].pc = from
    /\ inst' = [inst EXCEPT ![i] = w]
    /\ UNCHANGED <<listed, fetch, jobs, workers, count, edits, faults, steady>>

\* Run returns at once when `opened` is set, which Stop never leaves behind.
RunBegins(i) ==
    Goes(i, "born", IF inst[i].opened THEN Nobody
                    ELSE [inst[i] EXCEPT !.pc = "busy", !.opened = TRUE])

\* The random sleep with the first ping, or the ping of a tick, is over.
PingEnds(i) == Goes(i, "busy", [inst[i] EXCEPT !.pc = "select"])

Tick(i) == Goes(i, "select", [inst[i] EXCEPT !.pc = "busy"])

\* A Run that asks for `opened` too before it leaves, which Stop has reset.
ExitOpened(i) == inst[i].done /\ inst[i].opened /\ Goes(i, "select", Nobody)

Exit(i) == inst[i].done /\ Goes(i, "select", Nobody)

Run(i) == RunBegins(i) \/ PingEnds(i) \/ Tick(i)

Next ==
    \/ \E t \in Targets : Edit(t)
    \/ \E ns \in Namespaces : Ask(ns) \/ AskFails(ns)
    \/ \E answer \in SUBSET Targets : Do(answer)
    \/ \E i \in Keys \X Slots : Run(i) \/ Exit(i)

(***************************************************************************)
(* The ticker of Start fires again and again, requests to the registry     *)
(* end, a Do that waits for the lock gets it, and goroutines run.  When    *)
(* the tick and `done` are both ready, select chooses at random: strong    *)
(* fairness of Exit.                                                       *)
(***************************************************************************)
Fairness ==
    /\ WF_vars(\E ns \in Namespaces : Ask(ns))
    /\ SF_vars(\E answer \in SUBSET Targets : Do(answer))
    /\ \A i \in Keys \X Slots : WF_vars(Run(i)) /\ SF_vars(Exit(i))

Spec == Init /\ [][Next]_vars /\ Fairness
-----------------------------------------------------------------------------
TypeOK ==
    /\ listed \subseteq Targets /\ steady \subseteq listed
    /\ toAsk \subseteq Namespaces /\ servers \subseteq Targets
    /\ DOMAIN jobs \subseteq SUBSET Targets
    /\ DOMAIN workers \subseteq Keys
    /\ \A k \in DOMAIN workers : workers[k] \in Slots
    /\ count \in Nat
    /\ inst \in [Keys \X Slots ->
                   [pc : {"none", "born", "busy", "select"}, target : Targets \cup {NoTarget},
                    opened : BOOLEAN, done : BOOLEAN]]
    /\ edits \in 0 .. MaxEdits
    /\ faults \in 0 .. MaxFaults

(***************************************************************************)
(* The table holds what it says: the worker of a key is a live one that    *)
(* nobody has stopped, pings a target of that key, and count is the size   *)
(* of the table.  A stopped worker in the table would never be replaced,   *)
(* and a second Stop would close `done` twice, which panics.               *)
(***************************************************************************)
TableIsLive ==
    /\ \A k \in DOMAIN workers :
          LET w == inst[k, workers[k]]
          IN  w.pc # "none" /\ ~w.done /\ KeyOf[w.target] = k
    /\ count = Cardinality(DOMAIN workers)

(***************************************************************************)
(* One goroutine at most pings for a key without having been told to stop. *)
(* It holds if a worker is in Run before the next Do; else Stop (line 145) *)
(* returns early, and the worker runs on outside the table.                *)
(***************************************************************************)
OneWorkerPerKey ==
    \A k \in Keys : \A s \in Slots :
        ~Gone(k, s) /\ ~inst[k, s].done => k \in DOMAIN workers /\ workers[k] = s

(***************************************************************************)
(* A target that every answer of the registry has keeps its worker, in     *)
(* whatever order the answers are applied: its probe is never interrupted  *)
(* or restarted by changes of other targets (Do, lines 36-64).             *)
(***************************************************************************)
SteadyKeepsWorker ==
    [][\A t \in steady' : KeyOf[t] \in DOMAIN workers =>
          /\ KeyOf[t] \in DOMAIN workers'
          /\ workers'[KeyOf[t]] = workers[KeyOf[t]]]_vars

\* A worker that was told to stop ends (lines 131-142).
StoppedWorkerEnds ==
    \A i \in Keys \X Slots : inst[i].done ~> ~inst[i].done

(***************************************************************************)
(* When the registry rests, the table gets the keys of its targets and     *)
(* keeps them, though answers may be applied out of order before.          *)
(***************************************************************************)
TableConverges == <>[](DOMAIN workers = KeysOf(listed))
=============================================================================
