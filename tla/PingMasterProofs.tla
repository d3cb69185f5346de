-------------------------- MODULE PingMasterProofs --------------------------
(***************************************************************************)
(* For any targets and keys, any number of answers in flight and of        *)
(* requests that fail: the table of the master holds live workers only     *)
(* (LiveTable); answers applied in any order never touch the worker of a   *)
(* target that all of them have (SteadyTargetsKeepWorkers); and when       *)
(* workers start promptly, no key has two that run (OneWorkerWhenPrompt).  *)
(***************************************************************************)
EXTENDS PingMaster, FiniteSetTheorems, TLAPS

Workers == [pc : {"none", "born", "busy", "select"}, target : Targets \cup {NoTarget},
            opened : BOOLEAN, done : BOOLEAN]

\* The types that the other parts need.
TableType ==
    /\ DOMAIN workers \subseteq Keys
    /\ \A k \in DOMAIN workers : workers[k] \in Slots
    /\ inst \in [Keys \X Slots -> Workers]

\* A worker that has not begun is not open; one that runs is open until it is
\* told to stop.
OpenedWhileRunning ==
    \A i \in Keys \X Slots :
        /\ inst[i].pc = "born" => ~inst[i].opened
        /\ inst[i].pc \in {"busy", "select"} => inst[i].opened \/ inst[i].done

\* Every answer in flight has the targets that all answers had, and so has the one
\* being fetched, of the namespaces that were asked.
AnswersAreSteady ==
    /\ steady \subseteq listed /\ listed \subseteq Targets
    /\ \A t \in steady : NsOf[t] \notin toAsk => t \in servers
    /\ \A answer \in DOMAIN jobs : steady \subseteq answer

TableInv == TableType /\ OpenedWhileRunning /\ TableIsLive /\ AnswersAreSteady

LEMMA TableInit == Init => TableInv
<1> SUFFICES ASSUME Init PROVE TableInv
  OBVIOUS
<1>1. TableType /\ OpenedWhileRunning
  BY DEF Init, TableType, OpenedWhileRunning, Nobody, Worker, Workers
<1>2. TableIsLive
  <2>1. Cardinality({}) = 0
    BY FS_EmptySet
  <2> QED
    BY <2>1 DEF Init, TableIsLive
<1>3. AnswersAreSteady
  BY PingAssumption DEF Init, AnswersAreSteady, EmptyBag, SetToBag
<1> QED
  BY <1>1, <1>2, <1>3 DEF TableInv

\* A step of a goroutine that is not yet told to stop, or not in the table.
LEMMA GoesKeepsTable ==
    ASSUME TableInv, NEW i \in Keys \X Slots, NEW w \in Workers,
           inst' = [inst EXCEPT ![i] = w],
           UNCHANGED <<listed, fetch, jobs, workers, count, edits, faults, steady>>,
           w.target = inst[i].target \/ inst[i].done,
           w.done => inst[i].done,
           w.pc # "none" \/ inst[i].done,
           w.pc \in {"busy", "select"} => w.opened \/ w.done,
           w.pc # "born"
    PROVE  TableInv'
<1>1. TableType'
  BY DEF TableInv, TableType
<1>2. OpenedWhileRunning'
  BY DEF TableInv, TableType, OpenedWhileRunning
<1>3. TableIsLive'
  <2> SUFFICES ASSUME NEW k \in DOMAIN workers
               PROVE  /\ inst'[k, workers[k]].pc # "none" /\ ~inst'[k, workers[k]].done
                      /\ KeyOf[inst'[k, workers[k]].target] = k
    BY DEF TableInv, TableIsLive
  <2>1. /\ inst[k, workers[k]].pc # "none" /\ ~inst[k, workers[k]].done
        /\ KeyOf[inst[k, workers[k]].target] = k /\ <<k, workers[k]>> \in Keys \X Slots
    BY DEF TableInv, TableIsLive, TableType
  <2>2. CASE i = <<k, workers[k]>>
    BY <2>1, <2>2 DEF TableInv, TableType
  <2>3. CASE i # <<k, workers[k]>>
    BY <2>1, <2>3 DEF TableInv, TableType
  <2> QED
    BY <2>2, <2>3
<1>4. AnswersAreSteady'
  BY DEF fetch, TableInv, AnswersAreSteady
<1> QED
  BY <1>1, <1>2, <1>3, <1>4 DEF TableInv

LEMMA WorkerStepKeepsTable ==
    ASSUME TableInv, NEW i \in Keys \X Slots, Run(i) \/ Exit(i)
    PROVE  TableInv'
<1>1. inst[i] \in Workers /\ Nobody \in Workers /\ Nobody.pc = "none"
  BY DEF TableInv, TableType, Workers, Nobody, Worker
<1>2. inst[i].pc = "born" => ~inst[i].opened
  BY DEF TableInv, OpenedWhileRunning
<1>3. CASE RunBegins(i)
  <2> DEFINE w == [inst[i] EXCEPT !.pc = "busy", !.opened = TRUE]
  <2>1. inst' = [inst EXCEPT ![i] = w]
    BY <1>2, <1>3 DEF RunBegins, Goes
  <2>2. /\ w \in Workers /\ w.target = inst[i].target /\ w.done = inst[i].done
        /\ w.pc = "busy" /\ w.opened
    BY <1>1 DEF Workers
  <2> HIDE DEF w
  <2> QED
    BY <1>3, <2>1, <2>2, GoesKeepsTable DEF RunBegins, Goes
<1>4. CASE PingEnds(i) \/ Tick(i)
  <2>1. PICK p \in {"busy", "select"} :
            inst[i].pc \in {"busy", "select"} /\ inst' = [inst EXCEPT ![i] = [inst[i] EXCEPT !.pc = p]]
    BY <1>4 DEF PingEnds, Tick, Goes
  <2> DEFINE w == [inst[i] EXCEPT !.pc = p]
  <2>2. /\ w \in Workers /\ w.target = inst[i].target /\ w.done = inst[i].done
        /\ w.pc = p /\ w.opened = inst[i].opened
    BY <1>1 DEF Workers
  <2>3. inst[i].opened \/ inst[i].done
    BY <2>1 DEF TableInv, OpenedWhileRunning
  <2>4. inst' = [inst EXCEPT ![i] = w]
    BY <2>1
  <2> HIDE DEF w
  <2> QED
    BY <1>4, <2>2, <2>3, <2>4, GoesKeepsTable DEF PingEnds, Tick, Goes
<1>5. CASE Exit(i)
  <2>1. inst' = [inst EXCEPT ![i] = Nobody] /\ inst[i].done
    BY <1>5 DEF Exit, Goes
  <2>2. UNCHANGED <<listed, fetch, jobs, workers, count, edits, faults, steady>>
    BY <1>5 DEF Exit, Goes
  <2> QED
    BY <1>1, <2>1, <2>2, GoesKeepsTable
<1> QED
  BY <1>3, <1>4, <1>5 DEF Run

\* An answer is applied: the table becomes the answer's.
LEMMA DoKeepsTable ==
    ASSUME TableInv, NEW answer \in SUBSET Targets, Do(answer)
    PROVE  TableInv'
<1> DEFINE new == KeysOf(answer) \ DOMAIN workers
           gone == DOMAIN workers \ KeysOf(answer)
           free(k) == {s \in Slots : Gone(k, s)}
           slot == [k \in new |-> CHOOSE s \in free(k) : TRUE]
<1>1. /\ \A k \in new : free(k) # {}
      /\ workers' = [k \in KeysOf(answer) |-> IF k \in new THEN slot[k] ELSE workers[k]]
      /\ count' = count + Cardinality(new) - Cardinality(gone)
      /\ BagIn(answer, jobs) /\ jobs' = jobs (-) SetToBag({answer})
      /\ UNCHANGED <<listed, fetch, steady>>
  <2>1. (DOMAIN workers \cup new) \ gone = KeysOf(answer)
    OBVIOUS
  <2>2. workers' = [k \in (DOMAIN workers \cup new) \ gone |->
                       IF k \in new THEN slot[k] ELSE workers[k]]
    BY DEF Do, NewKeys, GoneKeys
  <2>3. workers' = [k \in KeysOf(answer) |-> IF k \in new THEN slot[k] ELSE workers[k]]
    BY <2>1, <2>2
  <2>4. /\ \A k \in new : free(k) # {}
        /\ count' = count + Cardinality(new) - Cardinality(gone)
        /\ BagIn(answer, jobs) /\ jobs' = jobs (-) SetToBag({answer})
      /\ UNCHANGED <<listed, fetch, steady>>
    BY DEF Do, NewKeys, GoneKeys, CountAfter
  <2> QED
    BY <2>3, <2>4
<1>2. PICK first \in [new -> answer] :
          /\ \A k \in new : KeyOf[first[k]] = k
          /\ inst' = [i \in Keys \X Slots |->
                IF i[1] \in new /\ i[2] = slot[i[1]]
                THEN Worker("born", first[i[1]], FALSE, FALSE)
                ELSE IF i[1] \in gone /\ i[2] = workers[i[1]] THEN Stopped(inst[i])
                ELSE inst[i]]
  BY DEF Do, NewKeys, GoneKeys
<1>3. KeysOf(answer) \subseteq Keys
  BY PingAssumption DEF KeysOf
<1>4. \A k \in new : slot[k] \in Slots
  BY <1>1
<1>5. DOMAIN workers \subseteq Keys /\ inst \in [Keys \X Slots -> Workers]
  BY DEF TableInv, TableType
<1> HIDE DEF slot, free
<1>6. ASSUME NEW i \in Keys \X Slots
      PROVE  /\ inst'[i] \in Workers
             /\ inst'[i].pc = "born" => ~inst'[i].opened
             /\ inst'[i].pc \in {"busy", "select"} => inst'[i].opened \/ inst'[i].done
  <2>1. /\ inst[i] \in Workers
        /\ inst[i].pc = "born" => ~inst[i].opened
        /\ inst[i].pc \in {"busy", "select"} => inst[i].opened \/ inst[i].done
    BY <1>5 DEF TableInv, OpenedWhileRunning
  <2>2. CASE inst'[i] = inst[i]
    BY <2>1, <2>2
  <2>3. CASE inst'[i] = Stopped(inst[i])
    BY <2>1, <2>3 DEF Stopped, Workers
  <2>4. CASE i[1] \in new /\ inst'[i] = Worker("born", first[i[1]], FALSE, FALSE)
    <3>1. first[i[1]] \in Targets
      BY <2>4
    <3> QED
      BY <2>4, <3>1 DEF Worker, Workers
  <2> QED
    BY <1>2, <2>2, <2>3, <2>4
<1>7. TableType'
  <2>1. \A k \in KeysOf(answer) : workers'[k] \in Slots
    BY <1>1, <1>4 DEF TableInv, TableType
  <2>2. inst' \in [Keys \X Slots -> Workers]
    BY <1>2, <1>6
  <2> QED
    BY <1>1, <1>3, <2>1, <2>2 DEF TableType
<1>8. OpenedWhileRunning'
  BY <1>6 DEF OpenedWhileRunning
<1>9. ASSUME NEW k \in KeysOf(answer)
      PROVE  /\ inst'[k, workers'[k]].pc # "none" /\ ~inst'[k, workers'[k]].done
             /\ KeyOf[inst'[k, workers'[k]].target] = k
  <2>1. CASE k \in new
    <3>1. <<k, slot[k]>> \in Keys \X Slots /\ workers'[k] = slot[k]
      BY <1>1, <1>3, <1>4, <2>1
    <3>2. inst'[<<k, slot[k]>>] = Worker("born", first[k], FALSE, FALSE)
      BY <1>2, <2>1, <3>1
    <3> QED
      BY <1>2, <2>1, <3>1, <3>2 DEF Worker
  <2>2. CASE k \notin new
    <3>1. k \in DOMAIN workers /\ workers'[k] = workers[k] /\ k \notin gone
      BY <1>1, <2>2
    <3>2. <<k, workers[k]>> \in Keys \X Slots
      BY <3>1 DEF TableInv, TableType
    <3>3. inst'[<<k, workers[k]>>] = inst[<<k, workers[k]>>]
      BY <1>2, <2>2, <3>1, <3>2
    <3> QED
      BY <3>1, <3>3 DEF TableInv, TableIsLive
  <2> QED
    BY <2>1, <2>2
<1>10. count' = Cardinality(KeysOf(answer))
  <2> DEFINE W == DOMAIN workers
             K == KeysOf(answer)
  <2>1. IsFiniteSet(W) /\ IsFiniteSet(K)
    BY <1>3, <1>5, PingAssumption, FS_Subset
  <2>2. IsFiniteSet(W \cap K)
    BY <2>1, FS_Intersection
  <2>3. /\ Cardinality(W) \in Nat /\ Cardinality(K) \in Nat
        /\ Cardinality(W \cap K) \in Nat
    BY <2>1, <2>2, FS_CardinalityType
  <2>4. Cardinality(W \ K) = Cardinality(W) - Cardinality(W \cap K)
    BY <2>1, FS_Difference
  <2>5. Cardinality(K \ W) = Cardinality(K) - Cardinality(K \cap W)
    BY <2>1, FS_Difference
  <2>6. Cardinality(K \cap W) = Cardinality(W \cap K)
    <3>1. K \cap W = W \cap K
      OBVIOUS
    <3> QED
      BY <3>1, Zenon
  <2>7. count = Cardinality(W) /\ count' = count + Cardinality(K \ W) - Cardinality(W \ K)
    BY <1>1 DEF TableInv, TableIsLive
  <2> DEFINE w == Cardinality(W)
             a == Cardinality(K)
             both == Cardinality(W \cap K)
  <2>8. count' = w + (a - both) - (w - both)
    BY <2>4, <2>5, <2>6, <2>7, Zenon
  <2>9. w \in Nat /\ a \in Nat /\ both \in Nat
    BY <2>3
  <2> HIDE DEF w, a, both
  <2>10. count' = a
    BY <2>8, <2>9
  <2> QED
    BY <2>10 DEF a
<1>11. TableIsLive'
  <2>1. DOMAIN workers' = KeysOf(answer)
    BY <1>1
  <2> QED
    BY <1>9, <1>10, <2>1 DEF TableIsLive
<1>12. AnswersAreSteady'
  <2>1. DOMAIN jobs' \subseteq DOMAIN jobs
    BY <1>1 DEF (-)
  <2> QED
    BY <1>1, <2>1 DEF fetch, TableInv, AnswersAreSteady
<1> QED
  BY <1>7, <1>8, <1>11, <1>12 DEF TableInv

LEMMA TableNext == TableInv /\ [Next]_vars => TableInv'
<1> SUFFICES ASSUME TableInv, [Next]_vars PROVE TableInv'
  OBVIOUS
<1>1. CASE UNCHANGED vars
  BY <1>1 DEF vars, fetch, TableInv, TableType, OpenedWhileRunning, TableIsLive,
              AnswersAreSteady
<1>2. ASSUME NEW t \in Targets, Edit(t) PROVE TableInv'
  BY <1>2 DEF Edit, fetch, TableInv, TableType, OpenedWhileRunning, TableIsLive,
              AnswersAreSteady
<1>3. ASSUME NEW ns \in Namespaces, Ask(ns) \/ AskFails(ns) PROVE TableInv'
  <2>1. PICK found :
            /\ Asks(ns, found) /\ servers \subseteq found /\ steady' \subseteq steady
            /\ \A t \in steady' : NsOf[t] = ns => t \in found
    <3>1. CASE Ask(ns)
      BY <3>1 DEF Ask, TableInv, AnswersAreSteady
    <3>2. CASE AskFails(ns)
      BY <3>2 DEF AskFails
    <3> QED
      BY <1>3, <3>1, <3>2
  <2>2. UNCHANGED <<listed, workers, count, inst>>
    BY <2>1 DEF Asks
  <2>3. \A t \in steady' : NsOf[t] \notin toAsk \ {ns} => t \in found
    BY <2>1 DEF TableInv, AnswersAreSteady
  <2>4. CASE toAsk = {ns}
    <3>1. DOMAIN jobs' = DOMAIN jobs \cup {found} /\ toAsk' = Namespaces
      BY <2>1, <2>4 DEF Asks, (+), SetToBag
    <3>2. \A t \in steady' : NsOf[t] \in Namespaces /\ t \in found
      BY <2>1, <2>3, <2>4, PingAssumption DEF TableInv, AnswersAreSteady
    <3>3. AnswersAreSteady'
      BY <2>1, <2>2, <3>1, <3>2 DEF TableInv, AnswersAreSteady
    <3> QED
      BY <2>2, <3>3 DEF TableInv, TableType, OpenedWhileRunning, TableIsLive
  <2>5. CASE toAsk # {ns}
    <3>1. toAsk' = toAsk \ {ns} /\ servers' = found /\ UNCHANGED jobs
      BY <2>1, <2>5 DEF Asks
    <3>2. AnswersAreSteady'
      BY <2>1, <2>2, <2>3, <3>1 DEF TableInv, AnswersAreSteady
    <3> QED
      BY <2>2, <3>2 DEF TableInv, TableType, OpenedWhileRunning, TableIsLive
  <2> QED
    BY <2>4, <2>5
<1> QED
  BY <1>1, <1>2, <1>3, DoKeepsTable, WorkerStepKeepsTable DEF Next

\* The registry, the answers in flight and the counts of their faults.
RegistryType ==
    /\ listed \subseteq Targets /\ steady \subseteq listed
    /\ toAsk \subseteq Namespaces /\ servers \subseteq Targets
    /\ DOMAIN jobs \subseteq SUBSET Targets
    /\ edits \in 0 .. MaxEdits
    /\ faults \in 0 .. MaxFaults

LEMMA RegistryNext == RegistryType /\ [Next]_vars => RegistryType'
<1> SUFFICES ASSUME RegistryType, [Next]_vars PROVE RegistryType'
  OBVIOUS
<1>0. MaxEdits \in Nat /\ MaxFaults \in Nat
  BY PingAssumption
<1>1. CASE UNCHANGED <<listed, fetch, jobs, edits, faults, steady>>
  BY <1>1 DEF fetch, RegistryType
<1>2. ASSUME NEW t \in Targets, Edit(t) PROVE RegistryType'
  BY <1>0, <1>2 DEF Edit, fetch, RegistryType
<1>3. ASSUME NEW ns \in Namespaces, Ask(ns) \/ AskFails(ns) PROVE RegistryType'
  <2>1. PICK found \in SUBSET Targets : Asks(ns, found)
    BY <1>3 DEF Ask, AskFails, RegistryType
  <2>2. UNCHANGED <<listed, edits>> /\ steady' \subseteq steady /\ faults' \in 0 .. MaxFaults
    BY <1>0, <1>3, <2>1 DEF Ask, AskFails, Asks, RegistryType
  <2>3. CASE toAsk = {ns}
    <3>1. DOMAIN jobs' = DOMAIN jobs \cup {found} /\ toAsk' = Namespaces /\ servers' = {}
      BY <2>1, <2>3 DEF Asks, (+), SetToBag
    <3> QED
      BY <2>2, <3>1 DEF RegistryType
  <2>4. CASE toAsk # {ns}
    BY <2>1, <2>2, <2>4 DEF Asks, RegistryType
  <2> QED
    BY <2>3, <2>4
<1>4. ASSUME NEW answer \in SUBSET Targets, Do(answer) PROVE RegistryType'
  <2>1. jobs' = jobs (-) SetToBag({answer})
        /\ UNCHANGED <<listed, fetch, edits, faults, steady>>
    BY <1>4 DEF Do
  <2>2. DOMAIN jobs' \subseteq DOMAIN jobs
    BY <2>1 DEF (-)
  <2> QED
    BY <2>1, <2>2 DEF fetch, RegistryType
<1> QED
  BY <1>1, <1>2, <1>3, <1>4 DEF Next, Run, RunBegins, PingEnds, Tick, Exit, Goes, vars

\* Types of the ping module; steady targets are in the registry, and the workers of
\* the table in slots of their keys.
THEOREM PingTypes == Spec => []TypeOK
<1>1. Init => RegistryType
  BY PingAssumption DEF Init, RegistryType, EmptyBag, SetToBag
<1>2. TableInv /\ RegistryType => TypeOK
  <2> SUFFICES ASSUME TableInv, RegistryType PROVE TypeOK
    OBVIOUS
  <2>1. count \in Nat
    <3>1. IsFiniteSet(DOMAIN workers)
      BY PingAssumption, FS_Subset DEF TableInv, TableType
    <3> QED
      BY <3>1, FS_CardinalityType DEF TableInv, TableIsLive
  <2> QED
    BY <2>1 DEF TableInv, TableType, RegistryType, TypeOK, Workers
<1> QED
  BY <1>1, <1>2, TableInit, TableNext, RegistryNext, PTL DEF Spec

(***************************************************************************)
(* The table of the master (Do, CreateWorker and RemoveWorker of           *)
(* ping/worker.go) holds live, unstopped workers of its keys, as many as   *)
(* count says, whatever answers come and in whatever order.                *)
(***************************************************************************)
THEOREM LiveTable == Spec => []TableIsLive
<1>1. TableInv => TableIsLive
  BY DEF TableInv
<1> QED
  BY <1>1, TableInit, TableNext, PTL DEF Spec

(***************************************************************************)
(* A target that every answer of the registry has keeps the worker of its  *)
(* key, in whatever order the answers are applied.                         *)
(***************************************************************************)
THEOREM SteadyTargetsKeepWorkers == Spec => SteadyKeepsWorker
<1>1. ASSUME TableInv, [Next]_vars
      PROVE  [\A t \in steady' : KeyOf[t] \in DOMAIN workers =>
                /\ KeyOf[t] \in DOMAIN workers'
                /\ workers'[KeyOf[t]] = workers[KeyOf[t]]]_vars
  <2> SUFFICES ASSUME NEW t \in steady', KeyOf[t] \in DOMAIN workers
               PROVE  KeyOf[t] \in DOMAIN workers' /\ workers'[KeyOf[t]] = workers[KeyOf[t]]
    OBVIOUS
  <2>1. CASE UNCHANGED workers
    BY <2>1
  <2>2. ASSUME NEW answer \in SUBSET Targets, Do(answer)
        PROVE  KeyOf[t] \in DOMAIN workers' /\ workers'[KeyOf[t]] = workers[KeyOf[t]]
    <3>1. answer \in DOMAIN jobs /\ steady' = steady
      BY <2>2 DEF Do, BagIn, BagToSet
    <3>2. KeyOf[t] \in KeysOf(answer)
      BY <1>1, <3>1 DEF TableInv, AnswersAreSteady, KeysOf
    <3> QED
      BY <2>2, <3>2 DEF Do, NewKeys, GoneKeys
  <2> QED
    BY <1>1, <2>1, <2>2 DEF Next, Edit, Ask, AskFails, Asks, Run, RunBegins, PingEnds, Tick, Exit,
                             Goes, vars
<1> QED
  BY <1>1, TableInit, TableNext, PTL DEF Spec, SteadyKeepsWorker

\* No worker that was not told to stop is left out of the table by an answer.
LEMMA DoLeavesNobody ==
    ASSUME PromptRun, TableInv, OneWorkerPerKey, NEW answer \in SUBSET Targets, Do(answer)
    PROVE  OneWorkerPerKey'
<1> DEFINE new == KeysOf(answer) \ DOMAIN workers
           gone == DOMAIN workers \ KeysOf(answer)
           slot == [k \in new |-> CHOOSE s \in {s \in Slots : Gone(k, s)} : TRUE]
<1>1. /\ \A i \in Keys \X Slots : inst[i].pc # "born"
      /\ workers' = [k \in KeysOf(answer) |-> IF k \in new THEN slot[k] ELSE workers[k]]
  <2>1. (DOMAIN workers \cup new) \ gone = KeysOf(answer)
    OBVIOUS
  <2>2. workers' = [k \in (DOMAIN workers \cup new) \ gone |->
                       IF k \in new THEN slot[k] ELSE workers[k]]
    BY DEF Do, NewKeys, GoneKeys
  <2>3. \A i \in Keys \X Slots : inst[i].pc # "born"
    BY DEF Do
  <2> QED
    BY <2>1, <2>2, <2>3
<1>2. PICK first \in [new -> answer] :
          inst' = [i \in Keys \X Slots |->
                IF i[1] \in new /\ i[2] = slot[i[1]]
                THEN Worker("born", first[i[1]], FALSE, FALSE)
                ELSE IF i[1] \in gone /\ i[2] = workers[i[1]] THEN Stopped(inst[i])
                ELSE inst[i]]
  BY DEF Do, NewKeys, GoneKeys
<1> HIDE DEF slot
<1> SUFFICES ASSUME NEW k \in Keys, NEW s \in Slots, ~Gone(k, s)', ~inst'[k, s].done
             PROVE  k \in DOMAIN workers' /\ workers'[k] = s
  BY DEF OneWorkerPerKey
<1> DEFINE i == <<k, s>>
<1>3. /\ i \in Keys \X Slots /\ i[1] = k /\ i[2] = s
      /\ inst'[i] # Nobody /\ ~inst'[i].done /\ inst[i] \in Workers
  BY DEF Gone, TableInv, TableType
<1>4. CASE k \in new /\ s = slot[k]
  BY <1>1, <1>4
<1>5. CASE k \in gone /\ s = workers[k] /\ k \notin new
  <2>1. inst'[i] = Stopped(inst[i])
    BY <1>2, <1>3, <1>5
  <2>2. inst[i].pc # "none" /\ ~inst[i].done
    BY <1>3, <1>5 DEF TableInv, TableIsLive
  <2>3. inst[i].pc \in {"busy", "select"}
    BY <1>1, <1>3, <2>2 DEF Workers
  <2>4. inst[i].opened
    BY <1>3, <2>2, <2>3 DEF TableInv, OpenedWhileRunning
  <2> QED
    BY <1>3, <2>1, <2>4 DEF Stopped, Workers
<1>6. CASE ~(k \in new /\ s = slot[k]) /\ ~(k \in gone /\ s = workers[k])
  <2>1. inst'[i] = inst[i]
    BY <1>2, <1>3, <1>6
  <2>2. k \in DOMAIN workers /\ workers[k] = s
    BY <1>3, <2>1 DEF OneWorkerPerKey, Gone
  <2>3. k \in KeysOf(answer) /\ k \notin new
    BY <1>6, <2>2
  <2> QED
    BY <1>1, <2>2, <2>3
<1> QED
  BY <1>4, <1>5, <1>6

(***************************************************************************)
(* When a worker reaches Run before the next Do starts, every goroutine    *)
(* that was not told to stop is the worker in the table of its key.        *)
(***************************************************************************)
THEOREM OneWorkerWhenPrompt == PromptRun => (Spec => []OneWorkerPerKey)
<1> SUFFICES ASSUME PromptRun PROVE Spec => []OneWorkerPerKey
  OBVIOUS
<1>1. Init => OneWorkerPerKey
  BY DEF Init, OneWorkerPerKey, Gone
<1>2. TableInv /\ OneWorkerPerKey /\ [Next]_vars => OneWorkerPerKey'
  <2> SUFFICES ASSUME TableInv, OneWorkerPerKey, [Next]_vars PROVE OneWorkerPerKey'
    OBVIOUS
  <2>1. CASE UNCHANGED <<workers, inst>>
    BY <2>1 DEF OneWorkerPerKey, Gone
  <2>2. ASSUME NEW i \in Keys \X Slots, Run(i) \/ Exit(i) PROVE OneWorkerPerKey'
    <3>1. UNCHANGED workers /\ inst[i].pc # "none"
      BY <2>2 DEF Run, RunBegins, PingEnds, Tick, Exit, Goes
    <3>2. inst[i] \in Workers /\ Nobody \in Workers /\ Nobody.pc = "none"
      BY DEF TableInv, TableType, Workers, Nobody, Worker
    <3>3. inst'[i].done = inst[i].done \/ inst'[i] = Nobody
      <4>1. inst \in [Keys \X Slots -> Workers]
        BY DEF TableInv, TableType
      <4>2. CASE RunBegins(i)
        BY <3>2, <4>1, <4>2 DEF RunBegins, Goes, Workers
      <4>3. CASE PingEnds(i) \/ Tick(i)
        BY <3>2, <4>1, <4>3 DEF PingEnds, Tick, Goes, Workers
      <4>4. CASE Exit(i)
        BY <4>1, <4>4 DEF Exit, Goes
      <4> QED
        BY <2>2, <4>2, <4>3, <4>4 DEF Run
    <3>4. \A j \in Keys \X Slots : j # i => inst'[j] = inst[j]
      BY <2>2 DEF Run, RunBegins, PingEnds, Tick, Exit, Goes, TableInv, TableType
    <3>5. inst[i] # Nobody
      BY <3>1, <3>2
    <3> SUFFICES ASSUME NEW k \in Keys, NEW s \in Slots, ~Gone(k, s)', ~inst'[k, s].done
                 PROVE  k \in DOMAIN workers' /\ workers'[k] = s
      BY DEF OneWorkerPerKey
    <3>6. inst[<<k, s>>] # Nobody /\ ~inst[<<k, s>>].done
      BY <3>3, <3>4, <3>5 DEF Gone
    <3> QED
      BY <3>1, <3>6 DEF OneWorkerPerKey, Gone
  <2>3. ASSUME NEW answer \in SUBSET Targets, Do(answer) PROVE OneWorkerPerKey'
    BY <2>3, DoLeavesNobody
  <2> QED
    BY <2>1, <2>2, <2>3 DEF Next, Edit, Ask, AskFails, Asks, vars
<1> QED
  BY <1>1, <1>2, TableInit, TableNext, PTL DEF Spec
=============================================================================
