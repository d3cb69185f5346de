----------------------------- MODULE Kapacitor ------------------------------
(***************************************************************************)
(* The alarm module: adapter/adapter.go and adapter/kapacitor.go.          *)
(*                                                                         *)
(* The loop of Start reconciles, once a minute, the tasks that the         *)
(* Kapacitor servers host with the alarms of the registry: it lists the    *)
(* servers one after the other, deletes a task met a second time, fetches  *)
(* the alarms, creates what is missing at the server the hash ring gives,  *)
(* and removes what is not wanted.  A second goroutine, updateAlarmServers,*)
(* replaces Addrs, Clients and Hash every three minutes.  It does so under *)
(* the lock, but the loop reads Addrs and Hash without it.                 *)
(*                                                                         *)
(* Around the two goroutines: the registry, whose alarms and machines      *)
(* change; the servers, which keep their tasks when the adapter restarts;  *)
(* and the network, where a request may fail or be executed after its      *)
(* caller gave up (Timeout of the client, or `go` in RemoveTask).          *)
(*                                                                         *)
(* Addrs are server URLs (schemaURL applied to an address), Versions alarm *)
(* versions, which are the IDs of the tasks made of them.                  *)
(***************************************************************************)
EXTENDS Ring, Sequences, FiniteSets, Functions

CONSTANTS
    Foreign,            \* IDs without "loda__": tasks that others created
    NoAddr,             \* a URL of no server
    Garbage,            \* the strings that memory past a slice may read as
    BadAddrs,           \* URLs that client.New refuses
    Uncreatable,        \* versions CreateTask gives up on: agent.alive, genTick
    Machines, AddrOf,   \* registry machines and the URL of their IntranetIP
    Lists,              \* the machine lists the registry may answer with
    Budget,             \* how often each of the Events may happen
    MaxPending          \* bound on equal requests in flight

TaskIds == Versions \cup Foreign
Events == {"edit", "relist", "fault", "restart"}
Calls == {"create", "delete"} \X Addrs \X TaskIds

ASSUME KapacitorAssumption ==
    /\ Versions \cap Foreign = {}
    /\ NoAddr \notin Addrs
    /\ Garbage \subseteq Addrs \cup {NoAddr}
    /\ BadAddrs \subseteq Addrs
    /\ Uncreatable \subseteq Versions
    /\ AddrOf \in [Machines -> Addrs]
    /\ Lists \subseteq Seq(Machines)
    /\ Budget \in [Events -> Nat]
    /\ MaxPending \in Nat \ {0}

VARIABLES
    \* registry
    wanted,     \* versions of the alarms that users configured
    machines,   \* machines of the Kapacitor namespace
    withdrawn,  \* history: task IDs that at some time were not wanted
    \* servers and network
    hosted,     \* the tasks of each server
    pending,    \* requests sent and neither executed nor lost, with multiplicity
    \* type Kapacitor
    addrs,      \* Addrs
    clients,    \* the keys of Clients
    ring,       \* Hash
    updater,    \* updateAlarmServers: what it fetched, and where in SetAddr it is
    \* the loop of Start
    pc,
    urls,       \* the slice that Tasks ranges over
    pos,        \* index of the next server to list
    seen,       \* the keys of tasks
    todo,       \* what the loop at pc has still to handle
    alarms,     \* the keys of the map that Alarms returned
    target,     \* url chosen by hashKapacitor, with the version it is for
    \* bound
    budget      \* events that may still happen

registry == <<wanted, machines, withdrawn>>
servers == <<hosted, pending>>
kapacitor == <<addrs, clients, ring>>
loop == <<pc, urls, pos, seen, todo, alarms, target>>
vars == <<registry, servers, kapacitor, updater, loop, budget>>

Spend(event) ==
    /\ budget[event] > 0
    /\ budget' = [budget EXCEPT ![event] = @ - 1]

\* AlarmServers: one URL per machine, in the registry's order.
AlarmServers == [i \in DOMAIN machines |-> AddrOf[machines[i]]]

\* fullAddrs of SetAddr: the URLs whose client could be made, in their order.
\* (The set of the one such sequence.)
FullAddrs(list) ==
    LET good == {i \in DOMAIN list : list[i] \notin BadAddrs}
        inOrder == {f \in [1 .. Cardinality(good) -> good] :
                       \A i, j \in DOMAIN f : i < j => f[i] < f[j]}
    IN  {[i \in DOMAIN f |-> list[f[i]]] : f \in inOrder}

\* The keys of clients in SetAddr.
Connected(list) == Range(list) \ BadAddrs

UpdaterIdle == [pc |-> "idle", list |-> <<>>]
NoTarget == <<NoAddr, NoAddr>>

\* The loop goes back to sleep and drops what the pass has collected.
ToSleep ==
    /\ pc' = "sleep"
    /\ urls' = <<>> /\ pos' = 1 /\ seen' = {} /\ todo' = {} /\ alarms' = {}
    /\ target' = NoTarget

Init ==
    /\ wanted \in SUBSET Versions
    /\ machines \in Lists
    /\ withdrawn = Versions \ wanted
    /\ hosted \in {h \in [Addrs -> SUBSET TaskIds] : \A a \in BadAddrs : h[a] = {}}
    /\ pending = [c \in Calls |-> 0]
    /\ addrs \in FullAddrs(AlarmServers)
    /\ clients = Connected(AlarmServers)
    /\ ring = CircleOf(AlarmServers)
    /\ updater = UpdaterIdle
    /\ pc = "sleep"
    /\ urls = <<>> /\ pos = 1 /\ seen = {} /\ todo = {} /\ alarms = {}
    /\ target = NoTarget
    /\ budget = Budget
-----------------------------------------------------------------------------
(* Requests to a server.                                                   *)

\* The server executes a create (which it refuses when it has the task) or a
\* delete (which does nothing when it has not).
Executed(op, a, id) ==
    [hosted EXCEPT ![a] = IF op = "create" THEN @ \cup {id} ELSE @ \ {id}]

Send(op, a, id) ==
    /\ pending[<<op, a, id>>] < MaxPending
    /\ pending' = [pending EXCEPT ![<<op, a, id>>] = @ + 1]

\* A call the loop waits for: it is executed; or it fails, having done nothing;
\* or the client times out and the request is executed later.
Request(op, a, id) ==
    \/ hosted' = Executed(op, a, id) /\ UNCHANGED <<pending, budget>>
    \/ Spend("fault") /\ UNCHANGED servers
    \/ Spend("fault") /\ Send(op, a, id) /\ UNCHANGED hosted

\* A request in flight is executed, or lost with its connection.
Land(c) ==
    /\ pending[c] > 0
    /\ hosted' = Executed(c[1], c[2], c[3])
    /\ pending' = [pending EXCEPT ![c] = @ - 1]
    /\ UNCHANGED <<registry, kapacitor, updater, loop, budget>>

Lose(c) ==
    /\ pending[c] > 0
    /\ Spend("fault")
    /\ pending' = [pending EXCEPT ![c] = @ - 1]
    /\ UNCHANGED <<registry, hosted, kapacitor, updater, loop>>
-----------------------------------------------------------------------------
(* updateAlarmServers: AlarmServers, then SetAddr under the write lock.    *)

Locked == updater.pc # "idle"

\* The list is fetched, the lock taken, and the new values are built.
StartSetAddr ==
    /\ updater.pc = "idle"
    /\ updater' = [pc |-> "addrs", list |-> AlarmServers]
    /\ UNCHANGED <<registry, servers, kapacitor, loop, budget>>

SetAddrs ==
    /\ updater.pc = "addrs"
    /\ addrs' \in FullAddrs(updater.list)
    /\ updater' = [updater EXCEPT !.pc = "clients"]
    /\ UNCHANGED <<registry, servers, clients, ring, loop, budget>>

\* A SetAddr that forgets the clients.
SetHashOnly ==
    /\ updater.pc = "clients"
    /\ ring' = CircleOf(updater.list)
    /\ updater' = UpdaterIdle
    /\ UNCHANGED <<registry, servers, addrs, clients, loop, budget>>

\* Clients is read under the lock only, so its store and that of Hash, with
\* which the lock is released, are one step.
SetClientsAndHash ==
    /\ updater.pc = "clients"
    /\ clients' = Connected(updater.list)
    /\ ring' = CircleOf(updater.list)
    /\ updater' = UpdaterIdle
    /\ UNCHANGED <<registry, servers, addrs, loop, budget>>
-----------------------------------------------------------------------------
(* Tasks.                                                                  *)

\* What the first n entries of the memory of a slice read as: past its end is
\* some other memory, which may look like a string or not.
Prefixes(slice, n) ==
    {[i \in 1 .. n |-> IF i <= Len(slice) THEN slice[i] ELSE past[i]] :
        past \in [1 .. n -> Garbage]}

\* What an unlocked read of the slice header of k.Addrs gives: the pointer and
\* the length may come from different sides of a store in progress.
AddrsReads ==
    {addrs} \cup
    IF updater.pc # "addrs" THEN {}
    ELSE UNION {{new} \cup Prefixes(addrs, Len(new)) \cup Prefixes(new, Len(addrs)) :
                   new \in FullAddrs(updater.list)}

BeginPass ==
    /\ pc = "sleep"
    /\ urls' \in AddrsReads
    /\ pc' = "list"
    /\ UNCHANGED <<registry, servers, kapacitor, updater, pos, seen, todo, alarms,
                   target, budget>>

\* The client of the next URL is gone: the pass ends.
NoClient ==
    /\ pc = "list" /\ pos <= Len(urls)
    /\ ~Locked
    /\ urls[pos] \notin clients
    /\ ToSleep
    /\ UNCHANGED <<registry, servers, kapacitor, updater, budget>>

\* A Tasks that goes on to the next server before it deletes the duplicates.
ListTasksAdvanced ==
    /\ pc = "list" /\ pos <= Len(urls)
    /\ ~Locked
    /\ urls[pos] \in clients
    /\ seen' = seen \cup hosted[urls[pos]]
    /\ todo' = seen \cap hosted[urls[pos]]
    /\ pc' = IF seen \cap hosted[urls[pos]] = {} THEN "list" ELSE "dedup"
    /\ pos' = pos + 1
    /\ UNCHANGED <<registry, servers, kapacitor, updater, urls, alarms, target, budget>>

\* The lookup of the client and the call are one step: what SetAddr does between
\* them is not seen by the call.
ListTasks ==
    /\ pc = "list" /\ pos <= Len(urls)
    /\ ~Locked
    /\ urls[pos] \in clients
    /\ LET ts == hosted[urls[pos]]
       IN  /\ seen' = seen \cup ts
           /\ todo' = seen \cap ts
           /\ pc' = IF seen \cap ts = {} THEN "list" ELSE "dedup"
           /\ pos' = IF seen \cap ts = {} THEN pos + 1 ELSE pos
    /\ UNCHANGED <<registry, servers, kapacitor, updater, urls, alarms, target, budget>>

\* A Tasks that goes on without the server that it cannot list.
ListSkips ==
    /\ pc = "list" /\ pos <= Len(urls)
    /\ Spend("fault")
    /\ pos' = pos + 1
    /\ UNCHANGED <<registry, servers, kapacitor, updater, pc, urls, seen, todo, alarms,
                   target>>

\* A server that cannot be listed ends the pass.
ListFails ==
    /\ pc = "list" /\ pos <= Len(urls)
    /\ Spend("fault")
    /\ ToSleep
    /\ UNCHANGED <<registry, servers, kapacitor, updater>>

\* A clean-up that deletes the task at every server, as RemoveTask does.
DeleteEverywhere(id) ==
    /\ pc = "dedup" /\ id \in todo
    /\ hosted' = [a \in Addrs |-> IF a \in clients THEN hosted[a] \ {id} ELSE hosted[a]]
    /\ todo' = todo \ {id}
    /\ pc' = IF todo = {id} THEN "list" ELSE "dedup"
    /\ pos' = IF todo = {id} THEN pos + 1 ELSE pos
    /\ UNCHANGED <<registry, pending, kapacitor, updater, urls, seen, alarms, target, budget>>

\* A task met before is deleted at this server; a failure is only logged.
DeleteDuplicate(id) ==
    /\ pc = "dedup" /\ id \in todo
    /\ Request("delete", urls[pos], id)
    /\ todo' = todo \ {id}
    /\ pc' = IF todo = {id} THEN "list" ELSE "dedup"
    /\ pos' = IF todo = {id} THEN pos + 1 ELSE pos
    /\ UNCHANGED <<registry, kapacitor, updater, urls, seen, alarms, target>>
-----------------------------------------------------------------------------
(* Alarms, and the two loops of Work.                                      *)

\* The registry answers with at least one alarm.
FetchAlarms ==
    /\ pc = "list" /\ pos > Len(urls)
    /\ wanted # {}
    /\ alarms' = wanted
    /\ todo' = wanted \ seen
    /\ pc' = "create"
    /\ UNCHANGED <<registry, servers, kapacitor, updater, urls, pos, seen, target, budget>>

\* It has none, or gives an error: the pass ends.
NoAlarms ==
    /\ pc = "list" /\ pos > Len(urls)
    /\ (wanted = {} /\ UNCHANGED budget) \/ Spend("fault")
    /\ ToSleep
    /\ UNCHANGED <<registry, servers, kapacitor, updater>>

\* hashKapacitor, which reads Hash and Addrs without the lock.
HashKapacitor(id) ==
    IF ring # EmptyCircle THEN Owner(ring, id)
    ELSE IF Len(addrs) > 0 THEN addrs[1] ELSE NoAddr

\* CreateTask up to the choice of the server.
RefuseTask(id) ==
    /\ pc = "create" /\ id \in todo \cap Uncreatable
    /\ todo' = todo \ {id}
    /\ UNCHANGED <<registry, servers, kapacitor, updater, pc, urls, pos, seen, alarms,
                   target, budget>>

ChooseServer(id) ==
    /\ pc = "create" /\ id \in todo \ Uncreatable
    /\ target' = <<HashKapacitor(id), id>>
    /\ todo' = todo \ {id}
    /\ pc' = "call"
    /\ UNCHANGED <<registry, servers, kapacitor, updater, urls, pos, seen, alarms, budget>>

\* The rest of CreateTask.
CreateTask ==
    /\ pc = "call"
    /\ ~Locked
    /\ IF target[1] \in clients
       THEN Request("create", target[1], target[2])
       ELSE UNCHANGED <<servers, budget>>
    /\ target' = NoTarget
    /\ pc' = "create"
    /\ UNCHANGED <<registry, kapacitor, updater, urls, pos, seen, todo, alarms>>

\* The first loop of Work is over.
BeginRemove ==
    /\ pc = "create" /\ todo = {}
    /\ todo' = seen \ alarms
    /\ pc' = "remove"
    /\ UNCHANGED <<registry, servers, kapacitor, updater, urls, pos, seen, alarms, target,
                   budget>>

\* RemoveTask: one goroutine per client deletes the task, nobody waits for it.
\* A task that is not loda's is left alone.
RemoveTask(id) ==
    /\ pc = "remove" /\ id \in todo
    /\ todo' = todo \ {id}
    /\ IF id \in Foreign
       THEN UNCHANGED pending
       ELSE /\ ~Locked
            /\ \A a \in clients : pending[<<"delete", a, id>>] < MaxPending
            /\ pending' = [c \in Calls |->
                  IF c[1] = "delete" /\ c[2] \in clients /\ c[3] = id
                  THEN pending[c] + 1 ELSE pending[c]]
    /\ UNCHANGED <<registry, hosted, kapacitor, updater, pc, urls, pos, seen, alarms, target,
                   budget>>

EndPass ==
    /\ pc = "remove" /\ todo = {}
    /\ ToSleep
    /\ UNCHANGED <<registry, servers, kapacitor, updater, budget>>
-----------------------------------------------------------------------------
(* The world around.                                                       *)

\* A user adds or removes an alarm.
EditAlarm(id) ==
    /\ Spend("edit")
    /\ wanted' = IF id \in wanted THEN wanted \ {id} ELSE wanted \cup {id}
    /\ withdrawn' = withdrawn \cup (Versions \ wanted')
    /\ UNCHANGED <<machines, servers, kapacitor, updater, loop>>

\* The machines of the Kapacitor namespace, or only their order, change.
Relist ==
    /\ Spend("relist")
    /\ machines' \in Lists \ {machines}
    /\ UNCHANGED <<wanted, withdrawn, servers, kapacitor, updater, loop>>

\* The process dies with some of the requests it has in flight, and Start runs
\* again (it panics while the registry does not answer).
DiesAndStarts ==
    /\ \E lost \in SUBSET {c \in Calls : pending[c] > 0} :
          pending' = [c \in Calls |-> IF c \in lost THEN 0 ELSE pending[c]]
    /\ addrs' \in FullAddrs(AlarmServers)
    /\ clients' = Connected(AlarmServers)
    /\ ring' = CircleOf(AlarmServers)
    /\ updater' = UpdaterIdle
    /\ ToSleep
    /\ UNCHANGED <<registry, hosted>>

Restart == Spend("restart") /\ DiesAndStarts

\* Memory past the slice need not hold a string: where it does not, looking the
\* client up faults.  (Where it does, there is NoClient.)
Crash ==
    /\ pc = "list" /\ pos <= Len(urls)
    /\ ~Locked
    /\ urls[pos] = NoAddr
    /\ DiesAndStarts
    /\ UNCHANGED budget

Updater == StartSetAddr \/ SetAddrs \/ SetClientsAndHash

Loop ==
    \/ BeginPass \/ NoClient \/ ListTasks \/ ListFails
    \/ FetchAlarms \/ NoAlarms \/ CreateTask \/ BeginRemove \/ EndPass
    \/ \E id \in TaskIds :
          DeleteDuplicate(id) \/ RefuseTask(id) \/ ChooseServer(id) \/ RemoveTask(id)

Network == \E c \in Calls : Land(c) \/ Lose(c)

World == Relist \/ Restart \/ Crash \/ \E id \in Versions : EditAlarm(id)

Next == Updater \/ Loop \/ Network \/ World

(***************************************************************************)
(* Both goroutines go on (a RWMutex lets a waiting reader in between two   *)
(* writers, so the loop is not locked out), and a request in flight is     *)
(* executed or lost.                                                       *)
(***************************************************************************)
Fairness ==
    /\ WF_vars(Updater)
    /\ SF_vars(Loop)
    /\ \A c \in Calls : WF_vars(Land(c))

Spec == Init /\ [][Next]_vars /\ Fairness
-----------------------------------------------------------------------------
WorldType ==
    /\ wanted \subseteq Versions
    /\ machines \in Lists
    /\ withdrawn \subseteq Versions
    /\ budget \in [Events -> Nat]

ServersType ==
    /\ hosted \in [Addrs -> SUBSET TaskIds]
    /\ pending \in [Calls -> 0 .. MaxPending]

KapacitorType ==
    /\ addrs \in Seq(Addrs)
    /\ clients \subseteq Addrs
    /\ DOMAIN ring \subseteq Nat /\ ring \in [DOMAIN ring -> Addrs]
    /\ updater \in [pc : {"idle", "addrs", "clients"}, list : Seq(Addrs)]

LoopType ==
    /\ pc \in {"sleep", "list", "dedup", "create", "call", "remove"}
    /\ urls \in Seq(Addrs \cup {NoAddr})
    /\ pos \in 1 .. Len(urls) + 1
    /\ pc = "sleep" => pos = 1
    /\ pc = "dedup" => pos <= Len(urls) /\ urls[pos] \in Addrs
    /\ seen \subseteq TaskIds
    /\ todo \subseteq TaskIds
    /\ pc \in {"create", "call"} => todo \subseteq Versions
    /\ alarms \subseteq Versions
    /\ IF pc = "call" THEN target \in (Addrs \cup {NoAddr}) \X Versions
                      ELSE target = NoTarget

TypeOK == WorldType /\ ServersType /\ KapacitorType /\ LoopType

\* The servers that host a task.
Copies(id) == {a \in Addrs : id \in hosted[a]}

(***************************************************************************)
(* A task that was wanted all the time, or that is not loda's, never loses *)
(* its last copy.  Tasks() deletes the second copy it meets (line 85),     *)
(* from a list it made earlier, by calls that may be executed late.        *)
(***************************************************************************)
LastCopyKept ==
    [][\A id \in TaskIds \ withdrawn' : Copies(id) # {} => Copies(id)' # {}]_vars

(***************************************************************************)
(* While the servers stay the same, the tasks on them change only as       *)
(* AlarmSync allows: no second copy is made, and no last copy of a task    *)
(* that is wanted goes.  The list behind a create (lines 98-104) or a      *)
(* delete (line 85) is old when the call is made, and the call may be      *)
(* executed after its caller gave up.                                      *)
(***************************************************************************)
Sync == INSTANCE AlarmSync WITH copies <- [id \in TaskIds |-> Copies(id)]

ImplementsAlarmSync == Sync!Spec

\* The servers in use host one copy of each alarm that can be created, and no
\* task of an alarm that is not configured.
InSync ==
    LET copies(v) == {a \in Range(addrs) : v \in hosted[a]}
    IN  /\ \A v \in wanted \ Uncreatable :
              HashKapacitor(v) \in clients => Cardinality(copies(v)) = 1
        /\ \A v \in Versions \ wanted : copies(v) = {}

(***************************************************************************)
(* Once users, machines and network have come to rest, the tasks are in    *)
(* sync and stay so, from any distribution of tasks, as long as one alarm  *)
(* is configured.  (The whole of Start and Work.)                          *)
(***************************************************************************)
Converges == <>[](wanted # {} => InSync)

(***************************************************************************)
(* README.md line 4: the adapter writes the alarms into kapacitor "and     *)
(* update if user change the config".  Also when the change removes the    *)
(* last alarm.                                                             *)
(***************************************************************************)
RemovedAlarmsEnd ==
    \A v \in Versions : <>[](v \notin wanted) => <>(\A a \in Range(addrs) : v \notin hosted[a])
=============================================================================
