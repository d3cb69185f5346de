--------------------------- MODULE KapacitorProofs --------------------------
(***************************************************************************)
(* For any alarms, servers, lists and budgets of faults:                   *)
(*  - every state of the alarm module has the type TypeOK (TypeCorrect):   *)
(*    in particular a task is deleted or created only at the URL of a      *)
(*    server, whatever memory Tasks takes for a URL when it reads the      *)
(*    slice while SetAddr stores another;                                  *)
(*  - no wanted task loses its last copy, if the machine lists keep one    *)
(*    order (OrderedListsKeepLastCopies), or if no delete of a duplicate   *)
(*    outlives its caller (PromptDeletesKeepLastCopies); for both, memory  *)
(*    past a slice must not be the URL of a server;                        *)
(*  - Kapacitor implements AlarmSync, if moreover the list stays the same  *)
(*    (FixedServersImplementSync);                                         *)
(*  - an alarm changes its server only if that leaves the ring or the new  *)
(*    one comes to it (AlarmsMoveLittle).                                  *)
(***************************************************************************)
EXTENDS Kapacitor, RingProofs, FiniteSetTheorems, TLAPS

\* The registry gives sequences of URLs.
LEMMA AlarmServersType ==
    ASSUME WorldType
    PROVE  AlarmServers \in Seq(Addrs)
<1>1. machines \in Seq(Machines)
  BY KapacitorAssumption DEF WorldType
<1> QED
  BY <1>1, KapacitorAssumption DEF AlarmServers

(***************************************************************************)
(* fullAddrs has the good URLs of the list, in increasing places of it.    *)
(***************************************************************************)
LEMMA FullAddrsPlaces ==
    ASSUME NEW list \in Seq(Addrs), NEW s \in FullAddrs(list)
    PROVE  \E f \in [DOMAIN s -> {i \in DOMAIN list : list[i] \notin BadAddrs}] :
              /\ s = [i \in DOMAIN f |-> list[f[i]]]
              /\ DOMAIN s = 1 .. Cardinality({i \in DOMAIN list : list[i] \notin BadAddrs})
              /\ \A i, j \in DOMAIN f : i < j => f[i] < f[j]
  BY DEF FullAddrs

LEMMA GoodPlacesAreFinite ==
    ASSUME NEW list \in Seq(Addrs)
    PROVE  /\ IsFiniteSet({i \in DOMAIN list : list[i] \notin BadAddrs})
           /\ Cardinality({i \in DOMAIN list : list[i] \notin BadAddrs}) \in Nat
<1> DEFINE good == {i \in DOMAIN list : list[i] \notin BadAddrs}
<1>1. DOMAIN list = 1 .. Len(list) /\ Len(list) \in Nat
  OBVIOUS
<1>2. IsFiniteSet(DOMAIN list)
  BY <1>1, FS_Interval
<1>3. IsFiniteSet(good)
  BY <1>2, FS_Subset
<1>4. Cardinality(good) \in Nat
  BY <1>3, FS_CardinalityType
<1> QED
  BY <1>3, <1>4

LEMMA FullAddrsType ==
    ASSUME NEW list \in Seq(Addrs), NEW s \in FullAddrs(list)
    PROVE  s \in Seq(Addrs)
<1> DEFINE n == Cardinality({i \in DOMAIN list : list[i] \notin BadAddrs})
<1>1. PICK f \in [DOMAIN s -> {i \in DOMAIN list : list[i] \notin BadAddrs}] :
          /\ s = [i \in DOMAIN f |-> list[f[i]]]
          /\ DOMAIN s = 1 .. n
          /\ \A i, j \in DOMAIN f : i < j => f[i] < f[j]
  BY FullAddrsPlaces
<1>2. n \in Nat
  BY GoodPlacesAreFinite
<1> HIDE DEF n
<1>3. \A i \in 1 .. n : list[f[i]] \in Addrs
  BY <1>1
<1>4. s = [i \in 1 .. n |-> list[f[i]]]
  BY <1>1
<1>5. s \in [1 .. n -> Addrs]
  BY <1>3, <1>4
<1> QED
  BY <1>2, <1>5

LEMMA ConnectedType ==
    ASSUME NEW list \in Seq(Addrs)
    PROVE  Connected(list) \subseteq Addrs
  BY DEF Connected, Range

\* Reads of the slice, torn ones included, give URLs or NoAddr.
LEMMA AddrsReadsType ==
    ASSUME KapacitorType, NEW read \in AddrsReads
    PROVE  read \in Seq(Addrs \cup {NoAddr})
<1>1. addrs \in Seq(Addrs) /\ updater.list \in Seq(Addrs)
  BY DEF KapacitorType
<1>2. ASSUME NEW slice \in Seq(Addrs), NEW n \in Nat, NEW p \in Prefixes(slice, n)
      PROVE  p \in Seq(Addrs \cup {NoAddr})
  <2>1. PICK past \in [1 .. n -> Garbage] :
            p = [i \in 1 .. n |-> IF i <= Len(slice) THEN slice[i] ELSE past[i]]
    BY <1>2 DEF Prefixes
  <2>2. \A i \in 1 .. n : past[i] \in Addrs \cup {NoAddr}
    BY KapacitorAssumption
  <2>3. \A i \in 1 .. n : i <= Len(slice) => slice[i] \in Addrs
    BY <1>2
  <2> QED
    BY <2>1, <2>2, <2>3
<1>5. ASSUME NEW slice \in Seq(Addrs) PROVE slice \in Seq(Addrs \cup {NoAddr})
  OBVIOUS
<1>3. CASE read = addrs
  BY <1>1, <1>3, <1>5
<1>4. CASE read # addrs
  <2>1. PICK new \in FullAddrs(updater.list) :
            read \in {new} \cup Prefixes(addrs, Len(new)) \cup Prefixes(new, Len(addrs))
    BY <1>4 DEF AddrsReads
  <2>2. new \in Seq(Addrs)
    BY <1>1, FullAddrsType
  <2>3. Len(new) \in Nat /\ Len(addrs) \in Nat
    BY <1>1, <2>2
  <2>4. new \in Seq(Addrs \cup {NoAddr})
    BY <1>5, <2>2
  <2>5. \A p \in Prefixes(addrs, Len(new)) : p \in Seq(Addrs \cup {NoAddr})
    BY <1>1, <1>2, <2>3
  <2>6. \A p \in Prefixes(new, Len(addrs)) : p \in Seq(Addrs \cup {NoAddr})
    BY <1>2, <2>2, <2>3
  <2> QED
    BY <2>1, <2>4, <2>5, <2>6
<1> QED
  BY <1>3, <1>4

LEMMA HashKapacitorType ==
    ASSUME KapacitorType, NEW id \in Versions
    PROVE  HashKapacitor(id) \in Addrs \cup {NoAddr}
<1>1. CASE ring # EmptyCircle
  <2>1. ring \in [DOMAIN ring -> Addrs] /\ DOMAIN ring \subseteq Nat
    BY DEF KapacitorType
  <2>2. DOMAIN ring # {}
    BY <1>1, <2>1 DEF EmptyCircle
  <2>3. Owner(ring, id) \in Addrs
    BY <2>1, <2>2, OwnerIsElement
  <2> QED
    BY <1>1, <2>3 DEF HashKapacitor
<1>2. CASE ring = EmptyCircle
  BY <1>2 DEF HashKapacitor, KapacitorType
<1> QED
  BY <1>1, <1>2

\* A step of the loop back to sleep.
LEMMA ToSleepType ==
    ASSUME ToSleep
    PROVE  LoopType'
<1>1. <<>> \in Seq(Addrs \cup {NoAddr}) /\ Len(<<>>) = 0
  OBVIOUS
<1> QED
  BY <1>1 DEF ToSleep, LoopType

LEMMA SpendType ==
    ASSUME WorldType, NEW event \in Events, Spend(event)
    PROVE  budget' \in [Events -> Nat]
  BY DEF WorldType, Spend

LEMMA ExecutedType ==
    ASSUME ServersType, NEW op, NEW a \in Addrs, NEW id \in TaskIds
    PROVE  Executed(op, a, id) \in [Addrs -> SUBSET TaskIds]
  BY DEF ServersType, Executed

LEMMA RequestType ==
    ASSUME WorldType, ServersType, NEW op \in {"create", "delete"}, NEW a \in Addrs,
           NEW id \in TaskIds, Request(op, a, id)
    PROVE  ServersType' /\ budget' \in [Events -> Nat]
<1>1. CASE hosted' = Executed(op, a, id) /\ UNCHANGED <<pending, budget>>
  BY <1>1, ExecutedType DEF ServersType, WorldType
<1>2. CASE Spend("fault") /\ UNCHANGED servers
  BY <1>2, SpendType DEF ServersType, servers, Events
<1>3. CASE Spend("fault") /\ Send(op, a, id) /\ UNCHANGED hosted
  <2>1. <<op, a, id>> \in Calls
    BY DEF Calls
  <2>2. pending' \in [Calls -> 0 .. MaxPending]
    BY <1>3, <2>1, KapacitorAssumption DEF ServersType, Send
  <2> QED
    BY <1>3, <2>2, SpendType DEF ServersType, Events
<1> QED
  BY <1>1, <1>2, <1>3 DEF Request

(***************************************************************************)
(* Type correctness, the type invariant of Kapacitor.                      *)
(***************************************************************************)
LEMMA TypeInit == Init => TypeOK
<1> SUFFICES ASSUME Init PROVE TypeOK
  OBVIOUS
<1>1. WorldType
  BY KapacitorAssumption DEF Init, WorldType
<1>2. AlarmServers \in Seq(Addrs)
  BY <1>1, AlarmServersType
<1>3. ServersType
  BY KapacitorAssumption DEF Init, ServersType
<1>4. KapacitorType
  <2>1. addrs \in Seq(Addrs)
    BY <1>2, FullAddrsType DEF Init
  <2>2. clients \subseteq Addrs
    BY <1>2, ConnectedType DEF Init
  <2>3. DOMAIN ring \subseteq Nat /\ ring \in [DOMAIN ring -> Addrs]
    BY <1>2, CircleOfFacts DEF Init
  <2> QED
    BY <2>1, <2>2, <2>3 DEF Init, KapacitorType, UpdaterIdle
<1>5. LoopType
  <2>1. <<>> \in Seq(Addrs \cup {NoAddr}) /\ Len(<<>>) = 0
    OBVIOUS
  <2> QED
    BY <2>1 DEF Init, LoopType
<1> QED
  BY <1>1, <1>3, <1>4, <1>5 DEF TypeOK

LEMMA TypeNext == TypeOK /\ [Next]_vars => TypeOK'
<1> SUFFICES ASSUME TypeOK, [Next]_vars PROVE TypeOK'
  OBVIOUS
<1> USE DEF TypeOK
<1>1. WorldType'
  <2>1. CASE UNCHANGED <<registry, budget>>
    BY <2>1 DEF WorldType, registry
  <2>2. CASE \E event \in Events : Spend(event) /\ UNCHANGED registry
    BY <2>2, SpendType DEF WorldType, registry
  <2>3. ASSUME NEW id \in TaskIds, DeleteDuplicate(id) PROVE WorldType'
    <3>1. urls[pos] \in Addrs
      BY <2>3 DEF DeleteDuplicate, LoopType
    <3>2. budget' \in [Events -> Nat]
      BY <2>3, <3>1, RequestType DEF DeleteDuplicate
    <3> QED
      BY <2>3, <3>2 DEF DeleteDuplicate, WorldType, registry
  <2>4. ASSUME CreateTask PROVE WorldType'
    <3>1. target[2] \in Versions
      BY <2>4 DEF CreateTask, LoopType
    <3>2. budget' \in [Events -> Nat]
      BY <2>4, <3>1, RequestType DEF CreateTask, KapacitorType, TaskIds, WorldType
    <3> QED
      BY <2>4, <3>2 DEF CreateTask, WorldType, registry
  <2>5. ASSUME NEW id \in Versions, EditAlarm(id) PROVE WorldType'
    <3>1. budget' \in [Events -> Nat]
      BY <2>5, SpendType DEF EditAlarm, Events
    <3> QED
      BY <2>5, <3>1 DEF EditAlarm, WorldType
  <2>6. ASSUME Relist PROVE WorldType'
    <3>1. budget' \in [Events -> Nat]
      BY <2>6, SpendType DEF Relist, Events
    <3> QED
      BY <2>6, <3>1 DEF Relist, WorldType
  <2> QED
    BY <2>1, <2>2, <2>3, <2>4, <2>5, <2>6
       DEF Next, Updater, Loop, Network, World, StartSetAddr, SetAddrs,
           SetClientsAndHash, BeginPass, NoClient, ListTasks, ListFails, FetchAlarms,
           NoAlarms, RefuseTask, ChooseServer, BeginRemove, RemoveTask, EndPass,
           Restart, Crash, DiesAndStarts, Land, Lose, Events, vars
<1>2. ServersType'
  <2>1. CASE UNCHANGED servers
    BY <2>1 DEF ServersType, servers
  <2>2. ASSUME NEW c \in Calls, Land(c) PROVE ServersType'
    <3>1. /\ c[2] \in Addrs /\ c[3] \in TaskIds
          /\ pending[c] \in 0 .. MaxPending /\ pending[c] > 0
      BY <2>2 DEF Land, Calls, ServersType
    <3>2. hosted' \in [Addrs -> SUBSET TaskIds]
      BY <2>2, <3>1, ExecutedType DEF Land
    <3>3. pending[c] - 1 \in 0 .. MaxPending
      BY <3>1, KapacitorAssumption
    <3>4. pending' \in [Calls -> 0 .. MaxPending]
      BY <2>2, <3>3 DEF Land, ServersType
    <3> QED
      BY <3>2, <3>4 DEF ServersType
  <2>3. ASSUME NEW c \in Calls, Lose(c) PROVE ServersType'
    <3>1. pending[c] \in 0 .. MaxPending /\ pending[c] > 0
      BY <2>3 DEF Lose, ServersType
    <3>2. pending[c] - 1 \in 0 .. MaxPending
      BY <3>1, KapacitorAssumption
    <3>3. pending' \in [Calls -> 0 .. MaxPending]
      BY <2>3, <3>2 DEF Lose, ServersType
    <3> QED
      BY <2>3, <3>3 DEF Lose, ServersType
  <2>4. ASSUME NEW id \in TaskIds, DeleteDuplicate(id) PROVE ServersType'
    <3>1. urls[pos] \in Addrs
      BY <2>4 DEF DeleteDuplicate, LoopType
    <3> QED
      BY <2>4, <3>1, RequestType DEF DeleteDuplicate
  <2>5. ASSUME CreateTask PROVE ServersType'
    <3>1. target[2] \in TaskIds
      BY <2>5 DEF CreateTask, LoopType, TaskIds
    <3>2. CASE target[1] \in clients
      BY <2>5, <3>1, <3>2, RequestType DEF CreateTask, KapacitorType
    <3>3. CASE target[1] \notin clients
      BY <2>5, <3>3 DEF CreateTask, ServersType, servers
    <3> QED
      BY <3>2, <3>3
  <2>6. ASSUME NEW id \in TaskIds, RemoveTask(id) PROVE ServersType'
    <3>1. CASE id \in Foreign
      BY <2>6, <3>1 DEF RemoveTask, ServersType
    <3>2. CASE id \notin Foreign
      <4>1. ASSUME NEW c \in Calls, c[1] = "delete", c[2] \in clients, c[3] = id
            PROVE  pending[c] + 1 \in 0 .. MaxPending
        <5>1. pending[c] < MaxPending
          <6>1. c = <<"delete", c[2], id>>
            BY <4>1 DEF Calls
          <6>2. \A a \in clients : pending[<<"delete", a, id>>] < MaxPending
            BY <2>6, <3>2 DEF RemoveTask
          <6> QED
            BY <4>1, <6>1, <6>2
        <5>2. pending[c] \in 0 .. MaxPending
          BY DEF ServersType
        <5> QED
          BY <5>1, <5>2, KapacitorAssumption
      <4>2. pending' = [c \in Calls |->
                  IF c[1] = "delete" /\ c[2] \in clients /\ c[3] = id
                  THEN pending[c] + 1 ELSE pending[c]]
        BY <2>6, <3>2 DEF RemoveTask
      <4>3. pending' \in [Calls -> 0 .. MaxPending]
        BY <4>1, <4>2 DEF ServersType
      <4> QED
        BY <2>6, <4>3 DEF RemoveTask, ServersType
    <3> QED
      BY <3>1, <3>2
  <2>7. ASSUME DiesAndStarts PROVE ServersType'
    BY <2>7, KapacitorAssumption DEF DiesAndStarts, ServersType
  <2> QED
    BY <2>1, <2>2, <2>3, <2>4, <2>5, <2>6, <2>7
       DEF Next, Updater, Loop, Network, World, Restart, Crash, StartSetAddr, SetAddrs,
           SetClientsAndHash, BeginPass, NoClient, ListTasks, ListFails, FetchAlarms,
           NoAlarms, RefuseTask, ChooseServer, BeginRemove, EndPass, EditAlarm, Relist,
           servers, vars
<1>3. KapacitorType'
  <2>1. CASE UNCHANGED <<kapacitor, updater>>
    BY <2>1 DEF KapacitorType, kapacitor
  <2>2. AlarmServers \in Seq(Addrs)
    BY AlarmServersType
  <2>3. updater.list \in Seq(Addrs)
    BY DEF KapacitorType
  <2>4. CASE StartSetAddr
    BY <2>2, <2>4 DEF StartSetAddr, KapacitorType, kapacitor
  <2>5. CASE SetAddrs
    <3>1. addrs' \in Seq(Addrs)
      BY <2>3, <2>5, FullAddrsType DEF SetAddrs
    <3> QED
      BY <2>5, <3>1 DEF SetAddrs, KapacitorType
  <2>6. CASE SetClientsAndHash
    <3>1. clients' \subseteq Addrs
      BY <2>3, <2>6, ConnectedType DEF SetClientsAndHash
    <3>2. DOMAIN ring' \subseteq Nat /\ ring' \in [DOMAIN ring' -> Addrs]
      BY <2>3, <2>6, CircleOfFacts DEF SetClientsAndHash
    <3> QED
      BY <2>6, <3>1, <3>2 DEF SetClientsAndHash, KapacitorType, UpdaterIdle
  <2>7. CASE DiesAndStarts
    <3>1. addrs' \in Seq(Addrs)
      BY <2>2, <2>7, FullAddrsType DEF DiesAndStarts
    <3>2. clients' \subseteq Addrs
      BY <2>2, <2>7, ConnectedType DEF DiesAndStarts
    <3>3. DOMAIN ring' \subseteq Nat /\ ring' \in [DOMAIN ring' -> Addrs]
      BY <2>2, <2>7, CircleOfFacts DEF DiesAndStarts
    <3> QED
      BY <2>7, <3>1, <3>2, <3>3 DEF DiesAndStarts, KapacitorType, UpdaterIdle
  <2> QED
    BY <2>1, <2>4, <2>5, <2>6, <2>7
       DEF Next, Updater, Loop, Network, World, Restart, Crash, BeginPass, NoClient,
           ListTasks, ListFails, DeleteDuplicate, FetchAlarms, NoAlarms, RefuseTask,
           ChooseServer, CreateTask, BeginRemove, RemoveTask, EndPass, EditAlarm,
           Relist, Land, Lose, kapacitor, vars
<1>4. LoopType'
  <2>1. CASE UNCHANGED loop
    BY <2>1 DEF LoopType, loop
  <2>2. CASE ToSleep
    BY <2>2, ToSleepType
  <2>3. CASE BeginPass
    <3>1. urls' \in Seq(Addrs \cup {NoAddr})
      BY <2>3, AddrsReadsType DEF BeginPass
    <3>2. Len(urls') \in Nat
      BY <3>1
    <3>3. pos' = 1
      BY <2>3 DEF BeginPass, LoopType
    <3> QED
      BY <2>3, <3>1, <3>2, <3>3 DEF BeginPass, LoopType
  <2>4. CASE ListTasks
    <3> DEFINE ts == hosted[urls[pos]]
    <3>1. urls[pos] \in Addrs /\ ts \subseteq TaskIds
      BY <2>4 DEF ListTasks, KapacitorType, ServersType
    <3>2. pos \in Nat /\ pos >= 1 /\ pos <= Len(urls) /\ Len(urls) \in Nat
      BY <2>4 DEF ListTasks, LoopType
    <3>3. pos' \in 1 .. Len(urls) + 1
      BY <2>4, <3>2 DEF ListTasks
    <3> QED
      BY <2>4, <3>1, <3>2, <3>3 DEF ListTasks, LoopType
  <2>5. ASSUME NEW id \in TaskIds, DeleteDuplicate(id) PROVE LoopType'
    <3>1. pos \in Nat /\ pos >= 1 /\ pos <= Len(urls) /\ Len(urls) \in Nat
      BY <2>5 DEF DeleteDuplicate, LoopType
    <3>2. pos' \in 1 .. Len(urls) + 1
      BY <2>5, <3>1 DEF DeleteDuplicate
    <3> QED
      BY <2>5, <3>1, <3>2 DEF DeleteDuplicate, LoopType
  <2>6. CASE FetchAlarms
    BY <2>6 DEF FetchAlarms, LoopType, WorldType, TaskIds
  <2>7. ASSUME NEW id \in TaskIds, RefuseTask(id) PROVE LoopType'
    BY <2>7 DEF RefuseTask, LoopType
  <2>8. ASSUME NEW id \in TaskIds, ChooseServer(id) PROVE LoopType'
    <3>1. id \in Versions
      BY <2>8 DEF ChooseServer, LoopType
    <3>2. HashKapacitor(id) \in Addrs \cup {NoAddr}
      BY <3>1, HashKapacitorType
    <3> QED
      BY <2>8, <3>1, <3>2 DEF ChooseServer, LoopType
  <2>9. CASE CreateTask
    BY <2>9 DEF CreateTask, LoopType
  <2>10. CASE BeginRemove
    BY <2>10 DEF BeginRemove, LoopType
  <2>11. ASSUME NEW id \in TaskIds, RemoveTask(id) PROVE LoopType'
    BY <2>11 DEF RemoveTask, LoopType
  <2> QED
    BY <2>1, <2>2, <2>3, <2>4, <2>5, <2>6, <2>7, <2>8, <2>9, <2>10, <2>11
       DEF Next, Updater, Loop, Network, World, StartSetAddr, SetAddrs,
           SetClientsAndHash, NoClient, ListFails, NoAlarms, EndPass, EditAlarm, Relist,
           Restart, Crash, DiesAndStarts, Land, Lose, loop, vars
<1> QED
  BY <1>1, <1>2, <1>3, <1>4

(***************************************************************************)
(* The alarm module (adapter.go and kapacitor.go) never leaves its types,  *)
(* whatever the registry, the servers and the network do.                  *)
(***************************************************************************)
THEOREM TypeCorrect == Spec => []TypeOK
  BY TypeInit, TypeNext, PTL DEF Spec
-----------------------------------------------------------------------------
(***************************************************************************)
(* No task that is wanted loses its last copy, for any servers, alarms,    *)
(* faults, restarts and changes of the machine list, provided that all the *)
(* lists name the machines in one order and none of them twice             *)
(* (OrderedListsKeepLastCopies).  Without that order a delete that is late *)
(* can meet a list in which the servers are swapped.                       *)
(***************************************************************************)
\* The URLs of a slice come in the order of rank, each one once.
Ordered(rank, slice) ==
    \A i, j \in DOMAIN slice :
        i < j /\ slice[i] \in Addrs /\ slice[j] \in Addrs => rank[slice[i]] < rank[slice[j]]

\* All machine lists of the registry do.
OrderedBy(rank) ==
    \A ms \in Lists : Ordered(rank, [i \in DOMAIN ms |-> AddrOf[ms[i]]])

OrderedLists == \E rank \in [Addrs -> Nat] : OrderedBy(rank)

\* Memory past a slice is never the URL of a server.
NoServerInGarbage == Garbage \cap Addrs = {}

\* A server before b in the order hosts the task.
HostedBefore(rank, id, b) == \E a \in Addrs : id \in hosted[a] /\ rank[a] < rank[b]

\* Every slice of URLs the adapter holds is in order.
SlicesOrdered(rank) ==
    Ordered(rank, addrs) /\ Ordered(rank, updater.list) /\ Ordered(rank, urls)

\* Only tasks that were not wanted at some time are to be removed.
RemovesWithdrawn ==
    /\ Versions \ withdrawn \subseteq wanted
    /\ pc \in {"create", "call", "remove"} => Versions \ withdrawn \subseteq alarms
    /\ pc = "remove" => todo \cap alarms = {}

\* A delete in flight, or to be sent, leaves a copy on an earlier server; and so
\* will one of a task that was seen, at any server still to be listed.
DeletesLeaveOne(rank) ==
    \A b \in Addrs, id \in TaskIds \ withdrawn :
        pending[<<"delete", b, id>>] > 0 => HostedBefore(rank, id, b)

DuplicatesLeaveOne(rank) ==
    pc = "dedup" => \A id \in todo \ withdrawn : HostedBefore(rank, id, urls[pos])

SeenIsHosted(rank) ==
    /\ pc = "sleep" => seen = {}
    /\ pc \in {"list", "dedup"} =>
        \A id \in seen \ withdrawn, p \in DOMAIN urls :
            p >= pos /\ (pc = "dedup" => p > pos) /\ urls[p] \in Addrs =>
                HostedBefore(rank, id, urls[p])

KeptInv(rank) ==
    /\ SlicesOrdered(rank)
    /\ RemovesWithdrawn
    /\ DeletesLeaveOne(rank)
    /\ DuplicatesLeaveOne(rank)
    /\ SeenIsHosted(rank)
-----------------------------------------------------------------------------
\* The order of the machines carries over to fullAddrs and to torn reads.
LEMMA AlarmServersOrdered ==
    ASSUME NEW rank \in [Addrs -> Nat], OrderedBy(rank), WorldType
    PROVE  Ordered(rank, AlarmServers)
  BY DEF OrderedBy, AlarmServers, WorldType

LEMMA FullAddrsOrdered ==
    ASSUME NEW rank \in [Addrs -> Nat], NEW list \in Seq(Addrs), Ordered(rank, list),
           NEW s \in FullAddrs(list)
    PROVE  Ordered(rank, s)
<1> DEFINE good == {i \in DOMAIN list : list[i] \notin BadAddrs}
<1>1. PICK f \in [DOMAIN s -> good] :
          /\ s = [i \in DOMAIN f |-> list[f[i]]]
          /\ DOMAIN s = 1 .. Cardinality(good)
          /\ \A i, j \in DOMAIN f : i < j => f[i] < f[j]
  BY FullAddrsPlaces
<1>2. ASSUME NEW i \in DOMAIN s, NEW j \in DOMAIN s, i < j PROVE rank[s[i]] < rank[s[j]]
  <2>1. f[i] \in DOMAIN list /\ f[j] \in DOMAIN list /\ f[i] < f[j]
    BY <1>1, <1>2
  <2>2. s[i] = list[f[i]] /\ s[j] = list[f[j]]
    BY <1>1
  <2>3. list[f[i]] \in Addrs /\ list[f[j]] \in Addrs
    BY <2>1
  <2> QED
    BY <2>1, <2>2, <2>3 DEF Ordered
<1> QED
  BY <1>2 DEF Ordered

LEMMA PrefixesOrdered ==
    ASSUME NoServerInGarbage, NEW rank \in [Addrs -> Nat], NEW slice \in Seq(Addrs),
           Ordered(rank, slice), NEW n \in Nat, NEW p \in Prefixes(slice, n)
    PROVE  Ordered(rank, p)
<1>1. PICK past \in [1 .. n -> Garbage] :
          p = [i \in 1 .. n |-> IF i <= Len(slice) THEN slice[i] ELSE past[i]]
  BY DEF Prefixes
<1>2. \A i \in DOMAIN p : p[i] \in Addrs => i \in DOMAIN slice /\ p[i] = slice[i]
  BY <1>1 DEF NoServerInGarbage
<1> QED
  BY <1>1, <1>2 DEF Ordered

LEMMA AddrsReadsOrdered ==
    ASSUME NoServerInGarbage, NEW rank \in [Addrs -> Nat], KapacitorType,
           SlicesOrdered(rank), NEW read \in AddrsReads
    PROVE  Ordered(rank, read)
<1>1. addrs \in Seq(Addrs) /\ updater.list \in Seq(Addrs)
  BY DEF KapacitorType
<1>2. Ordered(rank, addrs) /\ Ordered(rank, updater.list)
  BY DEF SlicesOrdered
<1>3. CASE read # addrs
  <2>1. PICK new \in FullAddrs(updater.list) :
            read \in {new} \cup Prefixes(addrs, Len(new)) \cup Prefixes(new, Len(addrs))
    BY <1>3 DEF AddrsReads
  <2>2. new \in Seq(Addrs) /\ Ordered(rank, new)
    BY <1>1, <1>2, FullAddrsType, FullAddrsOrdered
  <2>3. Len(new) \in Nat /\ Len(addrs) \in Nat
    BY <1>1, <2>2
  <2>4. \A p \in Prefixes(addrs, Len(new)) : Ordered(rank, p)
    BY <1>1, <1>2, <2>3, PrefixesOrdered
  <2>5. \A p \in Prefixes(new, Len(addrs)) : Ordered(rank, p)
    BY <2>2, <2>3, PrefixesOrdered
  <2> QED
    BY <2>1, <2>2, <2>4, <2>5
<1> QED
  BY <1>2, <1>3

LEMMA SlicesOrderedNext ==
    ASSUME NEW rank \in [Addrs -> Nat], OrderedBy(rank), TypeOK, SlicesOrdered(rank),
           \A read \in AddrsReads : Ordered(rank, read), [Next]_vars
    PROVE  SlicesOrdered(rank)'
<1> USE DEF TypeOK
<1>1. Ordered(rank, AlarmServers) /\ AlarmServers \in Seq(Addrs)
  BY AlarmServersOrdered, AlarmServersType
<1>2. Ordered(rank, addrs) /\ Ordered(rank, updater.list) /\ Ordered(rank, urls)
  BY DEF SlicesOrdered
<1>3. updater.list \in Seq(Addrs)
  BY DEF KapacitorType
<1>4. Ordered(rank, <<>>)
  BY DEF Ordered
<1>5. Ordered(rank, addrs')
  <2>1. CASE UNCHANGED addrs
    BY <1>2, <2>1
  <2>2. CASE SetAddrs
    BY <1>2, <1>3, <2>2, FullAddrsOrdered DEF SetAddrs
  <2>3. CASE DiesAndStarts
    BY <1>1, <2>3, FullAddrsOrdered DEF DiesAndStarts
  <2> QED
    BY <2>1, <2>2, <2>3
       DEF Next, Updater, Loop, Network, World, Restart, Crash, StartSetAddr,
           SetClientsAndHash, BeginPass, NoClient, ListTasks, ListFails,
           DeleteDuplicate, FetchAlarms, NoAlarms, RefuseTask, ChooseServer, CreateTask,
           BeginRemove, RemoveTask, EndPass, EditAlarm, Relist, Land, Lose, kapacitor,
           vars
<1>6. Ordered(rank, updater'.list)
  <2>1. CASE UNCHANGED updater
    BY <1>2, <2>1
  <2>2. CASE StartSetAddr
    BY <1>1, <2>2 DEF StartSetAddr
  <2>3. CASE SetAddrs
    BY <1>2, <2>3 DEF SetAddrs, KapacitorType
  <2>4. CASE updater' = UpdaterIdle
    BY <1>4, <2>4 DEF UpdaterIdle
  <2> QED
    BY <2>1, <2>2, <2>3, <2>4
       DEF Next, Updater, Loop, Network, World, SetClientsAndHash, BeginPass, NoClient,
           ListTasks, ListFails, DeleteDuplicate, FetchAlarms, NoAlarms, RefuseTask,
           ChooseServer, CreateTask, BeginRemove, RemoveTask, EndPass, EditAlarm, Relist,
           Restart, Crash, DiesAndStarts, Land, Lose, vars
<1>7. Ordered(rank, urls')
  <2>1. CASE UNCHANGED urls
    BY <1>2, <2>1
  <2>2. CASE urls' = <<>>
    BY <1>4, <2>2
  <2>3. CASE BeginPass
    BY <2>3 DEF BeginPass
  <2> QED
    BY <2>1, <2>2, <2>3
       DEF Next, Updater, Loop, Network, World, StartSetAddr, SetAddrs, SetClientsAndHash,
           NoClient, ListTasks, ListFails, DeleteDuplicate, FetchAlarms, NoAlarms,
           RefuseTask, ChooseServer, CreateTask, BeginRemove, RemoveTask, EndPass, ToSleep,
           EditAlarm, Relist, Restart, Crash, DiesAndStarts, Land, Lose, loop, vars
<1> QED
  BY <1>5, <1>6, <1>7 DEF SlicesOrdered
-----------------------------------------------------------------------------
\* What an executed request does to the copies: nothing bad, if a delete leaves
\* a copy on an earlier server.
LEMMA ExecutedKeeps ==
    ASSUME NEW rank \in [Addrs -> Nat], ServersType,
           NEW op \in {"create", "delete"}, NEW a \in Addrs, NEW id \in TaskIds,
           op = "delete" /\ id \notin withdrawn => HostedBefore(rank, id, a),
           hosted' = Executed(op, a, id)
    PROVE  \A i \in TaskIds \ withdrawn :
              /\ \A b \in Addrs : HostedBefore(rank, i, b) => HostedBefore(rank, i, b)'
              /\ Copies(i) # {} => Copies(i)' # {}
<1> SUFFICES ASSUME NEW i \in TaskIds \ withdrawn
             PROVE  /\ \A b \in Addrs : HostedBefore(rank, i, b) => HostedBefore(rank, i, b)'
                    /\ Copies(i) # {} => Copies(i)' # {}
  OBVIOUS
<1>1. CASE \A c \in Addrs : i \in hosted[c] => i \in hosted'[c]
  BY <1>1 DEF HostedBefore, Copies
<1>2. CASE op = "delete" /\ i = id
  <2>1. PICK e \in Addrs : id \in hosted[e] /\ rank[e] < rank[a]
    BY <1>2 DEF HostedBefore
  <2>2. \A c \in Addrs \ {a} : hosted'[c] = hosted[c]
    BY DEF Executed, ServersType
  <2>3. rank[e] \in Nat /\ rank[a] \in Nat /\ e # a
    BY <2>1
  <2>4. id \in hosted'[e]
    BY <2>1, <2>2, <2>3
  <2>5. ASSUME NEW b \in Addrs, HostedBefore(rank, i, b) PROVE HostedBefore(rank, i, b)'
    <3>1. PICK c \in Addrs : i \in hosted[c] /\ rank[c] < rank[b]
      BY <2>5 DEF HostedBefore
    <3>2. CASE c = a
      <4>1. rank[e] < rank[b]
        BY <2>1, <2>3, <3>1, <3>2
      <4> QED
        BY <1>2, <2>4, <4>1 DEF HostedBefore
    <3>3. CASE c # a
      BY <2>2, <3>1, <3>3 DEF HostedBefore
    <3> QED
      BY <3>2, <3>3
  <2> QED
    BY <1>2, <2>4, <2>5 DEF Copies
<1>3. op = "create" \/ i # id => \A c \in Addrs : i \in hosted[c] => i \in hosted'[c]
  BY DEF Executed, ServersType
<1> QED
  BY <1>1, <1>2, <1>3

\* No step takes away the last copy, or the copies on the servers before one, of
\* a task that is wanted.
LEMMA CopiesStay ==
    ASSUME NEW rank \in [Addrs -> Nat], TypeOK, KeptInv(rank), [Next]_vars
    PROVE  \A i \in TaskIds \ withdrawn :
              /\ \A b \in Addrs : HostedBefore(rank, i, b) => HostedBefore(rank, i, b)'
              /\ Copies(i) # {} => Copies(i)' # {}
<1> USE DEF TypeOK
<1>1. CASE UNCHANGED hosted
  BY <1>1 DEF HostedBefore, Copies
<1>2. ASSUME NEW c \in Calls, Land(c)
      PROVE  \A i \in TaskIds \ withdrawn :
                /\ \A b \in Addrs : HostedBefore(rank, i, b) => HostedBefore(rank, i, b)'
                /\ Copies(i) # {} => Copies(i)' # {}
  <2>1. /\ c[1] \in {"create", "delete"} /\ c[2] \in Addrs /\ c[3] \in TaskIds
        /\ c = <<c[1], c[2], c[3]>>
    BY DEF Calls
  <2>2. c[1] = "delete" /\ c[3] \notin withdrawn => HostedBefore(rank, c[3], c[2])
    <3> SUFFICES ASSUME c[1] = "delete", c[3] \notin withdrawn
                 PROVE  HostedBefore(rank, c[3], c[2])
      OBVIOUS
    <3>1. pending[<<"delete", c[2], c[3]>>] > 0
      BY <1>2, <2>1 DEF Land
    <3> QED
      BY <2>1, <3>1 DEF KeptInv, DeletesLeaveOne
  <2> QED
    BY <1>2, <2>1, <2>2, ExecutedKeeps DEF Land
<1>3. ASSUME NEW id \in TaskIds, DeleteDuplicate(id)
      PROVE  \A i \in TaskIds \ withdrawn :
                /\ \A b \in Addrs : HostedBefore(rank, i, b) => HostedBefore(rank, i, b)'
                /\ Copies(i) # {} => Copies(i)' # {}
  <2>1. urls[pos] \in Addrs
    BY <1>3 DEF DeleteDuplicate, LoopType
  <2>2. id \notin withdrawn => HostedBefore(rank, id, urls[pos])
    BY <1>3 DEF DeleteDuplicate, KeptInv, DuplicatesLeaveOne
  <2>3. CASE UNCHANGED hosted
    BY <1>1, <2>3
  <2>4. CASE hosted' = Executed("delete", urls[pos], id)
    BY <2>1, <2>2, <2>4, ExecutedKeeps
  <2> QED
    BY <1>3, <2>3, <2>4 DEF DeleteDuplicate, Request, servers
<1>4. ASSUME CreateTask
      PROVE  \A i \in TaskIds \ withdrawn :
                /\ \A b \in Addrs : HostedBefore(rank, i, b) => HostedBefore(rank, i, b)'
                /\ Copies(i) # {} => Copies(i)' # {}
  <2>1. target[2] \in TaskIds
    BY <1>4 DEF CreateTask, LoopType, TaskIds
  <2>2. CASE UNCHANGED hosted
    BY <1>1, <2>2
  <2>3. CASE target[1] \in clients /\ hosted' = Executed("create", target[1], target[2])
    BY <2>1, <2>3, ExecutedKeeps DEF KapacitorType
  <2> QED
    BY <1>4, <2>2, <2>3 DEF CreateTask, Request, servers
<1> QED
  BY <1>1, <1>2, <1>3, <1>4
     DEF Next, Updater, Loop, Network, World, StartSetAddr, SetAddrs, SetClientsAndHash,
         BeginPass, NoClient, ListTasks, ListFails, FetchAlarms, NoAlarms, RefuseTask,
         ChooseServer, BeginRemove, RemoveTask, EndPass, EditAlarm, Relist, Restart,
         Crash, DiesAndStarts, Lose, servers, vars

\* The withdrawn versions only grow in number.
LEMMA WithdrawnGrows ==
    ASSUME [Next]_vars
    PROVE  withdrawn \subseteq withdrawn'
  BY DEF Next, Updater, Loop, Network, World, StartSetAddr, SetAddrs, SetClientsAndHash,
         BeginPass, NoClient, ListTasks, ListFails, DeleteDuplicate, FetchAlarms, NoAlarms,
         RefuseTask, ChooseServer, CreateTask, BeginRemove, RemoveTask, EndPass, EditAlarm,
         Relist, Restart, Crash, DiesAndStarts, Land, Lose, registry, vars

LEMMA RemovesWithdrawnNext ==
    ASSUME TypeOK, RemovesWithdrawn, [Next]_vars
    PROVE  RemovesWithdrawn'
<1> USE DEF TypeOK
<1>1. (Versions \ withdrawn \subseteq wanted)'
  <2>1. CASE UNCHANGED registry
    BY <2>1 DEF RemovesWithdrawn, registry
  <2>2. CASE Relist
    BY <2>2 DEF Relist, RemovesWithdrawn
  <2>3. ASSUME NEW id \in Versions, EditAlarm(id) PROVE (Versions \ withdrawn \subseteq wanted)'
    BY <2>3 DEF EditAlarm
  <2> QED
    BY <2>1, <2>2, <2>3
       DEF Next, Updater, Loop, Network, World, StartSetAddr, SetAddrs,
           SetClientsAndHash, BeginPass, NoClient, ListTasks, ListFails,
           DeleteDuplicate, FetchAlarms, NoAlarms, RefuseTask, ChooseServer, CreateTask,
           BeginRemove, RemoveTask, EndPass, Restart, Crash, DiesAndStarts, Land, Lose,
           vars
<1>2. withdrawn \subseteq withdrawn'
  BY WithdrawnGrows
<1>3. (pc \in {"create", "call", "remove"} => Versions \ withdrawn \subseteq alarms)'
  <2>1. CASE UNCHANGED <<pc, alarms>>
    BY <1>2, <2>1 DEF RemovesWithdrawn
  <2>2. CASE FetchAlarms
    BY <1>2, <2>2 DEF FetchAlarms, RemovesWithdrawn
  <2>3. CASE pc \in {"create", "call", "remove"} /\ UNCHANGED alarms
    BY <1>2, <2>3 DEF RemovesWithdrawn
  <2>4. CASE pc' \in {"sleep", "list", "dedup"}
    BY <2>4
  <2> QED
    BY <2>1, <2>2, <2>3, <2>4
       DEF Next, Updater, Loop, Network, World, StartSetAddr, SetAddrs,
           SetClientsAndHash, BeginPass, NoClient, ListTasks, ListFails,
           DeleteDuplicate, NoAlarms, ToSleep, RefuseTask, ChooseServer, CreateTask,
           BeginRemove, RemoveTask, EndPass, Restart, Crash, DiesAndStarts, EditAlarm,
           Relist, Land, Lose, loop, vars
<1>4. (pc = "remove" => todo \cap alarms = {})'
  <2>1. CASE UNCHANGED <<pc, todo, alarms>>
    BY <2>1 DEF RemovesWithdrawn
  <2>2. CASE pc' # "remove"
    BY <2>2
  <2>3. CASE BeginRemove
    BY <2>3 DEF BeginRemove
  <2>4. ASSUME NEW id \in TaskIds, RemoveTask(id) PROVE (pc = "remove" => todo \cap alarms = {})'
    BY <2>4 DEF RemoveTask, RemovesWithdrawn
  <2> QED
    BY <2>1, <2>2, <2>3, <2>4
       DEF Next, Updater, Loop, Network, World, StartSetAddr, SetAddrs,
           SetClientsAndHash, BeginPass, NoClient, ListTasks, ListFails,
           DeleteDuplicate, FetchAlarms, NoAlarms, ToSleep, RefuseTask, ChooseServer,
           CreateTask, EndPass, Restart, Crash, DiesAndStarts, EditAlarm, Relist, Land,
           Lose, loop, vars
<1> QED
  BY <1>1, <1>3, <1>4 DEF RemovesWithdrawn

LEMMA DeletesLeaveOneNext ==
    ASSUME NEW rank \in [Addrs -> Nat], TypeOK, KeptInv(rank), [Next]_vars
    PROVE  DeletesLeaveOne(rank)'
<1> USE DEF TypeOK
<1> SUFFICES ASSUME NEW b \in Addrs, NEW id \in TaskIds, id \notin withdrawn',
                    pending'[<<"delete", b, id>>] > 0
             PROVE  HostedBefore(rank, id, b)'
  BY DEF DeletesLeaveOne
<1> DEFINE c == <<"delete", b, id>>
<1>1. c \in Calls /\ id \notin withdrawn
  BY WithdrawnGrows DEF Calls
<1>2. pending[c] \in Nat
  BY <1>1, KapacitorAssumption DEF ServersType
<1>3. CASE pending[c] > 0
  BY <1>1, <1>3, CopiesStay DEF KeptInv, DeletesLeaveOne
<1>4. CASE pending[c] = 0
  <2>1. ASSUME NEW d \in Calls, Land(d) PROVE FALSE
    BY <1>1, <1>4, <2>1 DEF Land, ServersType
  <2>2. ASSUME NEW d \in Calls, Lose(d) PROVE FALSE
    BY <1>1, <1>4, <2>2 DEF Lose, ServersType
  <2>3. ASSUME NEW i \in TaskIds, DeleteDuplicate(i) PROVE HostedBefore(rank, id, b)
    <3>1. urls[pos] \in Addrs
      BY <2>3 DEF DeleteDuplicate, LoopType
    <3>2. Send("delete", urls[pos], i)
      BY <1>4, <2>3 DEF DeleteDuplicate, Request, servers
    <3>3. c = <<"delete", urls[pos], i>>
      BY <1>1, <1>4, <3>2 DEF Send, ServersType
    <3>4. b = urls[pos] /\ id = i
      BY <3>3
    <3> QED
      BY <1>1, <2>3, <3>4 DEF DeleteDuplicate, KeptInv, DuplicatesLeaveOne
  <2>4. ASSUME CreateTask PROVE FALSE
    <3>1. Send("create", target[1], target[2])
      BY <1>4, <2>4 DEF CreateTask, Request, servers
    <3>2. c # <<"create", target[1], target[2]>>
      OBVIOUS
    <3> QED
      BY <1>1, <1>4, <3>1, <3>2 DEF Send, ServersType
  <2>5. ASSUME NEW i \in TaskIds, RemoveTask(i) PROVE FALSE
    <3>1. i \notin Foreign
      BY <1>4, <2>5 DEF RemoveTask
    <3>2. i = id
      BY <1>1, <1>4, <2>5, <3>1 DEF RemoveTask
    <3>3. id \in Versions /\ id \notin alarms /\ pc = "remove"
      BY <2>5, <3>1, <3>2 DEF RemoveTask, KeptInv, RemovesWithdrawn, TaskIds
    <3> QED
      BY <1>1, <3>3 DEF KeptInv, RemovesWithdrawn
  <2>6. ~DiesAndStarts
    BY <1>1, <1>4 DEF DiesAndStarts
  <2>7. pending' # pending
    BY <1>4
  <2>8. HostedBefore(rank, id, b)
    BY <2>1, <2>2, <2>3, <2>4, <2>5, <2>6, <2>7
       DEF Next, Updater, Loop, Network, World, Restart, Crash, StartSetAddr, SetAddrs,
           SetClientsAndHash, BeginPass, NoClient, ListTasks, ListFails, FetchAlarms,
           NoAlarms, RefuseTask, ChooseServer, BeginRemove, EndPass, EditAlarm, Relist,
           servers, vars
  <2> QED
    BY <1>1, <2>8, CopiesStay
<1> QED
  BY <1>2, <1>3, <1>4

LEMMA DuplicatesLeaveOneNext ==
    ASSUME NEW rank \in [Addrs -> Nat], TypeOK, KeptInv(rank), [Next]_vars
    PROVE  DuplicatesLeaveOne(rank)'
<1> USE DEF TypeOK
<1> SUFFICES ASSUME pc' = "dedup", NEW id \in TaskIds, id \in todo', id \notin withdrawn'
             PROVE  HostedBefore(rank, id, urls[pos])'
  <2>1. LoopType'
    BY TypeNext
  <2> QED
    BY <2>1 DEF DuplicatesLeaveOne, LoopType
<1>1. id \notin withdrawn
  BY WithdrawnGrows
<1>2. urls' = urls /\ pos' = pos /\ urls[pos] \in Addrs /\ HostedBefore(rank, id, urls[pos])
  <2>1. CASE pc = "dedup" /\ UNCHANGED <<urls, pos>> /\ todo' \subseteq todo
    BY <1>1, <2>1 DEF KeptInv, DuplicatesLeaveOne, LoopType
  <2>2. CASE ListTasks
    <3>1. pc = "list" /\ pos \in DOMAIN urls /\ urls[pos] \in Addrs /\ pos \in Nat
      BY <2>2 DEF ListTasks, LoopType, KapacitorType
    <3>2. urls' = urls /\ pos' = pos /\ id \in seen
      BY <2>2 DEF ListTasks
    <3> QED
      BY <1>1, <3>1, <3>2 DEF KeptInv, SeenIsHosted
  <2>3. ASSUME NEW i \in TaskIds, DeleteDuplicate(i)
        PROVE  pc = "dedup" /\ UNCHANGED <<urls, pos>> /\ todo' \subseteq todo
    BY <2>3 DEF DeleteDuplicate
  <2> QED
    BY <2>1, <2>2, <2>3
       DEF Next, Updater, Loop, Network, World, StartSetAddr, SetAddrs,
           SetClientsAndHash, BeginPass, NoClient, ListFails, FetchAlarms, NoAlarms,
           RefuseTask, ChooseServer, CreateTask, BeginRemove, RemoveTask, EndPass,
           ToSleep, EditAlarm, Relist, Restart, Crash, DiesAndStarts, Land, Lose, loop,
           vars
<1>3. \E a \in Addrs : id \in hosted'[a] /\ rank[a] < rank[urls[pos]]
  BY <1>1, <1>2, CopiesStay DEF HostedBefore
<1> QED
  BY <1>2, <1>3 DEF HostedBefore

LEMMA SeenIsHostedNext ==
    ASSUME NEW rank \in [Addrs -> Nat], TypeOK, KeptInv(rank), [Next]_vars
    PROVE  SeenIsHosted(rank)'
<1> USE DEF TypeOK
<1>1. (pc = "sleep" => seen = {})'
  BY DEF KeptInv, SeenIsHosted,
         Next, Updater, Loop, Network, World, StartSetAddr, SetAddrs, SetClientsAndHash,
         BeginPass, NoClient, ListTasks, ListFails, DeleteDuplicate, FetchAlarms, NoAlarms,
         RefuseTask, ChooseServer, CreateTask, BeginRemove, RemoveTask, EndPass, ToSleep,
         EditAlarm, Relist, Restart, Crash, DiesAndStarts, Land, Lose, loop, vars
<1>2. ASSUME pc' \in {"list", "dedup"}, NEW id, id \in seen', id \notin withdrawn',
             NEW p \in DOMAIN urls', p >= pos', pc' = "dedup" => p > pos', urls'[p] \in Addrs
      PROVE  \E a \in Addrs : id \in hosted'[a] /\ rank[a] < rank[urls'[p]]
  <2>1. id \in TaskIds /\ id \notin withdrawn
    BY <1>2, TypeNext, WithdrawnGrows DEF LoopType
  <2>2. p \in Nat /\ pos \in Nat
    BY <1>2, TypeNext DEF LoopType
  <2>3. CASE BeginPass
    BY <1>2, <2>3 DEF BeginPass, KeptInv, SeenIsHosted
  <2>4. CASE ListTasks
    <3>1. urls' = urls /\ p > pos /\ pos \in DOMAIN urls /\ urls[pos] \in Addrs /\ pc = "list"
      BY <1>2, <2>2, <2>4 DEF ListTasks, LoopType, KapacitorType
    <3>2. CASE id \in seen
      <4>1. HostedBefore(rank, id, urls[p])
        BY <1>2, <2>1, <2>2, <3>1, <3>2 DEF KeptInv, SeenIsHosted
      <4> QED
        BY <2>4, <3>1, <4>1 DEF HostedBefore, ListTasks, servers
    <3>3. CASE id \in hosted[urls[pos]]
      <4>1. rank[urls[pos]] < rank[urls[p]]
        BY <1>2, <3>1 DEF KeptInv, SlicesOrdered, Ordered
      <4> QED
        BY <2>4, <3>1, <3>3, <4>1 DEF HostedBefore, ListTasks, servers
    <3> QED
      BY <1>2, <2>4, <3>2, <3>3 DEF ListTasks
  <2>5. ASSUME NEW i \in TaskIds, DeleteDuplicate(i)
        PROVE  \E a \in Addrs : id \in hosted'[a] /\ rank[a] < rank[urls'[p]]
    <3>1. urls' = urls /\ p > pos /\ pc = "dedup" /\ seen' = seen
      BY <1>2, <2>2, <2>5 DEF DeleteDuplicate
    <3>2. HostedBefore(rank, id, urls[p])
      BY <1>2, <2>1, <2>2, <3>1 DEF KeptInv, SeenIsHosted
    <3>3. \E a \in Addrs : id \in hosted'[a] /\ rank[a] < rank[urls[p]]
      BY <1>2, <2>1, <3>1, <3>2, CopiesStay DEF HostedBefore
    <3> QED
      BY <3>1, <3>3
  <2>6. CASE UNCHANGED loop
    <3>1. urls' = urls /\ pos' = pos /\ pc' = pc /\ seen' = seen
      BY <2>6 DEF loop
    <3>2. HostedBefore(rank, id, urls[p])
      BY <1>2, <2>1, <2>2, <3>1 DEF KeptInv, SeenIsHosted
    <3>3. \E a \in Addrs : id \in hosted'[a] /\ rank[a] < rank[urls[p]]
      BY <1>2, <2>1, <3>1, <3>2, CopiesStay DEF HostedBefore
    <3> QED
      BY <3>1, <3>3
  <2> QED
    BY <1>2, <2>3, <2>4, <2>5, <2>6
       DEF Next, Updater, Loop, Network, World, StartSetAddr, SetAddrs,
           SetClientsAndHash, NoClient, ListFails, FetchAlarms, NoAlarms, RefuseTask,
           ChooseServer, CreateTask, BeginRemove, RemoveTask, EndPass, ToSleep,
           EditAlarm, Relist, Restart, Crash, DiesAndStarts, Land, Lose, vars
<1> QED
  BY <1>1, <1>2 DEF SeenIsHosted, HostedBefore

LEMMA KeptInvInit ==
    ASSUME NEW rank \in [Addrs -> Nat], OrderedBy(rank), Init
    PROVE  KeptInv(rank)
<1>1. WorldType
  BY TypeInit DEF TypeOK
<1>2. SlicesOrdered(rank)
  <2>1. Ordered(rank, AlarmServers) /\ AlarmServers \in Seq(Addrs)
    BY <1>1, AlarmServersOrdered, AlarmServersType
  <2>2. Ordered(rank, addrs)
    BY <2>1, FullAddrsOrdered DEF Init
  <2>3. Ordered(rank, <<>>)
    BY DEF Ordered
  <2> QED
    BY <2>2, <2>3 DEF Init, UpdaterIdle, SlicesOrdered
<1>3. RemovesWithdrawn
  BY DEF Init, RemovesWithdrawn
<1>4. DeletesLeaveOne(rank)
  BY DEF Init, DeletesLeaveOne, Calls
<1>5. DuplicatesLeaveOne(rank) /\ SeenIsHosted(rank)
  BY DEF Init, DuplicatesLeaveOne, SeenIsHosted
<1> QED
  BY <1>2, <1>3, <1>4, <1>5 DEF KeptInv

LEMMA KeptInvNext ==
    ASSUME NEW rank \in [Addrs -> Nat], OrderedBy(rank), TypeOK, KeptInv(rank),
           \A read \in AddrsReads : Ordered(rank, read), [Next]_vars
    PROVE  KeptInv(rank)'
<1>1. SlicesOrdered(rank)'
  BY SlicesOrderedNext DEF KeptInv
<1>2. RemovesWithdrawn'
  BY RemovesWithdrawnNext DEF KeptInv
<1>3. DeletesLeaveOne(rank)'
  BY DeletesLeaveOneNext
<1>4. DuplicatesLeaveOne(rank)'
  BY DuplicatesLeaveOneNext
<1>5. SeenIsHosted(rank)'
  BY SeenIsHostedNext
<1> QED
  BY <1>1, <1>2, <1>3, <1>4, <1>5 DEF KeptInv

(***************************************************************************)
(* The clean-up of Tasks (kapacitor.go:85) and the removals of Work        *)
(* (line 109) never take the last copy of a task that is wanted or foreign,*)
(* however late their calls are executed and however the machine list      *)
(* changes under the pass, as long as the lists keep one order, and the    *)
(* memory past a slice that Tasks reads torn is no server's URL.           *)
(***************************************************************************)
THEOREM OrderedListsKeepLastCopies ==
    NoServerInGarbage /\ OrderedLists => (Spec => LastCopyKept)
<1> SUFFICES ASSUME NoServerInGarbage, NEW rank \in [Addrs -> Nat], OrderedBy(rank)
             PROVE  Spec => LastCopyKept
  BY DEF OrderedLists
<1>1. Init => TypeOK /\ KeptInv(rank)
  BY TypeInit, KeptInvInit
<1>2. TypeOK /\ KeptInv(rank) /\ [Next]_vars => (TypeOK /\ KeptInv(rank))'
  BY TypeNext, KeptInvNext, AddrsReadsOrdered DEF TypeOK, KeptInv
<1>3. ASSUME TypeOK, KeptInv(rank), [Next]_vars
      PROVE  [\A id \in TaskIds \ withdrawn' : Copies(id) # {} => Copies(id)' # {}]_vars
  BY <1>3, CopiesStay, WithdrawnGrows
<1> QED
  BY <1>1, <1>2, <1>3, PTL DEF Spec, LastCopyKept
-----------------------------------------------------------------------------
(***************************************************************************)
(* While the registry keeps its list of servers, Kapacitor implements      *)
(* AlarmSync (FixedServersImplementSync): besides the last copies, no task *)
(* ever gets a second copy.  For any alarms, faults and restarts, and      *)
(* wherever the tasks are at the start.                                    *)
(***************************************************************************)
\* The machine list does not change, and names every server.
FixedServers ==
    /\ Budget["relist"] = 0
    /\ \A ms \in Lists : \A a \in Addrs : \E i \in DOMAIN ms : AddrOf[ms[i]] = a

\* The server that the ring gives.
Own(id) == Owner(ring, id)

\* Everything that was made from the list of servers is that list's.
ServersFixed ==
    /\ budget["relist"] = 0
    /\ updater.pc # "idle" => updater.list = AlarmServers
    /\ addrs \in FullAddrs(AlarmServers)
    /\ clients = Connected(AlarmServers)
    /\ ring = CircleOf(AlarmServers)
    /\ pc \in {"list", "dedup"} => urls \in FullAddrs(AlarmServers)

\* A URL without a client hosts nothing.
BadHostNothing == \A a \in BadAddrs : hosted[a] = {}

\* A create in flight, or to be sent, is for the server that may have a copy,
\* and no other server has one.
CreatesAreFirst ==
    /\ \A a \in Addrs, id \in TaskIds :
          pending[<<"create", a, id>>] > 0 =>
              id \in Versions /\ a = Own(id) /\ a \notin BadAddrs /\ Copies(id) \subseteq {a}
    /\ pc \in {"create", "call"} => \A id \in todo : Copies(id) \subseteq {Own(id)}
    /\ pc = "call" => /\ Copies(target[2]) \subseteq {Own(target[2])}
                      /\ target[1] \in clients => target[1] = Own(target[2])

\* What a server that was listed hosts, and was not seen there, is on its own
\* server.
UnseenIsOwn ==
    pc \in {"list", "dedup"} =>
        \A p \in DOMAIN urls, id \in Versions \ seen :
            (p < pos \/ (pc = "dedup" /\ p = pos)) /\ id \in hosted[urls[p]] =>
                urls[p] = Own(id)

OnceInv == ServersFixed /\ BadHostNothing /\ CreatesAreFirst /\ UnseenIsOwn
-----------------------------------------------------------------------------
\* fullAddrs has all good URLs of the list.
LEMMA FullAddrsRange ==
    ASSUME NEW list \in Seq(Addrs), NEW s \in FullAddrs(list)
    PROVE  /\ Len(s) = Cardinality({i \in DOMAIN list : list[i] \notin BadAddrs})
           /\ Range(s) = Range(list) \ BadAddrs
<1> DEFINE good == {i \in DOMAIN list : list[i] \notin BadAddrs}
           n == Cardinality(good)
<1>1. PICK f \in [DOMAIN s -> good] :
          /\ s = [i \in DOMAIN f |-> list[f[i]]]
          /\ DOMAIN s = 1 .. n
          /\ \A i, j \in DOMAIN f : i < j => f[i] < f[j]
  BY FullAddrsPlaces
<1>2. IsFiniteSet(good) /\ n \in Nat
  BY GoodPlacesAreFinite
<1>3. good \subseteq Nat
  OBVIOUS
<1> HIDE DEF good, n
<1>4. Len(s) = n
  <2>1. s \in Seq(Addrs)
    BY FullAddrsType
  <2> QED
    BY <1>1, <1>2, <2>1
<1>5. f \in Injection(1 .. n, good)
  <2>1. ASSUME NEW i \in 1 .. n, NEW j \in 1 .. n, f[i] = f[j] PROVE i = j
    <3>1. f[i] \in Nat /\ f[j] \in Nat /\ i \in Nat /\ j \in Nat
      BY <1>1, <1>2, <1>3
    <3>2. ~(i < j) /\ ~(j < i)
      BY <1>1, <2>1, <3>1
    <3> QED
      BY <3>1, <3>2
  <2> QED
    BY <1>1, <2>1 DEF Injection, IsInjective
<1>6. Cardinality(1 .. n) = n
  BY <1>2, FS_Interval
<1>7. f \in Surjection(1 .. n, good)
  BY <1>2, <1>5, <1>6, FS_Injection DEF n
<1>8. \A g \in good : \E i \in DOMAIN s : f[i] = g
  BY <1>1, <1>7 DEF Surjection
<1>9. Range(s) = Range(list) \ BadAddrs
  <2>1. ASSUME NEW i \in DOMAIN s PROVE s[i] \in Range(list) \ BadAddrs
    BY <1>1 DEF good, Range
  <2>2. ASSUME NEW g \in DOMAIN list, list[g] \notin BadAddrs PROVE list[g] \in Range(s)
    <3>1. PICK i \in DOMAIN s : f[i] = g
      BY <1>8, <2>2 DEF good
    <3>2. s[i] = list[g]
      BY <1>1, <3>1
    <3> QED
      BY <3>2 DEF Range
  <2> QED
    BY <2>1, <2>2 DEF Range
<1> QED
  BY <1>4, <1>9 DEF n, good

\* A torn read gives the whole list when the list is the same on both sides.
LEMMA TornReadsAgree ==
    ASSUME TypeOK, ServersFixed, NEW read \in AddrsReads
    PROVE  read \in FullAddrs(AlarmServers)
<1>1. AlarmServers \in Seq(Addrs)
  BY AlarmServersType DEF TypeOK
<1>2. CASE read = addrs
  BY <1>2 DEF ServersFixed
<1>3. CASE read # addrs
  <2>1. updater.pc = "addrs" /\ updater.list = AlarmServers
    BY <1>3 DEF AddrsReads, ServersFixed
  <2>2. PICK new \in FullAddrs(AlarmServers) :
            read \in {new} \cup Prefixes(addrs, Len(new)) \cup Prefixes(new, Len(addrs))
    BY <1>3, <2>1 DEF AddrsReads
  <2>3. addrs \in Seq(Addrs) /\ new \in Seq(Addrs)
    BY <1>1, FullAddrsType DEF ServersFixed
  <2>4. Len(addrs) = Len(new)
    BY <1>1, FullAddrsRange DEF ServersFixed
  <2>5. \A p \in Prefixes(addrs, Len(new)) : p = addrs
    BY <2>3, <2>4 DEF Prefixes
  <2>6. \A p \in Prefixes(new, Len(addrs)) : p = new
    BY <2>3, <2>4 DEF Prefixes
  <2> QED
    BY <2>2, <2>5, <2>6 DEF ServersFixed
<1> QED
  BY <1>2, <1>3

\* A list of servers that is not empty has a ring that is not empty.
LEMMA RingOfServers ==
    ASSUME TypeOK, ServersFixed, ring = EmptyCircle
    PROVE  clients = {}
<1>1. AlarmServers \in Seq(Addrs)
  BY AlarmServersType DEF TypeOK
<1>2. Claimed(AlarmServers, DOMAIN AlarmServers) = {}
  BY <1>1, CircleOfFacts DEF ServersFixed, EmptyCircle
<1>3. DOMAIN AlarmServers = {}
  <2> SUFFICES ASSUME NEW i \in DOMAIN AlarmServers PROVE FALSE
    OBVIOUS
  <2>1. AlarmServers[i] \in Addrs
    BY <1>1
  <2>2. Points(AlarmServers[i]) # {}
    BY <2>1, PointsAreHashes
  <2> QED
    BY <1>2, <2>2 DEF Claimed
<1> QED
  BY <1>3 DEF ServersFixed, Connected, Range

\* The list of servers stays.
LEMMA ServersFixedNext ==
    ASSUME TypeOK, ServersFixed, [Next]_vars
    PROVE  ServersFixed' /\ AlarmServers' = AlarmServers /\ ring' = ring
<1> USE DEF TypeOK
<1>1. ~Relist
  BY DEF Relist, Spend, ServersFixed
<1>2. budget'["relist"] = 0
  BY <1>1 DEF ServersFixed, WorldType, Events, Spend, Request, Next, Updater, Loop,
              Network, World, StartSetAddr, SetAddrs, SetClientsAndHash, BeginPass,
              NoClient, ListTasks, ListFails, DeleteDuplicate, FetchAlarms, NoAlarms,
              RefuseTask, ChooseServer, CreateTask, BeginRemove, RemoveTask, EndPass,
              EditAlarm, Restart, Crash, DiesAndStarts, Land, Lose, vars
<1>3. machines' = machines
  BY <1>1 DEF Next, Updater, Loop, Network, World, StartSetAddr, SetAddrs,
              SetClientsAndHash, BeginPass, NoClient, ListTasks, ListFails,
              DeleteDuplicate, FetchAlarms, NoAlarms, RefuseTask, ChooseServer,
              CreateTask, BeginRemove, RemoveTask, EndPass, EditAlarm, Restart, Crash,
              DiesAndStarts, Land, Lose, registry, vars
<1>4. AlarmServers' = AlarmServers
  BY <1>3 DEF AlarmServers
<1> DEFINE S == AlarmServers
<1>5. S' = S
  BY <1>4
<1> HIDE DEF S
<1>6. /\ updater.pc # "idle" => updater.list = S
      /\ addrs \in FullAddrs(S) /\ clients = Connected(S) /\ ring = CircleOf(S)
      /\ pc \in {"list", "dedup"} => urls \in FullAddrs(S)
  BY DEF ServersFixed, S
<1>7. updater'.pc # "idle" => updater'.list = S
  <2>1. CASE UNCHANGED updater
    BY <1>6, <2>1
  <2>2. CASE StartSetAddr
    BY <2>2 DEF StartSetAddr, S
  <2>3. CASE SetAddrs
    BY <1>6, <2>3 DEF SetAddrs, KapacitorType
  <2>4. CASE updater' = UpdaterIdle
    BY <2>4 DEF UpdaterIdle
  <2> QED
    BY <1>1, <2>1, <2>2, <2>3, <2>4
       DEF Next, Updater, Loop, Network, World, SetClientsAndHash, BeginPass, NoClient,
           ListTasks, ListFails, DeleteDuplicate, FetchAlarms, NoAlarms, RefuseTask,
           ChooseServer, CreateTask, BeginRemove, RemoveTask, EndPass, EditAlarm,
           Restart, Crash, DiesAndStarts, Land, Lose, vars
<1>8. addrs' \in FullAddrs(S) /\ clients' = Connected(S) /\ ring' = CircleOf(S)
  <2>1. CASE UNCHANGED kapacitor
    BY <1>6, <2>1 DEF kapacitor
  <2>2. CASE SetAddrs
    BY <1>6, <2>2 DEF SetAddrs
  <2>3. CASE SetClientsAndHash
    BY <1>6, <2>3 DEF SetClientsAndHash
  <2>4. CASE DiesAndStarts
    BY <2>4 DEF DiesAndStarts, S
  <2> QED
    BY <1>1, <2>1, <2>2, <2>3, <2>4
       DEF Next, Updater, Loop, Network, World, Restart, Crash, StartSetAddr, BeginPass,
           NoClient, ListTasks, ListFails, DeleteDuplicate, FetchAlarms, NoAlarms,
           RefuseTask, ChooseServer, CreateTask, BeginRemove, RemoveTask, EndPass,
           EditAlarm, Land, Lose, vars
<1>9. pc' \in {"list", "dedup"} => urls' \in FullAddrs(S)
  <2>1. CASE pc' = "sleep"
    BY <2>1
  <2>2. CASE BeginPass
    <3>1. urls' \in FullAddrs(AlarmServers)
      BY <2>2, TornReadsAgree DEF BeginPass
    <3> QED
      BY <3>1 DEF S
  <2>3. CASE UNCHANGED urls /\ (pc' \in {"list", "dedup"} => pc \in {"list", "dedup"})
    BY <1>6, <2>3
  <2> QED
    BY <1>1, <2>1, <2>2, <2>3
       DEF Next, Updater, Loop, Network, World, StartSetAddr, SetAddrs, SetClientsAndHash,
           NoClient, ListTasks, ListFails, DeleteDuplicate, FetchAlarms, NoAlarms, ToSleep,
           RefuseTask, ChooseServer, CreateTask, BeginRemove, RemoveTask, EndPass,
           EditAlarm, Restart, Crash, DiesAndStarts, Land, Lose, loop, vars
<1>10. ServersFixed'
  <2>1. /\ updater'.pc # "idle" => updater'.list = S'
        /\ addrs' \in FullAddrs(S') /\ clients' = Connected(S') /\ ring' = CircleOf(S')
        /\ pc' \in {"list", "dedup"} => urls' \in FullAddrs(S')
    BY <1>5, <1>7, <1>8, <1>9
  <2> QED
    BY <1>2, <2>1 DEF ServersFixed, S
<1> QED
  BY <1>4, <1>6, <1>8, <1>10
-----------------------------------------------------------------------------
\* A step lets a task appear only on its own server, and only a version.
AppearsAtOwn(i, a) == i \in Versions /\ a = Own(i) /\ a \notin BadAddrs

LEMMA ExecutedAppears ==
    ASSUME ServersType, NEW op \in {"create", "delete"}, NEW a \in Addrs, NEW id \in TaskIds,
           op = "create" => AppearsAtOwn(id, a),
           hosted' = Executed(op, a, id)
    PROVE  \A i \in TaskIds, b \in Addrs :
              i \in hosted'[b] => i \in hosted[b] \/ AppearsAtOwn(i, b)
  BY DEF Executed, ServersType

\* The call of CreateTask goes to a good server, the own one of a version.
LEMMA TargetIsOwn ==
    ASSUME TypeOK, OnceInv, pc = "call", target[1] \in clients
    PROVE  /\ target[1] \in Addrs /\ target[2] \in Versions
           /\ AppearsAtOwn(target[2], target[1])
           /\ Copies(target[2]) \subseteq {target[1]}
<1>1. target[1] \in Addrs /\ target[2] \in Versions
  BY DEF TypeOK, LoopType, KapacitorType
<1>2. target[1] \notin BadAddrs
  BY DEF OnceInv, ServersFixed, Connected
<1> QED
  BY <1>1, <1>2 DEF OnceInv, CreatesAreFirst, AppearsAtOwn

LEMMA Appearances ==
    ASSUME TypeOK, OnceInv, [Next]_vars
    PROVE  \A i \in TaskIds, b \in Addrs :
              i \in hosted'[b] => i \in hosted[b] \/ AppearsAtOwn(i, b)
<1> USE DEF TypeOK
<1>1. CASE UNCHANGED hosted
  BY <1>1
<1>2. ASSUME NEW c \in Calls, Land(c)
      PROVE  \A i \in TaskIds, b \in Addrs :
                i \in hosted'[b] => i \in hosted[b] \/ AppearsAtOwn(i, b)
  <2>1. /\ c[1] \in {"create", "delete"} /\ c[2] \in Addrs /\ c[3] \in TaskIds
        /\ c = <<c[1], c[2], c[3]>>
    BY DEF Calls
  <2>2. c[1] = "create" => AppearsAtOwn(c[3], c[2])
    <3> SUFFICES ASSUME c[1] = "create" PROVE AppearsAtOwn(c[3], c[2])
      OBVIOUS
    <3>1. pending[<<"create", c[2], c[3]>>] > 0
      BY <1>2, <2>1 DEF Land
    <3> QED
      BY <2>1, <3>1 DEF OnceInv, CreatesAreFirst, AppearsAtOwn
  <2> QED
    BY <1>2, <2>1, <2>2, ExecutedAppears DEF Land
<1>3. ASSUME NEW id \in TaskIds, DeleteDuplicate(id)
      PROVE  \A i \in TaskIds, b \in Addrs :
                i \in hosted'[b] => i \in hosted[b] \/ AppearsAtOwn(i, b)
  <2>1. urls[pos] \in Addrs
    BY <1>3 DEF DeleteDuplicate, LoopType
  <2>2. CASE UNCHANGED hosted
    BY <2>2
  <2>3. CASE hosted' = Executed("delete", urls[pos], id)
    BY <2>1, <2>3, ExecutedAppears
  <2> QED
    BY <1>3, <2>2, <2>3 DEF DeleteDuplicate, Request, servers
<1>4. ASSUME CreateTask
      PROVE  \A i \in TaskIds, b \in Addrs :
                i \in hosted'[b] => i \in hosted[b] \/ AppearsAtOwn(i, b)
  <2>1. CASE UNCHANGED hosted
    BY <2>1
  <2>2. CASE target[1] \in clients /\ hosted' = Executed("create", target[1], target[2])
    <3>1. pc = "call"
      BY <1>4 DEF CreateTask
    <3>2. /\ target[1] \in Addrs /\ target[2] \in Versions
          /\ AppearsAtOwn(target[2], target[1])
      BY <2>2, <3>1, TargetIsOwn
    <3> QED
      BY <2>2, <3>2, ExecutedAppears DEF TaskIds
  <2> QED
    BY <1>4, <2>1, <2>2 DEF CreateTask, Request, servers
<1> QED
  BY <1>1, <1>2, <1>3, <1>4
     DEF Next, Updater, Loop, Network, World, StartSetAddr, SetAddrs, SetClientsAndHash,
         BeginPass, NoClient, ListTasks, ListFails, FetchAlarms, NoAlarms, RefuseTask,
         ChooseServer, BeginRemove, RemoveTask, EndPass, EditAlarm, Relist, Restart,
         Crash, DiesAndStarts, Lose, servers, vars

LEMMA OwnStays ==
    ASSUME TypeOK, OnceInv, [Next]_vars
    PROVE  \A i \in TaskIds : Copies(i) \subseteq {Own(i)} => Copies(i)' \subseteq {Own(i)}
  BY Appearances DEF Copies, AppearsAtOwn

LEMMA BadHostNothingNext ==
    ASSUME TypeOK, OnceInv, [Next]_vars
    PROVE  BadHostNothing'
<1>1. ASSUME NEW a \in BadAddrs PROVE hosted'[a] = {}
  <2>1. a \in Addrs /\ hosted[a] = {}
    BY KapacitorAssumption DEF OnceInv, BadHostNothing
  <2>2. hosted'[a] \subseteq TaskIds
    BY <2>1, TypeNext DEF TypeOK, ServersType
  <2> QED
    BY <2>1, <2>2, Appearances DEF AppearsAtOwn
<1> QED
  BY <1>1 DEF BadHostNothing

LEMMA UnseenIsOwnNext ==
    ASSUME TypeOK, OnceInv, [Next]_vars
    PROVE  UnseenIsOwn'
<1> USE DEF TypeOK
<1>1. ASSUME pc' \in {"list", "dedup"}, NEW p \in DOMAIN urls', NEW id \in Versions,
             id \notin seen', p < pos' \/ (pc' = "dedup" /\ p = pos'),
             id \in hosted'[urls'[p]]
      PROVE  urls'[p] = Own(id)
  <2>1. id \in TaskIds /\ p \in Nat
    BY <1>1, TypeNext DEF TaskIds, LoopType
  <2>2. pos \in Nat /\ pos' \in Nat
    BY TypeNext DEF LoopType
  <2>3. CASE BeginPass
    <3>1. pos' = 1 /\ pc' = "list" /\ p >= 1
      BY <1>1, <2>3, TypeNext DEF BeginPass, LoopType
    <3> QED
      BY <1>1, <2>1, <3>1
  <2>4. CASE ListTasks
    <3>1. /\ urls' = urls /\ hosted' = hosted /\ pc = "list" /\ id \notin seen
          /\ id \notin hosted[urls[pos]]
      BY <1>1, <2>4 DEF ListTasks, servers
    <3>2. p < pos
      BY <1>1, <2>1, <2>2, <2>4, <3>1 DEF ListTasks
    <3> QED
      BY <1>1, <3>1, <3>2 DEF OnceInv, UnseenIsOwn
  <2>5. CASE UNCHANGED <<urls, seen>> /\ pc \in {"list", "dedup"}
             /\ (p < pos \/ (pc = "dedup" /\ p = pos))
    <3>1. urls[p] \in Addrs
      <4>1. AlarmServers \in Seq(Addrs) /\ urls \in FullAddrs(AlarmServers)
        BY <2>5, AlarmServersType DEF OnceInv, ServersFixed
      <4>2. urls \in Seq(Addrs)
        BY <4>1, FullAddrsType
      <4> QED
        BY <1>1, <2>5, <4>2
    <3>2. id \in hosted[urls[p]] \/ AppearsAtOwn(id, urls[p])
      BY <1>1, <2>1, <2>5, <3>1, Appearances
    <3>3. CASE id \in hosted[urls[p]]
      BY <1>1, <2>5, <3>3 DEF OnceInv, UnseenIsOwn
    <3> QED
      BY <2>5, <3>2, <3>3 DEF AppearsAtOwn
  <2>6. ASSUME NEW i \in TaskIds, DeleteDuplicate(i)
        PROVE  UNCHANGED <<urls, seen>> /\ pc = "dedup" /\ (p < pos \/ p = pos)
    BY <1>1, <2>1, <2>2, <2>6 DEF DeleteDuplicate
  <2>7. CASE UNCHANGED loop
    BY <1>1, <2>5, <2>7 DEF loop
  <2> QED
    BY <1>1, <2>3, <2>4, <2>5, <2>6, <2>7
       DEF Next, Updater, Loop, Network, World, StartSetAddr, SetAddrs,
           SetClientsAndHash, NoClient, ListFails, FetchAlarms, NoAlarms, RefuseTask,
           ChooseServer, CreateTask, BeginRemove, RemoveTask, EndPass, ToSleep,
           EditAlarm, Relist, Restart, Crash, DiesAndStarts, Land, Lose, vars
<1>2. \A id : Own(id)' = Own(id)
  BY ServersFixedNext DEF OnceInv, Own
<1> QED
  BY <1>1, <1>2 DEF UnseenIsOwn

\* After a whole listing a task that was not seen has no copy but its own.
LEMMA ListedAll ==
    ASSUME TypeOK, OnceInv, FixedServers, pc = "list", pos > Len(urls),
           NEW id \in Versions \ seen
    PROVE  Copies(id) \subseteq {Own(id)}
<1>1. AlarmServers \in Seq(Addrs) /\ urls \in FullAddrs(AlarmServers)
  BY AlarmServersType DEF TypeOK, OnceInv, ServersFixed
<1>2. urls \in Seq(Addrs) /\ Range(urls) = Range(AlarmServers) \ BadAddrs
  BY <1>1, FullAddrsType, FullAddrsRange
<1>3. Range(AlarmServers) = Addrs
  <2>1. Range(AlarmServers) \subseteq Addrs
    BY <1>1 DEF Range
  <2>2. Addrs \subseteq Range(AlarmServers)
    BY DEF FixedServers, TypeOK, WorldType, AlarmServers, Range
  <2> QED
    BY <2>1, <2>2
<1>4. ASSUME NEW a \in Copies(id) PROVE a = Own(id)
  <2>1. a \in Addrs /\ id \in hosted[a] /\ a \notin BadAddrs
    BY DEF Copies, OnceInv, BadHostNothing
  <2>2. PICK p \in DOMAIN urls : urls[p] = a
    BY <1>2, <1>3, <2>1 DEF Range
  <2>3. p < pos
    BY <1>2 DEF TypeOK, LoopType
  <2> QED
    BY <2>1, <2>2, <2>3 DEF OnceInv, UnseenIsOwn
<1> QED
  BY <1>4

LEMMA CreatesInFlightNext ==
    ASSUME TypeOK, OnceInv, [Next]_vars,
           NEW a \in Addrs, NEW id \in TaskIds, pending'[<<"create", a, id>>] > 0
    PROVE  id \in Versions /\ a = Own(id) /\ a \notin BadAddrs /\ Copies(id)' \subseteq {a}
<1> USE DEF TypeOK
<1> DEFINE c == <<"create", a, id>>
<1>1. c \in Calls
  BY DEF Calls
<1>2. pending[c] \in Nat
  BY <1>1, KapacitorAssumption DEF ServersType
<1>3. CASE pending[c] > 0
  <2>1. id \in Versions /\ a = Own(id) /\ a \notin BadAddrs /\ Copies(id) \subseteq {a}
    BY <1>3 DEF OnceInv, CreatesAreFirst
  <2> QED
    BY <2>1, OwnStays
<1>4. CASE pending[c] = 0
  <2>1. ASSUME NEW d \in Calls, Land(d) PROVE FALSE
    BY <1>1, <1>4, <2>1 DEF Land, ServersType
  <2>2. ASSUME NEW d \in Calls, Lose(d) PROVE FALSE
    BY <1>1, <1>4, <2>2 DEF Lose, ServersType
  <2>3. ASSUME NEW i \in TaskIds, DeleteDuplicate(i) PROVE FALSE
    <3>1. Send("delete", urls[pos], i)
      BY <1>4, <2>3 DEF DeleteDuplicate, Request, servers
    <3>2. c # <<"delete", urls[pos], i>>
      OBVIOUS
    <3> QED
      BY <1>1, <1>4, <3>1, <3>2 DEF Send, ServersType
  <2>4. ASSUME CreateTask
        PROVE  id \in Versions /\ a = Own(id) /\ a \notin BadAddrs /\ Copies(id) \subseteq {a}
    <3>1. Send("create", target[1], target[2]) /\ target[1] \in clients /\ pc = "call"
      BY <1>4, <2>4 DEF CreateTask, Request, servers
    <3>2. c = <<"create", target[1], target[2]>>
      BY <1>1, <1>4, <3>1 DEF Send, ServersType
    <3>3. a = target[1] /\ id = target[2]
      BY <3>2
    <3> QED
      BY <3>1, <3>3, TargetIsOwn DEF AppearsAtOwn
  <2>5. ASSUME NEW i \in TaskIds, RemoveTask(i) PROVE FALSE
    BY <1>1, <1>4, <2>5 DEF RemoveTask
  <2>6. ~DiesAndStarts
    BY <1>1, <1>4 DEF DiesAndStarts
  <2>7. pending' # pending
    BY <1>4
  <2>8. id \in Versions /\ a = Own(id) /\ a \notin BadAddrs /\ Copies(id) \subseteq {a}
    BY <2>1, <2>2, <2>3, <2>4, <2>5, <2>6, <2>7
       DEF Next, Updater, Loop, Network, World, Restart, Crash, StartSetAddr, SetAddrs,
           SetClientsAndHash, BeginPass, NoClient, ListTasks, ListFails, FetchAlarms,
           NoAlarms, RefuseTask, ChooseServer, BeginRemove, EndPass, EditAlarm, Relist,
           servers, vars
  <2> QED
    BY <2>8, OwnStays
<1> QED
  BY <1>2, <1>3, <1>4

LEMMA CreatesAreFirstNext ==
    ASSUME TypeOK, OnceInv, FixedServers, [Next]_vars
    PROVE  CreatesAreFirst'
<1> USE DEF TypeOK
<1>1. ring' = ring /\ clients' = clients
  BY ServersFixedNext DEF OnceInv, ServersFixed
<1>2. \A id : Own(id)' = Own(id)
  BY <1>1 DEF Own
<1>3. ASSUME pc' \in {"create", "call"}, NEW id, id \in todo'
      PROVE  Copies(id)' \subseteq {Own(id)}
  <2>1. id \in TaskIds /\ id \in Versions
    BY <1>3, TypeNext DEF LoopType, TaskIds
  <2>2. CASE pc \in {"create", "call"} /\ todo' \subseteq todo
    BY <1>3, <2>1, <2>2, OwnStays DEF OnceInv, CreatesAreFirst
  <2>3. CASE FetchAlarms
    <3>1. pc = "list" /\ pos > Len(urls) /\ id \notin seen
      BY <1>3, <2>3 DEF FetchAlarms
    <3>2. Copies(id) \subseteq {Own(id)}
      BY <2>1, <3>1, ListedAll
    <3> QED
      BY <2>1, <3>2, OwnStays
  <2> QED
    BY <1>3, <2>2, <2>3
       DEF Next, Updater, Loop, Network, World, StartSetAddr, SetAddrs, SetClientsAndHash,
           BeginPass, NoClient, ListTasks, ListFails, DeleteDuplicate, NoAlarms, RefuseTask,
           ChooseServer, CreateTask, BeginRemove, RemoveTask, EndPass, ToSleep, EditAlarm,
           Relist, Restart, Crash, DiesAndStarts, Land, Lose, loop, vars
<1>4. ASSUME pc' = "call"
      PROVE  /\ \A b \in Addrs : target'[2] \in hosted'[b] => b = Own(target'[2])
             /\ target'[1] \in clients => target'[1] = Own(target'[2])
  <2>1. CASE pc = "call" /\ UNCHANGED target
    <3>1. target[2] \in TaskIds
      BY <2>1 DEF LoopType, TaskIds
    <3>2. /\ Copies(target[2]) \subseteq {Own(target[2])}
          /\ target[1] \in clients => target[1] = Own(target[2])
      BY <2>1 DEF OnceInv, CreatesAreFirst
    <3>3. \A b \in Addrs : target[2] \in hosted'[b] => b = Own(target[2])
      BY <3>1, <3>2, Appearances DEF Copies, AppearsAtOwn
    <3> QED
      BY <2>1, <3>2, <3>3
  <2>2. ASSUME NEW id \in TaskIds, ChooseServer(id)
        PROVE  /\ \A b \in Addrs : target'[2] \in hosted'[b] => b = Own(target'[2])
               /\ target'[1] \in clients => target'[1] = Own(target'[2])
    <3>1. target' = <<HashKapacitor(id), id>> /\ id \in todo /\ pc = "create"
      BY <2>2 DEF ChooseServer
    <3>2. Copies(id) \subseteq {Own(id)}
      BY <3>1 DEF OnceInv, CreatesAreFirst
    <3>3. Copies(id)' \subseteq {Own(id)}
      BY <3>2, OwnStays
    <3>4. HashKapacitor(id) \in clients => HashKapacitor(id) = Own(id)
      BY RingOfServers DEF OnceInv, HashKapacitor, Own
    <3> QED
      BY <3>1, <3>3, <3>4 DEF Copies
  <2> QED
    BY <1>4, <2>1, <2>2
       DEF Next, Updater, Loop, Network, World, StartSetAddr, SetAddrs,
           SetClientsAndHash, BeginPass, NoClient, ListTasks, ListFails,
           DeleteDuplicate, FetchAlarms, NoAlarms, RefuseTask, CreateTask, BeginRemove,
           RemoveTask, EndPass, ToSleep, EditAlarm, Relist, Restart, Crash,
           DiesAndStarts, Land, Lose, loop, vars
<1> QED
  BY <1>1, <1>2, <1>3, <1>4, CreatesInFlightNext DEF CreatesAreFirst, Copies, Own

LEMMA OnceInvInit ==
    ASSUME FixedServers, Init
    PROVE  OnceInv
<1>1. ServersFixed
  BY DEF Init, FixedServers, ServersFixed, UpdaterIdle
<1>2. BadHostNothing
  BY DEF Init, BadHostNothing
<1>3. CreatesAreFirst
  BY DEF Init, CreatesAreFirst, Calls
<1>4. UnseenIsOwn
  BY DEF Init, UnseenIsOwn
<1> QED
  BY <1>1, <1>2, <1>3, <1>4 DEF OnceInv

LEMMA OnceInvNext ==
    ASSUME TypeOK, OnceInv, FixedServers, [Next]_vars
    PROVE  OnceInv'
<1>1. ServersFixed'
  BY ServersFixedNext DEF OnceInv
<1> QED
  BY <1>1, BadHostNothingNext, CreatesAreFirstNext, UnseenIsOwnNext DEF OnceInv
-----------------------------------------------------------------------------
(* Each step of Kapacitor is one of AlarmSync, or none.                    *)

LEMMA CreateIsPlace ==
    ASSUME ServersType, NEW a \in Addrs, NEW id \in Versions, Copies(id) \subseteq {a},
           hosted' = Executed("create", a, id), UNCHANGED withdrawn
    PROVE  [Sync!Next]_Sync!vars
<1>1. id \in TaskIds
  BY DEF TaskIds
<1>2. CASE a \in Copies(id)
  <2>1. hosted' = hosted
    BY <1>2 DEF Copies, Executed, ServersType
  <2> QED
    BY <2>1 DEF Sync!vars, Copies
<1>3. CASE a \notin Copies(id)
  <2>1. Copies(id) = {}
    BY <1>3
  <2>2. \A i \in TaskIds : Copies(i)' = IF i = id THEN {a} ELSE Copies(i)
    BY <1>1, <2>1 DEF Copies, Executed, ServersType
  <2>3. [i \in TaskIds |-> Copies(i)'] = [[i \in TaskIds |-> Copies(i)] EXCEPT ![id] = {a}]
    BY <1>1, <2>2
  <2>4. Sync!Place(id, a)
    BY <1>1, <2>1, <2>3 DEF Sync!Place
  <2> QED
    BY <1>1, <2>4 DEF Sync!Next
<1> QED
  BY <1>2, <1>3

LEMMA DeleteIsDrop ==
    ASSUME NEW rank \in [Addrs -> Nat], ServersType, NEW a \in Addrs, NEW id \in TaskIds,
           id \notin withdrawn => HostedBefore(rank, id, a),
           hosted' = Executed("delete", a, id), UNCHANGED withdrawn
    PROVE  [Sync!Next]_Sync!vars
<1>1. id \in withdrawn \/ Copies(id) \ {a} # {}
  BY DEF HostedBefore, Copies
<1>2. \A i \in TaskIds : Copies(i)' = IF i = id THEN Copies(i) \ {a} ELSE Copies(i)
  BY DEF Copies, Executed, ServersType
<1>3. [i \in TaskIds |-> Copies(i)']
        = [[i \in TaskIds |-> Copies(i)] EXCEPT ![id] = Copies(id) \ {a}]
  BY <1>2
<1>4. Sync!Drop(id, a)
  BY <1>1, <1>3 DEF Sync!Drop
<1> QED
  BY <1>4 DEF Sync!Next

LEMMA StepIsSyncStep ==
    ASSUME NEW rank \in [Addrs -> Nat], TypeOK, KeptInv(rank), OnceInv, [Next]_vars
    PROVE  [Sync!Next]_Sync!vars
<1> USE DEF TypeOK
<1>1. CASE UNCHANGED <<hosted, withdrawn>>
  BY <1>1 DEF Sync!vars, Copies
<1>2. ASSUME NEW c \in Calls, Land(c) PROVE [Sync!Next]_Sync!vars
  <2>1. /\ c[1] \in {"create", "delete"} /\ c[2] \in Addrs /\ c[3] \in TaskIds
        /\ pending[<<c[1], c[2], c[3]>>] > 0
        /\ hosted' = Executed(c[1], c[2], c[3]) /\ UNCHANGED withdrawn
    BY <1>2 DEF Calls, Land, registry
  <2>2. CASE c[1] = "create"
    <3>1. c[3] \in Versions /\ Copies(c[3]) \subseteq {c[2]}
      BY <2>1, <2>2 DEF OnceInv, CreatesAreFirst
    <3> QED
      BY <2>1, <2>2, <3>1, CreateIsPlace
  <2>3. CASE c[1] = "delete"
    <3>1. c[3] \notin withdrawn => HostedBefore(rank, c[3], c[2])
      BY <2>1, <2>3 DEF KeptInv, DeletesLeaveOne
    <3> QED
      BY <2>1, <2>3, <3>1, DeleteIsDrop
  <2> QED
    BY <2>1, <2>2, <2>3
<1>3. ASSUME NEW id \in TaskIds, DeleteDuplicate(id) PROVE [Sync!Next]_Sync!vars
  <2>1. urls[pos] \in Addrs /\ UNCHANGED withdrawn
    BY <1>3 DEF DeleteDuplicate, LoopType, registry
  <2>2. id \notin withdrawn => HostedBefore(rank, id, urls[pos])
    BY <1>3 DEF DeleteDuplicate, KeptInv, DuplicatesLeaveOne
  <2>3. CASE UNCHANGED hosted
    BY <1>1, <2>1, <2>3
  <2>4. CASE hosted' = Executed("delete", urls[pos], id)
    BY <2>1, <2>2, <2>4, DeleteIsDrop
  <2> QED
    BY <1>3, <2>3, <2>4 DEF DeleteDuplicate, Request, servers
<1>4. ASSUME CreateTask PROVE [Sync!Next]_Sync!vars
  <2>1. pc = "call" /\ UNCHANGED withdrawn
    BY <1>4 DEF CreateTask, registry
  <2>2. CASE UNCHANGED hosted
    BY <1>1, <2>1, <2>2
  <2>3. CASE target[1] \in clients /\ hosted' = Executed("create", target[1], target[2])
    <3>1. /\ target[1] \in Addrs /\ target[2] \in Versions
          /\ Copies(target[2]) \subseteq {target[1]}
      BY <2>1, <2>3, TargetIsOwn
    <3> QED
      BY <2>1, <2>3, <3>1, CreateIsPlace
  <2> QED
    BY <1>4, <2>2, <2>3 DEF CreateTask, Request, servers
<1>5. ASSUME NEW id \in Versions, EditAlarm(id) PROVE [Sync!Next]_Sync!vars
  <2>1. withdrawn' \in SUBSET Versions /\ withdrawn \subseteq withdrawn' /\ UNCHANGED hosted
    BY <1>5 DEF EditAlarm, WorldType, servers
  <2>2. Sync!Withdraw
    BY <2>1 DEF Sync!Withdraw, Copies
  <2> QED
    BY <2>2 DEF Sync!Next
<1> QED
  BY <1>1, <1>2, <1>3, <1>4, <1>5
     DEF Next, Updater, Loop, Network, World, StartSetAddr, SetAddrs, SetClientsAndHash,
         BeginPass, NoClient, ListTasks, ListFails, FetchAlarms, NoAlarms, RefuseTask,
         ChooseServer, BeginRemove, RemoveTask, EndPass, Relist, Restart, Crash,
         DiesAndStarts, Lose,
         registry, servers, vars

LEMMA InitIsSyncInit == Init => Sync!Init
  BY TypeInit DEF TypeOK, WorldType, Sync!Init, Copies

(***************************************************************************)
(* The alarm module (adapter/adapter.go and kapacitor.go) implements       *)
(* AlarmSync while the list of servers stays the same: it creates a task   *)
(* only where no server has it, and never deletes the last copy of one     *)
(* that is wanted, though both act on a list that is old by then and their *)
(* calls may be executed late or not at all.                               *)
(***************************************************************************)
THEOREM FixedServersImplementSync ==
    OrderedLists /\ FixedServers => (Spec => ImplementsAlarmSync)
<1> SUFFICES ASSUME NEW rank \in [Addrs -> Nat], OrderedBy(rank), FixedServers
             PROVE  Spec => ImplementsAlarmSync
  BY DEF OrderedLists
<1>1. Init => TypeOK /\ KeptInv(rank) /\ OnceInv
  BY TypeInit, KeptInvInit, OnceInvInit
<1>2. TypeOK /\ KeptInv(rank) /\ OnceInv /\ [Next]_vars
        => (TypeOK /\ KeptInv(rank) /\ OnceInv)'
  <2>1. SUFFICES ASSUME TypeOK, KeptInv(rank), OnceInv, [Next]_vars
                 PROVE  (TypeOK /\ KeptInv(rank) /\ OnceInv)'
    OBVIOUS
  <2>2. Ordered(rank, AlarmServers) /\ AlarmServers \in Seq(Addrs)
    BY <2>1, AlarmServersOrdered, AlarmServersType DEF TypeOK
  <2>3. \A read \in AddrsReads : Ordered(rank, read)
    BY <2>1, <2>2, TornReadsAgree, FullAddrsOrdered DEF OnceInv
  <2> QED
    BY <2>1, <2>3, TypeNext, KeptInvNext, OnceInvNext
<1>3. TypeOK /\ KeptInv(rank) /\ OnceInv /\ [Next]_vars => [Sync!Next]_Sync!vars
  BY StepIsSyncStep
<1> QED
  BY <1>1, <1>2, <1>3, InitIsSyncInit, PTL DEF Spec, ImplementsAlarmSync, Sync!Spec

-----------------------------------------------------------------------------
(***************************************************************************)
(* No order of the machines is needed if no delete of a duplicate outlives *)
(* its caller (PromptDeletesKeepLastCopies): then the copy that a pass met *)
(* first is still there when it deletes another, however the lists change  *)
(* and whatever else is late.                                              *)
(***************************************************************************)
\* A slice has no URL twice.
Distinct(slice) ==
    \A i, j \in DOMAIN slice : slice[i] \in Addrs /\ i # j => slice[i] # slice[j]

\* No list of the registry has.
DistinctLists == \A ms \in Lists : Distinct([i \in DOMAIN ms |-> AddrOf[ms[i]]])

\* The client gives up waiting for the delete of a duplicate, which the server may
\* yet execute.
LateDelete ==
    /\ pc = "dedup"
    /\ \E a \in Addrs, id \in TaskIds :
          pending'[<<"delete", a, id>>] > pending[<<"delete", a, id>>]

\* A server that the pass listed before place p hosts the task.
Met(id, p) == \E i \in DOMAIN urls : i < p /\ urls[i] \in Addrs /\ id \in hosted[urls[i]]

SlicesDistinct == Distinct(addrs) /\ Distinct(updater.list) /\ Distinct(urls)

DeletesOfWithdrawn ==
    \A a \in Addrs, id \in TaskIds \ withdrawn : pending[<<"delete", a, id>>] = 0

\* What a pass saw and has not deleted is where it met it.
SeenIsMet ==
    /\ pc = "sleep" => seen = {}
    /\ pc = "list" => \A id \in seen \ withdrawn : Met(id, pos)
    /\ pc = "dedup" => /\ \A id \in todo \ withdrawn : Met(id, pos)
                       /\ \A id \in seen \ withdrawn : Met(id, pos + 1)

MetInv == SlicesDistinct /\ RemovesWithdrawn /\ DeletesOfWithdrawn /\ SeenIsMet

LEMMA FullAddrsDistinct ==
    ASSUME NEW list \in Seq(Addrs), Distinct(list), NEW s \in FullAddrs(list)
    PROVE  Distinct(s)
<1> DEFINE good == {i \in DOMAIN list : list[i] \notin BadAddrs}
<1>1. PICK f \in [DOMAIN s -> good] :
          /\ s = [i \in DOMAIN f |-> list[f[i]]]
          /\ DOMAIN s = 1 .. Cardinality(good)
          /\ \A i, j \in DOMAIN f : i < j => f[i] < f[j]
  BY FullAddrsPlaces
<1>2. ASSUME NEW i \in DOMAIN s, NEW j \in DOMAIN s, i # j PROVE s[i] # s[j]
  <2>1. i \in Int /\ j \in Int /\ DOMAIN list = 1 .. Len(list) /\ Len(list) \in Nat
    BY <1>1
  <2>2. i < j \/ j < i
    BY <1>2, <2>1
  <2>3. f[i] \in DOMAIN list /\ f[j] \in DOMAIN list /\ f[i] # f[j]
    BY <1>1, <2>1, <2>2
  <2>4. s[i] = list[f[i]] /\ s[j] = list[f[j]]
    BY <1>1
  <2>5. list[f[i]] \in Addrs
    BY <2>3
  <2> QED
    BY <2>3, <2>4, <2>5 DEF Distinct
<1> QED
  BY <1>2 DEF Distinct

LEMMA PrefixesDistinct ==
    ASSUME NoServerInGarbage, NEW slice \in Seq(Addrs), Distinct(slice), NEW n \in Nat,
           NEW p \in Prefixes(slice, n)
    PROVE  Distinct(p)
<1>1. PICK past \in [1 .. n -> Garbage] :
          p = [i \in 1 .. n |-> IF i <= Len(slice) THEN slice[i] ELSE past[i]]
  BY DEF Prefixes
<1>2. \A i \in DOMAIN p : p[i] \in Addrs => i \in DOMAIN slice /\ p[i] = slice[i]
  BY <1>1 DEF NoServerInGarbage
<1> QED
  BY <1>1, <1>2 DEF Distinct

LEMMA AddrsReadsDistinct ==
    ASSUME NoServerInGarbage, KapacitorType, SlicesDistinct, NEW read \in AddrsReads
    PROVE  Distinct(read)
<1>1. addrs \in Seq(Addrs) /\ updater.list \in Seq(Addrs)
  BY DEF KapacitorType
<1>2. Distinct(addrs) /\ Distinct(updater.list)
  BY DEF SlicesDistinct
<1>3. CASE read # addrs
  <2>1. PICK new \in FullAddrs(updater.list) :
            read \in {new} \cup Prefixes(addrs, Len(new)) \cup Prefixes(new, Len(addrs))
    BY <1>3 DEF AddrsReads
  <2>2. new \in Seq(Addrs) /\ Distinct(new)
    BY <1>1, <1>2, FullAddrsType, FullAddrsDistinct
  <2>3. Len(new) \in Nat /\ Len(addrs) \in Nat
    BY <1>1, <2>2
  <2>4. \A p \in Prefixes(addrs, Len(new)) : Distinct(p)
    BY <1>1, <1>2, <2>3, PrefixesDistinct
  <2>5. \A p \in Prefixes(new, Len(addrs)) : Distinct(p)
    BY <2>2, <2>3, PrefixesDistinct
  <2> QED
    BY <2>1, <2>2, <2>4, <2>5
<1> QED
  BY <1>2, <1>3

LEMMA AlarmServersDistinct ==
    ASSUME DistinctLists, WorldType
    PROVE  Distinct(AlarmServers)
  BY DEF DistinctLists, AlarmServers, WorldType

LEMMA SlicesDistinctNext ==
    ASSUME NoServerInGarbage, DistinctLists, TypeOK, SlicesDistinct, [Next]_vars
    PROVE  SlicesDistinct'
<1> USE DEF TypeOK
<1>1. Distinct(AlarmServers) /\ AlarmServers \in Seq(Addrs)
  BY AlarmServersDistinct, AlarmServersType
<1>2. Distinct(addrs) /\ Distinct(updater.list) /\ Distinct(urls)
  BY DEF SlicesDistinct
<1>3. updater.list \in Seq(Addrs)
  BY DEF KapacitorType
<1>4. Distinct(<<>>)
  BY DEF Distinct
<1>5. Distinct(addrs')
  <2>1. CASE UNCHANGED addrs
    BY <1>2, <2>1
  <2>2. CASE SetAddrs
    BY <1>2, <1>3, <2>2, FullAddrsDistinct DEF SetAddrs
  <2>3. CASE DiesAndStarts
    BY <1>1, <2>3, FullAddrsDistinct DEF DiesAndStarts
  <2> QED
    BY <2>1, <2>2, <2>3
       DEF Next, Updater, Loop, Network, World, Restart, Crash, StartSetAddr,
           SetClientsAndHash, BeginPass, NoClient, ListTasks, ListFails,
           DeleteDuplicate, FetchAlarms, NoAlarms, RefuseTask, ChooseServer, CreateTask,
           BeginRemove, RemoveTask, EndPass, EditAlarm, Relist, Land, Lose, kapacitor,
           vars
<1>6. Distinct(updater'.list)
  <2>1. CASE UNCHANGED updater
    BY <1>2, <2>1
  <2>2. CASE StartSetAddr
    BY <1>1, <2>2 DEF StartSetAddr
  <2>3. CASE SetAddrs
    BY <1>2, <2>3 DEF SetAddrs, KapacitorType
  <2>4. CASE updater' = UpdaterIdle
    BY <1>4, <2>4 DEF UpdaterIdle
  <2> QED
    BY <2>1, <2>2, <2>3, <2>4
       DEF Next, Updater, Loop, Network, World, SetClientsAndHash, BeginPass, NoClient,
           ListTasks, ListFails, DeleteDuplicate, FetchAlarms, NoAlarms, RefuseTask,
           ChooseServer, CreateTask, BeginRemove, RemoveTask, EndPass, EditAlarm, Relist,
           Restart, Crash, DiesAndStarts, Land, Lose, vars
<1>7. Distinct(urls')
  <2>1. CASE UNCHANGED urls
    BY <1>2, <2>1
  <2>2. CASE urls' = <<>>
    BY <1>4, <2>2
  <2>3. CASE BeginPass
    BY <2>3, AddrsReadsDistinct DEF BeginPass
  <2> QED
    BY <2>1, <2>2, <2>3
       DEF Next, Updater, Loop, Network, World, StartSetAddr, SetAddrs, SetClientsAndHash,
           NoClient, ListTasks, ListFails, DeleteDuplicate, FetchAlarms, NoAlarms,
           RefuseTask, ChooseServer, CreateTask, BeginRemove, RemoveTask, EndPass, ToSleep,
           EditAlarm, Relist, Restart, Crash, DiesAndStarts, Land, Lose, loop, vars
<1> QED
  BY <1>5, <1>6, <1>7 DEF SlicesDistinct

\* The deletes sent are of tasks that were not wanted at some time.
LEMMA DeletesOfWithdrawnNext ==
    ASSUME TypeOK, RemovesWithdrawn, DeletesOfWithdrawn, [Next]_vars, ~LateDelete
    PROVE  DeletesOfWithdrawn'
<1> USE DEF TypeOK
<1> SUFFICES ASSUME NEW b \in Addrs, NEW id \in TaskIds, id \notin withdrawn',
                    pending'[<<"delete", b, id>>] # 0
             PROVE  FALSE
  BY DEF DeletesOfWithdrawn
<1> DEFINE c == <<"delete", b, id>>
<1>1. c \in Calls /\ id \notin withdrawn
  BY WithdrawnGrows DEF Calls
<1>2. pending[c] = 0 /\ pending'[c] > 0
  <2>1. ServersType'
    BY TypeNext
  <2> QED
    BY <1>1, <2>1, KapacitorAssumption DEF DeletesOfWithdrawn, ServersType
<1>3. ASSUME NEW d \in Calls, Land(d) \/ Lose(d) PROVE FALSE
  BY <1>1, <1>2, <1>3 DEF Land, Lose, ServersType
<1>4. ASSUME NEW i \in TaskIds, DeleteDuplicate(i) PROVE FALSE
  BY <1>2, <1>4 DEF DeleteDuplicate, LateDelete
<1>5. ASSUME CreateTask PROVE FALSE
  <2>1. Send("create", target[1], target[2])
    BY <1>2, <1>5 DEF CreateTask, Request, servers
  <2>2. c # <<"create", target[1], target[2]>>
    OBVIOUS
  <2> QED
    BY <1>1, <1>2, <2>1, <2>2 DEF Send, ServersType
<1>6. ASSUME NEW i \in TaskIds, RemoveTask(i) PROVE FALSE
  <2>1. i \notin Foreign
    BY <1>2, <1>6 DEF RemoveTask
  <2>2. i = id
    BY <1>1, <1>2, <1>6, <2>1 DEF RemoveTask
  <2>3. id \in Versions /\ id \notin alarms /\ pc = "remove"
    BY <1>6, <2>1, <2>2 DEF RemoveTask, RemovesWithdrawn, TaskIds
  <2> QED
    BY <1>1, <2>3 DEF RemovesWithdrawn
<1>7. ~DiesAndStarts
  BY <1>1, <1>2 DEF DiesAndStarts
<1>8. pending' # pending
  BY <1>2
<1> QED
  BY <1>3, <1>4, <1>5, <1>6, <1>7, <1>8
     DEF Next, Updater, Loop, Network, World, Restart, Crash, StartSetAddr, SetAddrs,
         SetClientsAndHash, BeginPass, NoClient, ListTasks, ListFails, FetchAlarms,
         NoAlarms, RefuseTask, ChooseServer, BeginRemove, EndPass, EditAlarm, Relist,
         servers, vars

\* A copy of a task that was always wanted goes only as a duplicate, at the server
\* that the pass is listing.
LEMMA CopiesGoAsDuplicates ==
    ASSUME TypeOK, DeletesOfWithdrawn, [Next]_vars,
           NEW id \in TaskIds \ withdrawn, NEW a \in Addrs, id \in hosted[a], id \notin hosted'[a]
    PROVE  DeleteDuplicate(id) /\ a = urls[pos] /\ hosted' = Executed("delete", a, id)
<1> USE DEF TypeOK
<1>1. ASSUME NEW op \in {"create", "delete"}, NEW b \in Addrs, NEW i \in TaskIds,
             hosted' = Executed(op, b, i)
      PROVE  op = "delete" /\ i = id /\ b = a
  BY <1>1 DEF Executed, ServersType
<1>2. ASSUME NEW c \in Calls, Land(c) PROVE FALSE
  <2>1. /\ c[1] \in {"create", "delete"} /\ c[2] \in Addrs /\ c[3] \in TaskIds
        /\ c = <<c[1], c[2], c[3]>>
    BY DEF Calls
  <2>2. hosted' = Executed(c[1], c[2], c[3]) /\ pending[c] > 0
    BY <1>2 DEF Land
  <2>3. c[1] = "delete" /\ c[3] = id
    BY <1>1, <2>1, <2>2
  <2> QED
    BY <2>1, <2>2, <2>3 DEF DeletesOfWithdrawn
<1>3. ASSUME CreateTask PROVE FALSE
  <2>1. target[1] \in clients /\ hosted' = Executed("create", target[1], target[2])
    BY <1>3 DEF CreateTask, Request, servers
  <2>2. target[1] \in Addrs /\ target[2] \in TaskIds
    BY <1>3, <2>1 DEF CreateTask, LoopType, KapacitorType, TaskIds
  <2> QED
    BY <1>1, <2>1, <2>2
<1>4. ASSUME NEW i \in TaskIds, DeleteDuplicate(i)
      PROVE  DeleteDuplicate(id) /\ a = urls[pos] /\ hosted' = Executed("delete", a, id)
  <2>1. urls[pos] \in Addrs /\ hosted' = Executed("delete", urls[pos], i)
    BY <1>4 DEF DeleteDuplicate, LoopType, Request, servers
  <2>2. i = id /\ urls[pos] = a
    BY <1>1, <2>1
  <2> QED
    BY <1>4, <2>1, <2>2
<1>5. hosted' # hosted
  OBVIOUS
<1> QED
  BY <1>2, <1>3, <1>4, <1>5
     DEF Next, Updater, Loop, Network, World, StartSetAddr, SetAddrs, SetClientsAndHash,
         BeginPass, NoClient, ListTasks, ListFails, FetchAlarms, NoAlarms, RefuseTask,
         ChooseServer, BeginRemove, RemoveTask, EndPass, EditAlarm, Relist, Restart,
         Crash, DiesAndStarts, Lose, servers, vars

\* While the pass ranges over the same slice, what it met stays met: the server that
\* a duplicate is deleted from is none of those listed before.
LEMMA MetStays ==
    ASSUME TypeOK, MetInv, [Next]_vars, urls' = urls,
           NEW id \in TaskIds \ withdrawn, NEW p \in Nat, Met(id, p)
    PROVE  Met(id, p)'
<1>1. PICK i \in DOMAIN urls : i < p /\ urls[i] \in Addrs /\ id \in hosted[urls[i]]
  BY DEF Met
<1>2. CASE id \in hosted'[urls[i]]
  BY <1>1, <1>2 DEF Met
<1>3. CASE id \notin hosted'[urls[i]]
  <2>1. /\ DeleteDuplicate(id) /\ urls[i] = urls[pos]
        /\ hosted' = Executed("delete", urls[pos], id)
    BY <1>1, <1>3, CopiesGoAsDuplicates DEF MetInv
  <2>2. pc = "dedup" /\ id \in todo
    BY <2>1 DEF DeleteDuplicate
  <2>3. pos \in DOMAIN urls /\ pos \in Nat /\ DOMAIN urls \subseteq Nat
    BY <2>2 DEF TypeOK, LoopType
  <2>4. i = pos
    BY <1>1, <2>1, <2>3 DEF MetInv, SlicesDistinct, Distinct
  <2>5. Met(id, pos) /\ pos < p
    BY <1>1, <2>2, <2>4 DEF MetInv, SeenIsMet
  <2>6. PICK j \in DOMAIN urls : j < pos /\ urls[j] \in Addrs /\ id \in hosted[urls[j]]
    BY <2>5 DEF Met
  <2>7. urls[j] # urls[pos]
    BY <2>3, <2>6 DEF MetInv, SlicesDistinct, Distinct
  <2>8. id \in hosted'[urls[j]]
    BY <2>1, <2>6, <2>7 DEF Executed, TypeOK, ServersType
  <2>9. j < p
    BY <2>3, <2>5, <2>6
  <2> QED
    BY <2>6, <2>8, <2>9 DEF Met
<1> QED
  BY <1>2, <1>3

\* A step of ListTasks: what the server hosts is met at its place.
LEMMA ListingMeets ==
    ASSUME TypeOK, MetInv, ListTasks
    PROVE  /\ urls' = urls
           /\ \A id \in todo' \ withdrawn : Met(id, pos)'
           /\ \A id \in seen' \ withdrawn : Met(id, pos + 1)'
<1>1. /\ pc = "list" /\ pos \in DOMAIN urls /\ pos \in Nat /\ DOMAIN urls \subseteq Nat
      /\ urls[pos] \in Addrs
  BY DEF ListTasks, TypeOK, LoopType, KapacitorType
<1>2. urls' = urls /\ hosted' = hosted /\ pos' \in {pos, pos + 1}
  BY DEF ListTasks, servers
<1>3. ASSUME NEW id \in seen \ withdrawn
      PROVE  \E i \in DOMAIN urls : i < pos /\ urls[i] \in Addrs /\ id \in hosted[urls[i]]
  BY <1>1, <1>3 DEF MetInv, SeenIsMet, Met
<1>4. ASSUME NEW id \in todo' \ withdrawn PROVE Met(id, pos)'
  <2>1. id \in seen \ withdrawn
    BY <1>4 DEF ListTasks
  <2>2. PICK i \in DOMAIN urls : i < pos /\ urls[i] \in Addrs /\ id \in hosted[urls[i]]
    BY <1>3, <2>1
  <2>3. i < pos'
    BY <1>1, <1>2, <2>2
  <2> QED
    BY <1>2, <2>2, <2>3 DEF Met
<1>5. ASSUME NEW id \in seen' \ withdrawn PROVE Met(id, pos + 1)'
  <2>1. id \in seen \/ id \in hosted[urls[pos]]
    BY <1>5 DEF ListTasks
  <2>2. PICK i \in DOMAIN urls : i <= pos /\ urls[i] \in Addrs /\ id \in hosted[urls[i]]
    BY <1>1, <1>3, <1>5, <2>1
  <2>3. i < pos' + 1
    BY <1>1, <1>2, <2>2
  <2> QED
    BY <1>2, <2>2, <2>3 DEF Met
<1> QED
  BY <1>2, <1>4, <1>5

LEMMA SeenIsMetNext ==
    ASSUME TypeOK, MetInv, [Next]_vars
    PROVE  SeenIsMet'
<1> USE DEF TypeOK
<1>1. (pc = "sleep" => seen = {})'
  BY DEF MetInv, SeenIsMet,
         Next, Updater, Loop, Network, World, StartSetAddr, SetAddrs, SetClientsAndHash,
         BeginPass, NoClient, ListTasks, ListFails, DeleteDuplicate, FetchAlarms, NoAlarms,
         RefuseTask, ChooseServer, CreateTask, BeginRemove, RemoveTask, EndPass, ToSleep,
         EditAlarm, Relist, Restart, Crash, DiesAndStarts, Land, Lose, loop, vars
<1>2. /\ withdrawn \subseteq withdrawn' /\ pos \in Nat
      /\ todo \subseteq TaskIds /\ seen \subseteq TaskIds
  BY WithdrawnGrows DEF LoopType
<1>3. CASE pc' \notin {"list", "dedup"}
  BY <1>1, <1>3 DEF SeenIsMet
<1>4. CASE BeginPass
  BY <1>4 DEF BeginPass, MetInv, SeenIsMet
<1>5. CASE ListTasks
  <2>1. /\ \A id \in todo' \ withdrawn' : Met(id, pos)'
        /\ \A id \in seen' \ withdrawn' : Met(id, pos + 1)'
    BY <1>2, <1>5, ListingMeets
  <2>2. ASSUME pc' = "list", NEW id \in seen' \ withdrawn' PROVE Met(id, pos)'
    <3>1. pos' = pos + 1 /\ urls' = urls /\ hosted' = hosted /\ pc = "list" /\ urls[pos] \in Addrs
          /\ pos \in DOMAIN urls /\ DOMAIN urls \subseteq Nat
      BY <1>5, <2>2 DEF ListTasks, servers, LoopType, KapacitorType
    <3>2. id \in seen \/ id \in hosted[urls[pos]]
      BY <1>5, <2>2 DEF ListTasks
    <3>3. CASE id \in seen
      <4>1. PICK i \in DOMAIN urls : i < pos /\ urls[i] \in Addrs /\ id \in hosted[urls[i]]
        BY <1>2, <2>2, <3>1, <3>3 DEF MetInv, SeenIsMet, Met
      <4>2. i < pos'
        BY <1>2, <3>1, <4>1
      <4> QED
        BY <3>1, <4>1, <4>2 DEF Met
    <3>4. CASE id \in hosted[urls[pos]]
      <4>1. pos < pos'
        BY <1>2, <3>1
      <4> QED
        BY <3>1, <3>4, <4>1 DEF Met
    <3> QED
      BY <3>2, <3>3, <3>4
  <2>3. pc' \in {"list", "dedup"}
    BY <1>5 DEF ListTasks
  <2> QED
    BY <2>1, <2>2, <2>3 DEF SeenIsMet
<1>6. ASSUME NEW i \in TaskIds, DeleteDuplicate(i) PROVE SeenIsMet'
  <2>1. /\ pc = "dedup" /\ urls' = urls /\ seen' = seen /\ todo' \subseteq todo
        /\ \/ pc' = "list" /\ pos' = pos + 1
           \/ pc' = "dedup" /\ pos' = pos
    BY <1>6 DEF DeleteDuplicate
  <2>2. /\ \A id \in todo \ withdrawn : Met(id, pos)
        /\ \A id \in seen \ withdrawn : Met(id, pos + 1)
    BY <2>1 DEF MetInv, SeenIsMet
  <2>3. ASSUME NEW id \in TaskIds \ withdrawn, NEW p \in Nat, Met(id, p)
        PROVE  \E j \in DOMAIN urls' : j < p /\ urls'[j] \in Addrs /\ id \in hosted'[urls'[j]]
    BY <2>1, <2>3, MetStays DEF Met
  <2>4. \A id \in todo' \ withdrawn' :
            \E j \in DOMAIN urls' : j < pos /\ urls'[j] \in Addrs /\ id \in hosted'[urls'[j]]
    BY <1>2, <2>1, <2>2, <2>3
  <2>5. \A id \in seen' \ withdrawn' :
            \E j \in DOMAIN urls' : j < pos + 1 /\ urls'[j] \in Addrs /\ id \in hosted'[urls'[j]]
    <3>1. pos + 1 \in Nat
      BY <1>2
    <3> QED
      BY <1>2, <2>1, <2>2, <2>3, <3>1
  <2> QED
    BY <2>1, <2>4, <2>5 DEF SeenIsMet, Met
<1>7. CASE UNCHANGED loop
  <2>1. urls' = urls /\ pos' = pos /\ pc' = pc /\ seen' = seen /\ todo' = todo
    BY <1>7 DEF loop
  <2>2. ASSUME NEW id \in TaskIds \ withdrawn, NEW p \in Nat, Met(id, p)
        PROVE  \E j \in DOMAIN urls' : j < p /\ urls'[j] \in Addrs /\ id \in hosted'[urls'[j]]
    BY <2>1, <2>2, MetStays DEF Met
  <2>3. pc = "list" => \A id \in seen' \ withdrawn' :
            \E j \in DOMAIN urls' : j < pos /\ urls'[j] \in Addrs /\ id \in hosted'[urls'[j]]
    BY <1>2, <2>1, <2>2 DEF MetInv, SeenIsMet
  <2>4. pc = "dedup" => \A id \in todo' \ withdrawn' :
            \E j \in DOMAIN urls' : j < pos /\ urls'[j] \in Addrs /\ id \in hosted'[urls'[j]]
    BY <1>2, <2>1, <2>2 DEF MetInv, SeenIsMet
  <2>5. pc = "dedup" => \A id \in seen' \ withdrawn' :
            \E j \in DOMAIN urls' : j < pos + 1 /\ urls'[j] \in Addrs /\ id \in hosted'[urls'[j]]
    <3>1. pos + 1 \in Nat
      BY <1>2
    <3> QED
      BY <1>2, <2>1, <2>2, <3>1 DEF MetInv, SeenIsMet
  <2> QED
    BY <1>1, <2>1, <2>3, <2>4, <2>5 DEF SeenIsMet, Met
<1> QED
  BY <1>3, <1>4, <1>5, <1>6, <1>7
     DEF Next, Updater, Loop, Network, World, StartSetAddr, SetAddrs, SetClientsAndHash,
         NoClient, ListFails, FetchAlarms, NoAlarms, RefuseTask, ChooseServer,
         CreateTask, BeginRemove, RemoveTask, EndPass, ToSleep, EditAlarm, Relist,
         Restart, Crash, DiesAndStarts, Land, Lose, vars

LEMMA MetInvInit == DistinctLists /\ Init => MetInv
<1> SUFFICES ASSUME DistinctLists, Init PROVE MetInv
  OBVIOUS
<1>1. WorldType
  BY TypeInit DEF TypeOK
<1>2. SlicesDistinct
  <2>1. Distinct(AlarmServers) /\ AlarmServers \in Seq(Addrs)
    BY <1>1, AlarmServersDistinct, AlarmServersType
  <2>2. Distinct(addrs)
    BY <2>1, FullAddrsDistinct DEF Init
  <2>3. Distinct(<<>>)
    BY DEF Distinct
  <2> QED
    BY <2>2, <2>3 DEF Init, UpdaterIdle, SlicesDistinct
<1>3. RemovesWithdrawn
  BY DEF Init, RemovesWithdrawn
<1>4. DeletesOfWithdrawn
  BY DEF Init, DeletesOfWithdrawn, Calls
<1>5. SeenIsMet
  BY DEF Init, SeenIsMet
<1> QED
  BY <1>2, <1>3, <1>4, <1>5 DEF MetInv

LEMMA MetInvNext ==
    ASSUME NoServerInGarbage, DistinctLists, TypeOK, MetInv, [Next]_vars, ~LateDelete
    PROVE  MetInv'
<1>1. SlicesDistinct'
  BY SlicesDistinctNext DEF MetInv
<1>2. RemovesWithdrawn'
  BY RemovesWithdrawnNext DEF MetInv
<1>3. DeletesOfWithdrawn'
  BY DeletesOfWithdrawnNext DEF MetInv
<1>4. SeenIsMet'
  BY SeenIsMetNext
<1> QED
  BY <1>1, <1>2, <1>3, <1>4 DEF MetInv

\* Of two copies one stays.
LEMMA MetKeepsCopies ==
    ASSUME TypeOK, MetInv, [Next]_vars, NEW id \in TaskIds \ withdrawn, Copies(id) # {}
    PROVE  Copies(id)' # {}
<1>1. PICK a \in Addrs : id \in hosted[a]
  BY DEF Copies
<1>2. CASE id \in hosted'[a]
  BY <1>2 DEF Copies
<1>3. CASE id \notin hosted'[a]
  <2>1. DeleteDuplicate(id)
    BY <1>1, <1>3, CopiesGoAsDuplicates DEF MetInv
  <2>2. Met(id, pos) /\ pos \in Nat /\ urls' = urls
    BY <2>1 DEF DeleteDuplicate, MetInv, SeenIsMet, TypeOK, LoopType
  <2>3. \E i \in DOMAIN urls' : urls'[i] \in Addrs /\ id \in hosted'[urls'[i]]
    BY <2>2, MetStays DEF Met
  <2> QED
    BY <2>3 DEF Copies
<1> QED
  BY <1>2, <1>3

(***************************************************************************)
(* The clean-up of Tasks (kapacitor.go:85) takes a last copy only if two   *)
(* machines have one address, or if a delete is executed after its caller  *)
(* gave up: otherwise no wanted or foreign task loses its last copy, in    *)
(* whatever order the registry lists the machines from pass to pass, and   *)
(* though Tasks reads Addrs while SetAddr stores it (and may read memory   *)
(* past it, which is no server's URL).                                     *)
(***************************************************************************)
THEOREM PromptDeletesKeepLastCopies ==
    NoServerInGarbage /\ DistinctLists => (Spec /\ [][~LateDelete]_vars => LastCopyKept)
<1> SUFFICES ASSUME NoServerInGarbage, DistinctLists
             PROVE  Spec /\ [][~LateDelete]_vars => LastCopyKept
  OBVIOUS
<1>1. Init => TypeOK /\ MetInv
  BY TypeInit, MetInvInit
<1>2. ASSUME TypeOK, MetInv, [Next]_vars, [~LateDelete]_vars PROVE (TypeOK /\ MetInv)'
  <2>1. TypeOK'
    BY <1>2, TypeNext
  <2>2. CASE ~LateDelete
    BY <1>2, <2>1, <2>2, MetInvNext
  <2>3. CASE UNCHANGED vars
    <3>1. pending' = pending
      BY <2>3 DEF vars, servers
    <3>2. ASSUME NEW a \in Addrs, NEW id \in TaskIds
          PROVE  ~(pending[<<"delete", a, id>>] > pending[<<"delete", a, id>>])
      <4>1. <<"delete", a, id>> \in Calls
        BY DEF Calls
      <4>2. pending[<<"delete", a, id>>] \in Nat
        BY <1>2, <4>1, KapacitorAssumption DEF TypeOK, ServersType
      <4> QED
        BY <4>2
    <3>3. ~LateDelete
      BY <3>1, <3>2 DEF LateDelete
    <3> QED
      BY <1>2, <2>1, <3>3, MetInvNext
  <2> QED
    BY <1>2, <2>2, <2>3
<1>3. ASSUME TypeOK, MetInv, [Next]_vars
      PROVE  [\A id \in TaskIds \ withdrawn' : Copies(id) # {} => Copies(id)' # {}]_vars
  BY <1>3, MetKeepsCopies, WithdrawnGrows
<1> QED
  BY <1>1, <1>2, <1>3, PTL DEF Spec, LastCopyKept

-----------------------------------------------------------------------------
(***************************************************************************)
(* The ring of the alarm module is new every three minutes, and an alarm   *)
(* moves only from a server that leaves or to one that comes               *)
(* (AlarmsMoveLittle).                                                     *)
(***************************************************************************)
OwnersMoveLittle ==
    [][\A v \in Versions :
           ring # EmptyCircle /\ ring' # EmptyCircle /\ Owner(ring, v) # Owner(ring', v) =>
               Owner(ring, v) \notin Range(ring') \/ Owner(ring', v) \notin Range(ring)]_vars

RingIsOfList == \E list \in Seq(Addrs) : ring = CircleOf(list)

LEMMA RingIsOfListInit == Init => RingIsOfList
<1> SUFFICES ASSUME Init PROVE RingIsOfList
  OBVIOUS
<1>1. AlarmServers \in Seq(Addrs)
  BY TypeInit, AlarmServersType DEF TypeOK
<1> QED
  BY <1>1 DEF Init, RingIsOfList

LEMMA RingIsOfListNext ==
    ASSUME TypeOK, RingIsOfList, [Next]_vars
    PROVE  RingIsOfList'
<1>1. AlarmServers \in Seq(Addrs) /\ updater.list \in Seq(Addrs)
  BY AlarmServersType DEF TypeOK, KapacitorType
<1>2. CASE UNCHANGED ring
  BY <1>2 DEF RingIsOfList
<1>3. CASE SetClientsAndHash
  BY <1>1, <1>3 DEF SetClientsAndHash, RingIsOfList
<1>4. CASE DiesAndStarts
  BY <1>1, <1>4 DEF DiesAndStarts, RingIsOfList
<1> QED
  BY <1>2, <1>3, <1>4
     DEF Next, Updater, Loop, Network, World, Restart, Crash, StartSetAddr, SetAddrs,
         BeginPass, NoClient, ListTasks, ListFails, DeleteDuplicate, FetchAlarms,
         NoAlarms, RefuseTask, ChooseServer, CreateTask, BeginRemove, RemoveTask,
         EndPass, EditAlarm, Relist, Land, Lose, kapacitor, vars

\* The servers on a ring are those of the list it was made of.
LEMMA RangeOfRing ==
    ASSUME NoCollision, NEW list \in Seq(Addrs)
    PROVE  Range(CircleOf(list)) = ElementsOf(list)
<1> DEFINE c == CircleOf(list)
<1>1. ASSUME NEW e \in ElementsOf(list) PROVE e \in Range(c)
  <2>1. e \in Addrs
    BY DEF ElementsOf
  <2>2. PICK h \in Points(e) : TRUE
    BY <2>1, PointsAreHashes
  <2>3. h \in DOMAIN c /\ c[h] = e
    BY CircleOfElements
  <2> QED
    BY <2>3 DEF Range
<1>2. ASSUME NEW h \in DOMAIN c PROVE c[h] \in ElementsOf(list)
  <2>1. PICK e \in ElementsOf(list) : h \in Points(e)
    BY CircleOfElements
  <2>2. c[h] = e
    BY <2>1, CircleOfElements
  <2> QED
    BY <2>2
<1> QED
  BY <1>1, <1>2 DEF Range

LEMMA EmptyListEmptyCircle == CircleOf(<<>>) = EmptyCircle
<1>1. DOMAIN CircleOf(<<>>) = {}
  BY DEF CircleOf, PutAll, Claimed, EmptyCircle
<1> QED
  BY <1>1 DEF CircleOf, PutAll, Claimed, EmptyCircle

(***************************************************************************)
(* SetAddr (kapacitor.go:38-64) and restarts make the ring again from      *)
(* whatever list the registry answers with.  If the virtual nodes of the   *)
(* servers do not collide, no alarm is given from a server that stays to   *)
(* another that stays, whereby its task would be created a second time.    *)
(***************************************************************************)
THEOREM AlarmsMoveLittle == NoCollision => (Spec => OwnersMoveLittle)
<1> SUFFICES ASSUME NoCollision PROVE Spec => OwnersMoveLittle
  OBVIOUS
<1>1. Init => TypeOK /\ RingIsOfList
  BY TypeInit, RingIsOfListInit
<1>2. TypeOK /\ RingIsOfList /\ [Next]_vars => (TypeOK /\ RingIsOfList)'
  BY TypeNext, RingIsOfListNext
<1>3. ASSUME RingIsOfList, RingIsOfList', ring # EmptyCircle, ring' # EmptyCircle,
             NEW v \in Versions, Owner(ring, v) # Owner(ring', v)
      PROVE  Owner(ring, v) \notin Range(ring') \/ Owner(ring', v) \notin Range(ring)
  <2>1. PICK old \in Seq(Addrs) : ring = CircleOf(old)
    BY <1>3 DEF RingIsOfList
  <2>2. PICK new \in Seq(Addrs) : ring' = CircleOf(new)
    BY <1>3 DEF RingIsOfList
  <2>3. old # <<>> /\ new # <<>>
    BY <1>3, <2>1, <2>2, EmptyListEmptyCircle
  <2>4. Owner(CircleOf(old), v) # Owner(CircleOf(new), v)
    BY <1>3, <2>1, <2>2
  <2>5. \/ Owner(CircleOf(old), v) \notin ElementsOf(new)
        \/ Owner(CircleOf(new), v) \notin ElementsOf(old)
    BY <2>3, <2>4, RebuildsDisturbLittle
  <2> QED
    BY <2>1, <2>2, <2>5, RangeOfRing
<1>4. RingIsOfList /\ RingIsOfList' =>
          [\A v \in Versions :
               ring # EmptyCircle /\ ring' # EmptyCircle /\ Owner(ring, v) # Owner(ring', v) =>
                   Owner(ring, v) \notin Range(ring') \/ Owner(ring', v) \notin Range(ring)]_vars
  BY <1>3
<1> QED
  BY <1>1, <1>2, <1>4, PTL DEF Spec, OwnersMoveLittle
=============================================================================
