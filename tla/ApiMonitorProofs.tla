--------------------------- MODULE ApiMonitorProofs ---------------------------
(***************************************************************************)
(* The worker of an API and its monitors, for any metas, addresses,        *)
(* timeouts and numbers of goroutines: what is sent is the story of one    *)
(* answer, a worker is not older than its API, one that was told to stop   *)
(* starts one monitor more at most, and the monitors of a worker that run  *)
(* at once are as many as a meta's timeouts fit its intervals: at every    *)
(* moment each monitor has an age, which no other of its worker shares.    *)
(***************************************************************************)
EXTENDS ApiMonitor, FiniteSetTheorems, WellFoundedInduction, TLAPS

InstType == [pc : {"none", "born", "sleep", "first", "select"}, meta : Metas,
             opened : BOOLEAN, done : BOOLEAN, next : 0 .. Interval, extra : Nat]

\* A monitor whose index may be past its loop.
LoopType == [pc : {"none", "asking", "reading", "send"}, meta : Metas,
             i : Nat \ {0}, left : 0 .. MaxTimeout,
             body : {"none", "full", "read"}, alive : {0, 1},
             code : {"none", "2xx", "other"}, match : {"none", "yes", "no"},
             whole : BOOLEAN]

MonType == [pc : {"none", "asking", "reading", "send"}, meta : Metas,
            i : 1 .. Addresses + 1, left : 0 .. MaxTimeout,
            body : {"none", "full", "read"}, alive : {0, 1},
            code : {"none", "2xx", "other"}, match : {"none", "yes", "no"},
            whole : BOOLEAN]

\* TypeOK, with a name for the type of each function.
LEMMA Types ==
    TypeOK <=> /\ up \in BOOLEAN
               /\ worker \in Workers \cup {NoWorker}
               /\ inst \in [Workers -> InstType]
               /\ mon \in [Monitors -> MonType]
               /\ since \subseteq Metas
  BY DEF TypeOK, InstType, MonType

LEMMA MinIsMember ==
    ASSUME NEW S \in SUBSET Nat, S # {}
    PROVE  Min(S) \in S
<1> DEFINE Lt == OpToRel(<, Nat)
<1>0. Lt = {ss \in Nat \X Nat : ss[1] < ss[2]}
  BY Zenon DEF OpToRel
<1>1. \A x, y \in Nat : x < y => <<x, y>> \in Lt
  BY <1>0
<1>2. IsWellFoundedOn(Lt, Nat)
  BY NatLessThanWellFounded
<1> HIDE DEF Lt
<1>3. PICK least \in S : \A g \in S : ~(<<g, least>> \in Lt)
  BY <1>2, WFMin
<1>4. ASSUME NEW g \in S PROVE least =< g
  <2>1. g \in Nat /\ least \in Nat /\ ~(g < least)
    BY <1>1, <1>3
  <2> QED
    BY <2>1
<1> QED
  BY <1>4 DEF Min

LEMMA ConstantFacts ==
    /\ AMeta \in Metas
    /\ Interval \in Nat \ {0} /\ MaxTimeout \in Nat \ {0} /\ Addresses \in Nat \ {0}
    /\ \A meta \in Metas : Timeout(meta) \in 0 .. MaxTimeout
<1>1. AMeta \in Metas
  BY ApiAssumption DEF AMeta
<1>2. ASSUME NEW meta \in Metas PROVE Timeout(meta) \in 0 .. MaxTimeout
  BY ApiAssumption DEF Timeout
<1> QED
  BY <1>1, <1>2, ApiAssumption

\* The fields of a monitor that goes to another place.
LEMMA MovedFacts ==
    ASSUME NEW this \in LoopType, NEW pc \in {"none", "asking", "reading", "send"},
           NEW i \in 1 .. Addresses + 1, NEW left \in 0 .. MaxTimeout
    PROVE  LET next == At(this, pc, i, left)
           IN  /\ next \in MonType
               /\ next.pc = pc /\ next.i = i
               /\ next.meta = this.meta /\ next.body = this.body /\ next.alive = this.alive
               /\ next.code = this.code /\ next.match = this.match /\ next.whole = this.whole
<1> DEFINE one == [this EXCEPT !.pc = pc]
           two == [one EXCEPT !.i = i]
           next == [two EXCEPT !.left = left]
<1>1. /\ one \in LoopType /\ one.pc = pc
      /\ one.meta = this.meta /\ one.body = this.body /\ one.alive = this.alive
      /\ one.code = this.code /\ one.match = this.match /\ one.whole = this.whole
  BY DEF LoopType
<1> HIDE DEF one
<1>2. /\ two \in MonType /\ two.i = i /\ two.pc = one.pc
      /\ two.meta = one.meta /\ two.body = one.body /\ two.alive = one.alive
      /\ two.code = one.code /\ two.match = one.match /\ two.whole = one.whole
  BY <1>1 DEF LoopType, MonType
<1> HIDE DEF two
<1>3. /\ next \in MonType /\ next.i = two.i /\ next.pc = two.pc
      /\ next.meta = two.meta /\ next.body = two.body /\ next.alive = two.alive
      /\ next.code = two.code /\ next.match = two.match /\ next.whole = two.whole
  BY <1>2 DEF MonType
<1> HIDE DEF next
<1>4. next = At(this, pc, i, left)
  BY DEF one, two, next, At
<1> QED
  BY <1>1, <1>2, <1>3, <1>4

\* The loop of monitorAPI keeps all but the place and the timeout, and it does
\* not go back.
LEMMA NextRequestFacts ==
    ASSUME NEW this \in LoopType
    PROVE  /\ NextRequest(this) \in MonType
           /\ \/ NextRequest(this).pc = "asking" /\ NextRequest(this).i >= this.i
              \/ NextRequest(this).pc = "send" /\ NextRequest(this).i = Addresses + 1
           /\ NextRequest(this).meta = this.meta /\ NextRequest(this).body = this.body
           /\ NextRequest(this).alive = this.alive /\ NextRequest(this).code = this.code
           /\ NextRequest(this).match = this.match /\ NextRequest(this).whole = this.whole
<1> DEFINE rest == {k \in Requestable : k >= this.i}
<1>1. CASE rest = {}
  <2>1. NextRequest(this) = At(this, "send", Addresses + 1, 0)
    BY <1>1 DEF NextRequest
  <2>2. Addresses + 1 \in 1 .. Addresses + 1 /\ 0 \in 0 .. MaxTimeout
    BY ConstantFacts
  <2>3. /\ NextRequest(this) \in MonType
        /\ NextRequest(this).pc = "send" /\ NextRequest(this).i = Addresses + 1
        /\ NextRequest(this).meta = this.meta /\ NextRequest(this).body = this.body
        /\ NextRequest(this).alive = this.alive /\ NextRequest(this).code = this.code
        /\ NextRequest(this).match = this.match /\ NextRequest(this).whole = this.whole
    BY <2>1, <2>2, MovedFacts
  <2> QED
    BY <2>3
<1>2. CASE rest # {}
  <2> DEFINE least == Min(rest)
  <2>1. least \in rest
    BY <1>2, MinIsMember, ApiAssumption
  <2>2. NextRequest(this) = At(this, "asking", least, Timeout(this.meta))
    BY <1>2 DEF NextRequest
  <2> HIDE DEF least
  <2>3. least \in Requestable /\ least >= this.i
    BY <2>1
  <2>4. least \in 1 .. Addresses + 1
    BY <2>3, ApiAssumption
  <2>5. Timeout(this.meta) \in 0 .. MaxTimeout
    BY ConstantFacts DEF LoopType
  <2>6. /\ NextRequest(this) \in MonType
        /\ NextRequest(this).pc = "asking" /\ NextRequest(this).i = least
        /\ NextRequest(this).meta = this.meta /\ NextRequest(this).body = this.body
        /\ NextRequest(this).alive = this.alive /\ NextRequest(this).code = this.code
        /\ NextRequest(this).match = this.match /\ NextRequest(this).whole = this.whole
    BY <2>2, <2>4, <2>5, MovedFacts
  <2> QED
    BY <2>3, <2>6
<1> QED
  BY <1>1, <1>2
-----------------------------------------------------------------------------
\* What a monitor knows at each place, of which ReportTellsOneAnswer is a part.
Told1(this) ==
    /\ this.pc = "asking" =>
          /\ this.alive = 0 /\ this.code = "none" /\ this.match = "none" /\ this.whole
          /\ this.body = "read" => this.i > 1
    /\ this.pc = "reading" =>
          /\ this.alive = 1 <=> this.code = "2xx"
          /\ this.code # "none" /\ this.match = "none"
          /\ ~this.whole => this.i > 1
    /\ this.pc = "send" =>
          /\ this.alive = 1 <=> this.code = "2xx"
          /\ this.match # "none" => this.code # "none"
          /\ this.code = "none" => this.i > Addresses
          /\ ~this.whole => this.i > 1

ToldOnce == \A m \in Monitors : Told1(mon[m])

LEMMA FirstRequestFacts ==
    ASSUME NEW meta \in Metas
    PROVE  NextRequest(Monitor(meta)) \in MonType /\ Told1(NextRequest(Monitor(meta)))
<1>1. Monitor(meta) \in LoopType
  BY ApiAssumption DEF Monitor, LoopType
<1> QED
  BY <1>1, NextRequestFacts, ConstantFacts DEF Monitor, Told1, MonType

\* The actions that move one monitor, and the state it moves to.
LEMMA MonitorMoves ==
    ASSUME NEW m \in Monitors, NEW now \in MonType, Told1(now),
           mon \in [Monitors -> MonType], ToldOnce, mon' = [mon EXCEPT ![m] = now]
    PROVE  mon' \in [Monitors -> MonType] /\ ToldOnce'
  BY DEF ToldOnce

LEMMA MonitoringFacts ==
    ASSUME NEW w \in Workers, TypeOK, ToldOnce, Monitoring(w)
    PROVE  mon' \in [Monitors -> MonType] /\ ToldOnce'
<1>1. PICK k \in Slots : mon' = [mon EXCEPT ![<<w, k>>] = NextRequest(Monitor(inst[w].meta))]
  BY DEF Monitoring
<1>2. inst[w].meta \in Metas
  BY Types DEF InstType
<1>3. <<w, k>> \in Monitors
  BY DEF Monitors
<1> QED
  BY <1>1, <1>2, <1>3, FirstRequestFacts, MonitorMoves, Types

LEMMA NoMonitorFacts == NoMonitor \in MonType /\ NoMonitor.pc = "none" /\ Told1(NoMonitor)
<1> DEFINE first == Monitor(AMeta)
           one == [first EXCEPT !.pc = "none"]
           two == [one EXCEPT !.body = "none"]
<1>1. first \in MonType
  BY ConstantFacts, ApiAssumption DEF Monitor, MonType
<1> HIDE DEF first
<1>2. one \in MonType /\ one.pc = "none"
  BY <1>1 DEF MonType
<1> HIDE DEF one
<1>3. two \in MonType /\ two.pc = "none"
  BY <1>2 DEF MonType
<1> HIDE DEF two
<1>4. NoMonitor = two
  BY DEF NoMonitor, first, one, two
<1> QED
  BY <1>3, <1>4 DEF Told1

LEMMA MonitorStepFacts ==
    ASSUME NEW m \in Monitors, TypeOK, ToldOnce, MonitorStep(m)
    PROVE  mon' \in [Monitors -> MonType] /\ ToldOnce'
<1>0. mon \in [Monitors -> MonType] /\ mon[m] \in MonType /\ Told1(mon[m])
  BY Types DEF ToldOnce
<1>1. CASE RequestFails(m)
  <2>1. PICK body \in {mon[m].body, IF HasBody[mon[m].meta] THEN "read" ELSE "none"} :
            Goes(m, "asking", NextRequest([mon[m] EXCEPT !.i = @ + 1, !.body = body]))
    BY <1>1 DEF RequestFails
  <2> DEFINE next == [mon[m] EXCEPT !.i = @ + 1]
             this == [next EXCEPT !.body = body]
  <2>2. body \in {"none", "full", "read"} /\ mon[m].pc = "asking"
    BY <1>0, <2>1 DEF MonType, Goes
  <2>3. next \in LoopType /\ next.i > 1 /\ next.alive = 0 /\ next.code = "none"
        /\ next.match = "none" /\ next.whole
    BY <1>0, <2>2, ConstantFacts DEF MonType, LoopType, Told1
  <2> HIDE DEF next
  <2>4. this \in LoopType /\ this.i > 1 /\ this.alive = 0 /\ this.code = "none"
        /\ this.match = "none" /\ this.whole
    BY <2>2, <2>3 DEF LoopType
  <2> HIDE DEF this
  <2>5. this = [mon[m] EXCEPT !.i = @ + 1, !.body = body]
    BY DEF this, next
  <2>6. mon' = [mon EXCEPT ![m] = NextRequest(this)]
    BY <2>1, <2>5 DEF Goes
  <2>7. NextRequest(this) \in MonType /\ Told1(NextRequest(this))
    <3> DEFINE there == NextRequest(this)
    <3>1. this \in LoopType
      BY <2>4
    <3>2. /\ there \in MonType
          /\ \/ there.pc = "asking" /\ there.i >= this.i
             \/ there.pc = "send" /\ there.i = Addresses + 1
          /\ there.alive = this.alive /\ there.code = this.code
          /\ there.match = this.match /\ there.whole = this.whole
      BY <3>1, NextRequestFacts
    <3>3. there.alive = 0 /\ there.code = "none" /\ there.match = "none" /\ there.whole
      BY <2>4, <3>2
    <3>4. this.i \in Nat /\ this.i > 1
      BY <2>4 DEF LoopType
    <3> HIDE DEF there
    <3> QED
      BY <3>3, <3>4, <3>2, ConstantFacts DEF Told1, MonType, there
  <2> QED
    BY <1>0, <2>6, <2>7, MonitorMoves
<1>2. ASSUME NEW code \in {"2xx", "other"}, Answer(m, code)
      PROVE  mon' \in [Monitors -> MonType] /\ ToldOnce'
  <2> DEFINE this == [mon[m] EXCEPT !.alive = IF code = "2xx" THEN 1 ELSE @,
                                    !.code = code,
                                    !.whole = mon[m].body # "read",
                                    !.body = IF @ = "full" THEN "read" ELSE @]
             one == [mon[m] EXCEPT !.alive = IF code = "2xx" THEN 1 ELSE @]
             two == [one EXCEPT !.code = code]
             three == [two EXCEPT !.whole = mon[m].body # "read"]
             four == [three EXCEPT !.body = IF @ = "full" THEN "read" ELSE @]
             now == [four EXCEPT !.pc = "send"]
  <2>1. mon[m].pc = "asking" /\ mon' = [mon EXCEPT ![m] = Answered(this)]
    BY <1>2 DEF Answer, Goes
  <2>2. one \in MonType /\ (one.alive = 1 <=> code = "2xx") /\ one.match = "none"
        /\ one.i = mon[m].i
    BY <1>0, <2>1 DEF MonType, Told1
  <2> HIDE DEF one
  <2>3. two \in MonType /\ two.alive = one.alive /\ two.code = code /\ two.match = "none"
        /\ two.i = one.i
    BY <1>2, <2>2 DEF MonType
  <2> HIDE DEF two
  <2>4. three \in MonType /\ three.alive = two.alive /\ three.code = code
        /\ three.match = "none" /\ three.i = two.i
        /\ (three.whole <=> mon[m].body # "read")
    BY <2>3 DEF MonType
  <2> HIDE DEF three
  <2>5. four \in MonType /\ four.alive = three.alive /\ four.code = code
        /\ four.match = "none" /\ four.i = three.i /\ (four.whole <=> three.whole)
    BY <2>4 DEF MonType
  <2> HIDE DEF four
  <2>6. this = four
    BY DEF one, two, three, four
  <2> HIDE DEF this
  <2>7. /\ four.alive = 1 <=> four.code = "2xx"
        /\ four.code # "none" /\ four.match = "none"
        /\ ~four.whole => four.i > 1
    BY <1>0, <1>2, <2>1, <2>2, <2>3, <2>4, <2>5 DEF Told1
  <2>8. ASSUME NEW pc \in {"send", "reading"}
        PROVE  LET there == [four EXCEPT !.pc = pc]
               IN  there \in MonType /\ Told1(there)
    BY <2>5, <2>7 DEF MonType, Told1
  <2>9. CASE Pattern[four.meta] # "none"
    BY <1>0, <2>1, <2>6, <2>8, <2>9, MonitorMoves DEF Answered
  <2>10. CASE Pattern[four.meta] = "none"
    <3> HIDE DEF now
    <3>1. now \in MonType /\ Told1(now)
      BY <2>8 DEF now
    <3>2. LET there == [now EXCEPT !.left = 0]
          IN  there \in MonType /\ Told1(there)
      BY <3>1, ConstantFacts DEF MonType, Told1
    <3>3. Answered(four) = [now EXCEPT !.left = 0]
      BY <2>10 DEF Answered, now
    <3> QED
      BY <1>0, <2>1, <2>6, <3>2, <3>3, MonitorMoves
  <2> QED
    BY <2>9, <2>10
<1>3. CASE Match(m)
  <2>1. PICK match \in {"yes", "no"} :
            Goes(m, "reading", [mon[m] EXCEPT !.pc = "send", !.match = match, !.left = 0])
    BY <1>3 DEF Match
  <2> DEFINE one == [mon[m] EXCEPT !.pc = "send"]
             two == [one EXCEPT !.match = match]
             now == [two EXCEPT !.left = 0]
  <2>2. mon[m].pc = "reading"
    BY <2>1 DEF Goes
  <2>3. one \in MonType /\ Told1(one) /\ one.pc = "send" /\ one.code # "none"
    BY <1>0, <2>2 DEF MonType, Told1
  <2> HIDE DEF one
  <2>4. two \in MonType /\ Told1(two) /\ two.pc = "send"
    BY <2>3 DEF MonType, Told1
  <2> HIDE DEF two
  <2>5. now \in MonType /\ Told1(now)
    BY <2>4, ConstantFacts DEF MonType, Told1
  <2> HIDE DEF now
  <2>6. now = [mon[m] EXCEPT !.pc = "send", !.match = match, !.left = 0]
    BY DEF one, two, now
  <2>7. mon' = [mon EXCEPT ![m] = now]
    BY <2>1, <2>6 DEF Goes
  <2> QED
    BY <1>0, <2>5, <2>7, MonitorMoves
<1>4. CASE Send(m)
  BY <1>0, <1>4, NoMonitorFacts, MonitorMoves DEF Send
<1>5. CASE Panic(m)
  BY <1>5, NoMonitorFacts DEF Panic, Forget, Silent, ToldOnce
<1> QED
  BY <1>1, <1>2, <1>3, <1>4, <1>5 DEF MonitorStep

LEMMA MonNext ==
    ASSUME TypeOK, ToldOnce, [Next]_vars
    PROVE  mon' \in [Monitors -> MonType] /\ ToldOnce'
<1>0. mon \in [Monitors -> MonType]
  BY Types
<1>1. CASE UNCHANGED mon
  BY <1>0, <1>1 DEF ToldOnce
<1>2. ASSUME NEW w \in Workers, Monitoring(w) PROVE mon' \in [Monitors -> MonType] /\ ToldOnce'
  BY <1>2, MonitoringFacts
<1>3. ASSUME NEW m \in Monitors, MonitorStep(m)
      PROVE  mon' \in [Monitors -> MonType] /\ ToldOnce'
  BY <1>3, MonitorStepFacts
<1>4. CASE Time
  <2>1. ASSUME NEW m \in Monitors PROVE mon'[m] \in MonType /\ Told1(mon'[m])
    <3>1. mon[m] \in MonType /\ Told1(mon[m])
      BY <1>0 DEF ToldOnce
    <3>2. CASE m \notin Asking
      BY <1>4, <3>1, <3>2 DEF Time
    <3>3. CASE m \in Asking
      <4>1. mon'[m] = [mon[m] EXCEPT !.left = @ - 1] /\ mon[m].left > 0
        BY <1>4, <3>3 DEF Time
      <4> QED
        BY <3>1, <4>1, ConstantFacts DEF MonType, Told1
    <3> QED
      BY <3>2, <3>3
  <2>2. mon' = [m \in Monitors |-> mon'[m]]
    BY <1>4 DEF Time
  <2> QED
    BY <2>1, <2>2 DEF ToldOnce
<1>5. CASE Restart
  BY <1>5, NoMonitorFacts DEF Restart, Forget, Silent, ToldOnce
<1> QED
  BY <1>1, <1>2, <1>3, <1>4, <1>5
     DEF Next, Do, Run, RunBegins, FirstMonitor, Tick, Exit, vars

LEMMA InstConstants ==
    /\ Nobody \in InstType
    /\ \A meta \in Metas : NewAPIWorker(meta) \in InstType
<1>1. \A meta \in Metas : NewAPIWorker(meta) \in InstType
  BY ConstantFacts DEF NewAPIWorker, InstType
<1>2. NewAPIWorker(AMeta) \in InstType
  BY <1>1, ConstantFacts
<1>3. Nobody \in InstType
  BY <1>2 DEF Nobody, InstType
<1> QED
  BY <1>1, <1>3
-----------------------------------------------------------------------------
\* What an APIWorker was told, and started since.
Life(this) ==
    /\ this.pc = "born" => ~this.opened /\ ~this.done
    /\ this.done => ~this.opened
    /\ this.extra <= 1
    /\ ~this.done => this.extra = 0
    /\ this.done /\ this.pc = "sleep" => this.extra = 0
    /\ this.done /\ this.pc = "select" /\ this.extra = 1 => this.next > 0

Lives == \A w \in Workers : Life(inst[w])

\* The worker in the table was not told to stop, and its API is that of an answer.
TableIsFresh == worker # NoWorker => ~inst[worker].done /\ inst[worker].meta \in since

LEMMA WorkerMoves ==
    ASSUME NEW w \in Workers, NEW now \in InstType, Life(now), inst \in [Workers -> InstType],
           Lives, inst' = [inst EXCEPT ![w] = now]
    PROVE  inst' \in [Workers -> InstType] /\ Lives'
  BY DEF Lives

LEMMA ConstantLives == Life(Nobody) /\ \A meta \in Metas : Life(NewAPIWorker(meta))
<1>1. \A meta \in Metas : Life(NewAPIWorker(meta))
  BY DEF NewAPIWorker, Life
<1>2. ~Nobody.opened /\ ~Nobody.done /\ Nobody.extra = 0 /\ Nobody.pc = "none"
  BY DEF Nobody, NewAPIWorker
<1> QED
  BY <1>1, <1>2 DEF Life

LEMMA DoKeeps ==
    ASSUME TypeOK, Lives, TableIsFresh, NEW answer \in SUBSET Metas, Do(answer)
    PROVE  inst' \in [Workers -> InstType] /\ Lives' /\ TableIsFresh'
<1>0. inst \in [Workers -> InstType] /\ worker \in Workers \cup {NoWorker}
  BY Types
<1>1. CASE Keep(answer) /\ worker # NoWorker
  BY <1>0, <1>1 DEF Keep, Lives, TableIsFresh
<1>2. CASE Keep(answer) /\ worker = NoWorker
  <2>1. PICK w \in Workers, meta \in answer :
            worker' = w /\ inst' = [inst EXCEPT ![w] = NewAPIWorker(meta)]
    BY <1>2 DEF Keep
  <2>2. inst' \in [Workers -> InstType] /\ Lives'
    BY <1>0, <2>1, InstConstants, ConstantLives, WorkerMoves
  <2>3. inst'[w] = NewAPIWorker(meta)
    BY <1>0, <2>1
  <2>4. ~NewAPIWorker(meta).done /\ NewAPIWorker(meta).meta = meta
    BY DEF NewAPIWorker
  <2> QED
    BY <1>2, <2>1, <2>2, <2>3, <2>4 DEF Keep, TableIsFresh
<1>3. CASE Remove
  <2>1. worker \in Workers /\ inst[worker] \in InstType /\ Life(inst[worker])
    BY <1>0, <1>3 DEF Remove, Lives
  <2> DEFINE closed == [inst[worker] EXCEPT !.opened = FALSE]
             told == [closed EXCEPT !.done = TRUE]
  <2>2. Stopped(worker) \in InstType /\ Life(Stopped(worker))
    <3>1. CASE inst[worker].opened
      <4>1. closed \in InstType /\ Life(closed) /\ ~closed.opened /\ closed.extra = 0
            /\ closed.pc # "born"
        BY <2>1, <3>1 DEF InstType, Life
      <4> HIDE DEF closed
      <4>2. /\ told \in InstType /\ ~told.opened /\ told.extra = 0 /\ told.pc # "born"
        BY <4>1 DEF InstType
      <4> HIDE DEF told
      <4>3. Life(told)
        BY <4>2 DEF Life
      <4>4. Stopped(worker) = told
        BY <3>1 DEF Stopped, closed, told
      <4> QED
        BY <4>2, <4>3, <4>4
    <3> QED
      BY <2>1, <3>1 DEF Stopped
  <2>3. inst' \in [Workers -> InstType] /\ Lives'
    BY <1>0, <1>3, <2>1, <2>2, WorkerMoves DEF Remove
  <2> QED
    BY <1>3, <2>3 DEF Remove, TableIsFresh
<1> QED
  BY <1>1, <1>2, <1>3 DEF Do

LEMMA RunKeeps ==
    ASSUME TypeOK, Lives, TableIsFresh, NEW w \in Workers, Run(w)
    PROVE  inst' \in [Workers -> InstType] /\ Lives' /\ TableIsFresh'
<1>0. /\ inst \in [Workers -> InstType] /\ worker \in Workers \cup {NoWorker}
      /\ inst[w] \in InstType /\ Life(inst[w])
  BY Types DEF Lives
<1>1. ASSUME NEW now \in InstType, Life(now), inst' = [inst EXCEPT ![w] = now],
             worker' = worker, since' = since,
             worker = w => ~now.done /\ now.meta = inst[w].meta
      PROVE  inst' \in [Workers -> InstType] /\ Lives' /\ TableIsFresh'
  BY <1>0, <1>1, WorkerMoves DEF TableIsFresh
<1>2. CASE RunBegins(w)
  <2> DEFINE begun == [inst[w] EXCEPT !.pc = "sleep"]
             now == [begun EXCEPT !.opened = TRUE]
  <2>1. ~inst[w].opened /\ ~inst[w].done /\ inst[w].extra = 0
    BY <1>0, <1>2 DEF RunBegins, Life
  <2>2. begun \in InstType /\ begun.pc = "sleep" /\ ~begun.done /\ begun.extra = 0
        /\ begun.meta = inst[w].meta
    BY <1>0, <2>1 DEF InstType
  <2> HIDE DEF begun
  <2>3. now \in InstType /\ now.pc = "sleep" /\ ~now.done /\ now.extra = 0
        /\ now.meta = inst[w].meta
    BY <2>2 DEF InstType
  <2> HIDE DEF now
  <2>4. now = [inst[w] EXCEPT !.pc = "sleep", !.opened = TRUE]
    BY DEF begun, now
  <2>5. inst' = [inst EXCEPT ![w] = now]
    BY <1>0, <1>2, <2>1, <2>4 DEF RunBegins
  <2>6. Life(now)
    BY <2>3 DEF Life
  <2> QED
    BY <1>1, <1>2, <2>3, <2>5, <2>6 DEF RunBegins
<1>3. CASE FirstMonitor(w)
  <2> DEFINE first == [inst[w] EXCEPT !.pc = "first"]
             now == [first EXCEPT !.extra = Extra(w)]
  <2>1. /\ Extra(w) \in {0, 1}
        /\ ~inst[w].done => Extra(w) = 0
    BY <1>0, <1>3 DEF FirstMonitor, Life, Extra
  <2>2. first \in InstType /\ first.pc = "first" /\ first.meta = inst[w].meta
        /\ (first.done <=> inst[w].done) /\ (first.opened <=> inst[w].opened)
    BY <1>0 DEF InstType
  <2> HIDE DEF first
  <2>3. now \in InstType /\ now.pc = "first" /\ now.meta = inst[w].meta
        /\ (now.done <=> inst[w].done) /\ (now.opened <=> inst[w].opened)
        /\ now.extra = Extra(w)
    BY <2>1, <2>2 DEF InstType
  <2> HIDE DEF now
  <2>4. Life(now)
    BY <1>0, <2>1, <2>3 DEF Life
  <2>5. now = [inst[w] EXCEPT !.pc = "first", !.extra = Extra(w)]
    BY DEF first, now
  <2>6. inst' = [inst EXCEPT ![w] = now]
    BY <1>0, <1>3, <2>5 DEF FirstMonitor
  <2>7. worker = w => ~now.done
    BY <2>3, ApiAssumption DEF TableIsFresh
  <2> QED
    BY <1>1, <1>3, <2>3, <2>4, <2>6, <2>7 DEF FirstMonitor
<1>4. CASE Tick(w)
  <2> DEFINE later == [inst[w] EXCEPT !.next = Interval]
             now == [later EXCEPT !.extra = Extra(w)]
  <2>1. /\ Extra(w) \in {0, 1}
        /\ ~inst[w].done => Extra(w) = 0
    BY <1>0, <1>4 DEF Tick, Life, Extra, InstType
  <2>2. later \in InstType /\ later.pc = "select" /\ later.meta = inst[w].meta
        /\ (later.done <=> inst[w].done) /\ (later.opened <=> inst[w].opened)
        /\ later.next = Interval
    BY <1>0, <1>4, ConstantFacts DEF InstType, Tick
  <2> HIDE DEF later
  <2>3. now \in InstType /\ now.pc = "select" /\ now.meta = inst[w].meta
        /\ (now.done <=> inst[w].done) /\ (now.opened <=> inst[w].opened)
        /\ now.next = Interval /\ now.extra = Extra(w)
    BY <2>1, <2>2 DEF InstType
  <2> HIDE DEF now
  <2>4. Life(now)
    BY <1>0, <2>1, <2>3, ConstantFacts DEF Life
  <2>5. now = [inst[w] EXCEPT !.next = Interval, !.extra = Extra(w)]
    BY DEF later, now
  <2>6. inst' = [inst EXCEPT ![w] = now]
    BY <1>0, <1>4, <2>5 DEF Tick
  <2>7. worker = w => ~now.done
    BY <2>3, ApiAssumption DEF TableIsFresh
  <2> QED
    BY <1>1, <1>4, <2>3, <2>4, <2>6, <2>7 DEF Tick
<1>5. CASE Exit(w)
  <2>1. inst' = [inst EXCEPT ![w] = Nobody] /\ worker' = worker /\ since' = since
    BY <1>5 DEF Exit
  <2>2. inst[w].done
    BY <1>5 DEF Exit, Told
  <2>3. worker # w
    BY <2>2, ApiAssumption DEF TableIsFresh
  <2> QED
    BY <1>1, <2>1, <2>3, InstConstants, ConstantLives
<1> QED
  BY <1>2, <1>3, <1>4, <1>5 DEF Run

LEMMA SendKeeps ==
    ASSUME TypeOK, Lives, TableIsFresh, NEW m \in Monitors, Send(m)
    PROVE  inst' \in [Workers -> InstType] /\ Lives' /\ TableIsFresh'
<1> DEFINE w == m[1]
           ticking == [inst[w] EXCEPT !.pc = "select"]
           now == [ticking EXCEPT !.next = Interval]
<1>0. /\ inst \in [Workers -> InstType] /\ w \in Workers
      /\ inst[w] \in InstType /\ Life(inst[w]) /\ UNCHANGED <<worker, since>>
  BY Types DEF Lives, Monitors, Send
<1>1. CASE inst[w].pc # "first"
  BY <1>0, <1>1 DEF Send, Lives, TableIsFresh
<1>2. CASE inst[w].pc = "first"
  <2>1. ticking \in InstType /\ ticking.pc = "select" /\ ticking.meta = inst[w].meta
        /\ (ticking.done <=> inst[w].done) /\ (ticking.opened <=> inst[w].opened)
        /\ ticking.extra = inst[w].extra
    BY <1>0 DEF InstType
  <2> HIDE DEF ticking
  <2>2. now \in InstType /\ now.pc = "select" /\ now.meta = inst[w].meta
        /\ (now.done <=> inst[w].done) /\ (now.opened <=> inst[w].opened)
        /\ now.extra = inst[w].extra /\ now.next = Interval
    BY <2>1, ConstantFacts DEF InstType
  <2> HIDE DEF now
  <2>3. Life(now)
    BY <1>0, <2>2, ConstantFacts DEF Life
  <2>4. now = [inst[w] EXCEPT !.pc = "select", !.next = Interval]
    BY DEF ticking, now
  <2>5. inst' = [inst EXCEPT ![w] = now]
    BY <1>0, <1>2, <2>4 DEF Send
  <2>6. inst' \in [Workers -> InstType] /\ Lives'
    BY <1>0, <2>2, <2>3, <2>5, WorkerMoves
  <2>7. \A v \in Workers : (inst'[v].done <=> inst[v].done) /\ inst'[v].meta = inst[v].meta
    BY <1>0, <2>2, <2>5
  <2> QED
    BY <1>0, <2>6, <2>7, Types DEF TableIsFresh
<1> QED
  BY <1>1, <1>2

LEMMA TimeKeeps ==
    ASSUME TypeOK, Lives, TableIsFresh, Time
    PROVE  inst' \in [Workers -> InstType] /\ Lives' /\ TableIsFresh'
<1>1. ASSUME NEW w \in Workers
      PROVE  /\ inst'[w] \in InstType /\ Life(inst'[w])
             /\ (inst'[w].done <=> inst[w].done) /\ inst'[w].meta = inst[w].meta
  <2>0. inst[w] \in InstType /\ Life(inst[w])
    BY Types DEF Lives
  <2>1. CASE w \notin Waiting
    BY <2>0, <2>1 DEF Time
  <2>2. CASE w \in Waiting
    <3>1. /\ inst'[w] = [inst[w] EXCEPT !.next = @ - 1]
          /\ inst[w].next > 0 /\ ~inst[w].done /\ inst[w].pc = "select"
      BY <2>2 DEF Time, Told, Waiting
    <3>2. inst'[w] \in InstType /\ inst'[w].pc = "select" /\ ~inst'[w].done
          /\ inst'[w].extra = inst[w].extra /\ inst'[w].meta = inst[w].meta
      BY <2>0, <3>1, ConstantFacts DEF InstType
    <3>3. Life(inst'[w])
      BY <2>0, <3>1, <3>2 DEF Life
    <3> QED
      BY <3>1, <3>2, <3>3
  <2> QED
    BY <2>1, <2>2
<1>2. inst' = [w \in Workers |-> inst'[w]] /\ UNCHANGED <<worker, since>>
  BY DEF Time
<1> QED
  BY <1>1, <1>2, Types DEF Lives, TableIsFresh

LEMMA InstNext ==
    ASSUME TypeOK, Lives, TableIsFresh, [Next]_vars
    PROVE  inst' \in [Workers -> InstType] /\ Lives' /\ TableIsFresh'
<1>1. CASE UNCHANGED <<worker, inst, since>>
  BY <1>1, Types DEF Lives, TableIsFresh
<1>2. CASE Forget
  BY <1>2, InstConstants, ConstantLives DEF Forget, NoInst, Lives, TableIsFresh
<1>3. ASSUME NEW m \in Monitors, MonitorStep(m)
      PROVE  inst' \in [Workers -> InstType] /\ Lives' /\ TableIsFresh'
  <2>1. CASE Send(m)
    BY <2>1, SendKeeps
  <2> QED
    BY <1>1, <1>2, <1>3, <2>1 DEF MonitorStep, RequestFails, Panic, Match, Answer, Goes
<1> QED
  BY <1>1, <1>2, <1>3, DoKeeps, RunKeeps, TimeKeeps DEF Next, Restart, vars
-----------------------------------------------------------------------------
ApiInv == TypeOK /\ ToldOnce /\ Lives /\ TableIsFresh

LEMMA ApiInvInit == Init => ApiInv
<1> SUFFICES ASSUME Init PROVE ApiInv
  OBVIOUS
<1>1. TypeOK
  BY Types, InstConstants, NoMonitorFacts DEF Init, NoInst, Silent
<1>2. ToldOnce
  BY NoMonitorFacts DEF Init, Silent, ToldOnce
<1>3. Lives /\ TableIsFresh
  BY ConstantLives DEF Init, NoInst, Lives, TableIsFresh
<1> QED
  BY <1>1, <1>2, <1>3 DEF ApiInv

LEMMA ApiInvNext == ApiInv /\ [Next]_vars => ApiInv'
<1> SUFFICES ASSUME ApiInv, [Next]_vars PROVE ApiInv'
  OBVIOUS
<1>1. TypeOK /\ ToldOnce /\ Lives /\ TableIsFresh
  BY DEF ApiInv
<1>2. mon' \in [Monitors -> MonType] /\ ToldOnce'
  BY <1>1, MonNext
<1>3. inst' \in [Workers -> InstType] /\ Lives' /\ TableIsFresh'
  BY <1>1, InstNext
<1>4. up' \in BOOLEAN /\ worker' \in Workers \cup {NoWorker} /\ since' \subseteq Metas
  BY <1>1, Types
     DEF Next, vars, Do, Keep, Remove, Run, RunBegins, FirstMonitor, Tick, Exit, MonitorStep,
         RequestFails, Panic, Match, Answer, Send, Goes, Time, Restart, Forget
<1>5. TypeOK'
  BY <1>2, <1>3, <1>4 DEF TypeOK, InstType, MonType
<1> QED
  BY <1>2, <1>3, <1>5 DEF ApiInv

\* worker.go: the types, for any number of workers, monitors and addresses.
THEOREM ApiTypes == Spec => []TypeOK
<1>1. ApiInv => TypeOK
  BY DEF ApiInv
<1> QED
  BY ApiInvInit, ApiInvNext, <1>1, PTL DEF Spec

\* What monitorAPI hands to Send (lines 156-240) is the story of one answer.
THEOREM ReportsTellOneAnswer == Spec => []ReportTellsOneAnswer
<1>1. ApiInv => ReportTellsOneAnswer
  BY DEF ApiInv, ToldOnce, Told1, ReportTellsOneAnswer
<1> QED
  BY ApiInvInit, ApiInvNext, <1>1, PTL DEF Spec

\* Do (lines 44-70) keeps a worker with an old meta only while the key stays.
THEOREM WorkersAreFresh == Spec => []StaleOnlyWithoutGap
<1>1. ApiInv => StaleOnlyWithoutGap
  BY DEF ApiInv, TableIsFresh, StaleOnlyWithoutGap
<1> QED
  BY ApiInvInit, ApiInvNext, <1>1, PTL DEF Spec

\* A stopped worker (lines 135-154) starts one monitor more at most.
THEOREM StoppedStartOneMore == Spec => []OneMoreAfterStop
<1>1. ApiInv => OneMoreAfterStop
  BY DEF ApiInv, Lives, Life, OneMoreAfterStop
<1> QED
  BY ApiInvInit, ApiInvNext, <1>1, PTL DEF Spec

-----------------------------------------------------------------------------
(* How many monitors a worker can have.  A monitor is not older than the   *)
(* timeouts of the addresses it has asked, and the monitors of a worker    *)
(* were started at ticks, an interval apart: so their ages, of which the   *)
(* state keeps no record, are numbers below the longest that a monitor can *)
(* take and an interval apart.                                             *)

\* The longest that a monitor can have lived.
Used(this) ==
    IF this.pc = "send" THEN Addresses * Timeout(this.meta)
    ELSE this.i * Timeout(this.meta) - this.left

InLoop(this) == this.pc \in {"asking", "reading"} => this.i <= Addresses

Apart(x, y) == x + Interval <= y \/ y + Interval <= x

Aged(age) ==
    /\ \A m \in Monitors : mon[m].pc # "none" => age[m] <= Used(mon[m])
    /\ \A w \in Workers : \A j, k \in Of(w) : j # k => Apart(age[<<w, j>>], age[<<w, k>>])
    /\ \A w \in Workers : inst[w].pc = "select" =>
          \A k \in Of(w) : age[<<w, k>>] >= Interval - inst[w].next

\* The monitors of a worker have its meta, and it has none before its first one.
Kin ==
    /\ \A m \in Monitors : InLoop(mon[m])
    /\ \A w \in Workers :
          /\ inst[w].pc \in {"born", "sleep"} => Of(w) = {}
          /\ \A k \in Of(w) : inst[w].pc # "none" => mon[<<w, k>>].meta = inst[w].meta
          /\ \A j, k \in Of(w) : mon[<<w, j>>].meta = mon[<<w, k>>].meta

AgeInv == Kin /\ \E age \in [Monitors -> Nat] : Aged(age)

LEMMA TimesGrow ==
    ASSUME NEW a \in Nat, NEW b \in Nat, NEW t \in Nat, a <= b
    PROVE  a * t <= b * t /\ a * t \in Nat /\ b * t \in Nat
<1>1. (b - a) * t >= 0
  OBVIOUS
<1>2. b * t = a * t + (b - a) * t
  OBVIOUS
<1> QED
  BY <1>1, <1>2

LEMMA OneTimeLess ==
    ASSUME NEW a \in Nat \ {0}, NEW t \in Nat
    PROVE  a * t - t = (a - 1) * t
  OBVIOUS

\* The loop goes on to an address that it can only ask after the timeouts of
\* those before it.
LEMMA NextRequestUses ==
    ASSUME NEW this \in LoopType, NEW u \in Nat,
           u <= (this.i - 1) * Timeout(this.meta), u <= Addresses * Timeout(this.meta)
    PROVE  LET there == NextRequest(this)
           IN  /\ there \in MonType /\ there.meta = this.meta
               /\ there.pc # "none" /\ InLoop(there) /\ u <= Used(there)
<1> DEFINE rest == {k \in Requestable : k >= this.i}
           there == NextRequest(this)
           t == Timeout(this.meta)
<1>0. there \in MonType /\ there.meta = this.meta
  BY NextRequestFacts
<1>1. t \in 0 .. MaxTimeout /\ Addresses \in Nat \ {0} /\ MaxTimeout \in Nat
  BY ConstantFacts DEF LoopType
<1>2. this.i \in Nat \ {0}
  BY DEF LoopType
<1>3. CASE rest = {}
  <2>1. there = At(this, "send", Addresses + 1, 0)
    BY <1>3 DEF NextRequest
  <2>2. Addresses + 1 \in 1 .. Addresses + 1 /\ 0 \in 0 .. MaxTimeout
    BY <1>1
  <2>3. there.pc = "send"
    BY <2>1, <2>2, MovedFacts
  <2> HIDE DEF there
  <2> QED
    BY <1>0, <2>3 DEF Used, InLoop, there
<1>4. CASE rest # {}
  <2> DEFINE least == Min(rest)
  <2>1. least \in rest
    BY <1>4, MinIsMember, ApiAssumption
  <2>2. there = At(this, "asking", least, t)
    BY <1>4 DEF NextRequest
  <2>3. least \in 1 .. Addresses /\ least >= this.i
    BY <2>1, ApiAssumption
  <2> HIDE DEF least, t
  <2>4. there.pc = "asking" /\ there.i = least /\ there.left = t
    BY <2>2 DEF At, LoopType
  <2>5. (this.i - 1) * t <= (least - 1) * t /\ (least - 1) * t = least * t - t
    <3>1. this.i - 1 \in Nat /\ least - 1 \in Nat /\ this.i - 1 <= least - 1
          /\ least \in Nat \ {0} /\ t \in Nat
      BY <1>1, <1>2, <2>3
    <3> QED
      BY <3>1, TimesGrow, OneTimeLess
  <2> DEFINE before == (this.i - 1) * t
             spent == least * t
  <2>6. u <= before /\ before <= spent - t /\ before \in Int /\ spent \in Int /\ t \in Int
    BY <1>1, <1>2, <2>3, <2>5 DEF t
  <2> HIDE DEF before, spent
  <2>7. u <= spent - t
    BY <2>6
  <2>8. Used(there) = spent - t
    BY <1>0, <2>4 DEF Used, spent, t
  <2> HIDE DEF there
  <2> QED
    BY <1>0, <2>3, <2>4, <2>7, <2>8 DEF InLoop, there
<1> QED
  BY <1>3, <1>4

\* The uses of a monitor in its loop are those of all addresses at most.
LEMMA UsedIsBounded ==
    ASSUME NEW this \in MonType, InLoop(this), this.pc # "none"
    PROVE  /\ Used(this) \in Int /\ Used(this) <= Addresses * Timeout(this.meta)
           /\ Addresses * Timeout(this.meta) \in Nat
<1> DEFINE t == Timeout(this.meta)
<1>1. t \in Nat /\ Addresses \in Nat /\ this.i \in Nat /\ this.left \in Nat
  BY ConstantFacts DEF MonType
<1> HIDE DEF t
<1>2. Addresses * t \in Nat /\ this.i * t \in Nat
  BY <1>1
<1>3. CASE this.pc = "send"
  BY <1>2, <1>3 DEF Used, t
<1>4. CASE this.pc # "send"
  <2>1. this.i <= Addresses
    BY <1>4 DEF InLoop, MonType
  <2>2. this.i * t <= Addresses * t
    BY <2>1, <1>1, TimesGrow
  <2> DEFINE spent == this.i * t
             all == Addresses * t
  <2> HIDE DEF spent, all
  <2>3. spent - this.left <= all /\ spent - this.left \in Int
    BY <1>1, <1>2, <2>2 DEF spent, all
  <2>4. Used(this) = spent - this.left
    BY <1>4 DEF Used, spent, t
  <2> QED
    BY <1>2, <2>3, <2>4 DEF all, t
<1> QED
  BY <1>3, <1>4

\* Steps after which a worker has the same monitors or fewer.
LEMMA FewerMonitors ==
    ASSUME TypeOK, TypeOK', AgeInv,
           \A m \in Monitors : mon'[m] = mon[m] \/ mon'[m].pc = "none",
           \A w \in Workers :
              /\ inst'[w].pc = "select" =>
                    \/ inst[w].pc = "select" /\ inst'[w].next = inst[w].next
                    \/ inst'[w].next = Interval
              /\ inst'[w].pc \in {"born", "sleep"} => Of(w)' = {}
              /\ inst'[w].pc # "none" =>
                    \/ Of(w)' = {}
                    \/ inst[w].pc # "none" /\ inst'[w].meta = inst[w].meta
    PROVE  AgeInv'
<1>1. PICK age \in [Monitors -> Nat] : Aged(age)
  BY DEF AgeInv
<1>2. \A m \in Monitors : mon'[m].pc # "none" => mon'[m] = mon[m]
  OBVIOUS
<1>3. ASSUME NEW w \in Workers, NEW k \in Of(w)'
      PROVE  k \in Of(w) /\ mon'[<<w, k>>] = mon[<<w, k>>] /\ <<w, k>> \in Monitors
  <2>1. k \in Slots /\ mon'[<<w, k>>].pc # "none" /\ <<w, k>> \in Monitors
    BY DEF Of, Monitors
  <2> QED
    BY <1>2, <2>1 DEF Of
<1>4. Kin'
  <2>1. \A m \in Monitors : InLoop(mon'[m])
    BY <1>2 DEF AgeInv, Kin, InLoop
  <2>2. ASSUME NEW w \in Workers
        PROVE  /\ inst'[w].pc \in {"born", "sleep"} => Of(w)' = {}
               /\ \A k \in Of(w)' : inst'[w].pc # "none" => mon'[<<w, k>>].meta = inst'[w].meta
               /\ \A j, k \in Of(w)' : mon'[<<w, j>>].meta = mon'[<<w, k>>].meta
    BY <1>3 DEF AgeInv, Kin
  <2> QED
    BY <2>1, <2>2 DEF Kin, InLoop, Monitors
<1>5. ASSUME NEW m \in Monitors, mon'[m].pc # "none" PROVE age[m] <= Used(mon[m])'
  BY <1>1, <1>2, <1>5 DEF Aged, Used
<1>6. ASSUME NEW w \in Workers, NEW j \in Of(w)', NEW k \in Of(w)', j # k
      PROVE  Apart(age[<<w, j>>], age[<<w, k>>])
  BY <1>1, <1>3, <1>6 DEF Aged
<1>7. ASSUME NEW w \in Workers, inst'[w].pc = "select", NEW k \in Of(w)'
      PROVE  age[<<w, k>>] >= Interval - inst'[w].next
  <2>1. age[<<w, k>>] \in Nat /\ Interval \in Nat
    BY <1>3, <1>7, ConstantFacts
  <2>2. CASE inst[w].pc = "select" /\ inst'[w].next = inst[w].next
    BY <1>1, <1>3, <1>7, <2>2 DEF Aged
  <2>3. CASE inst'[w].next = Interval
    BY <2>1, <2>3
  <2> QED
    BY <1>7, <2>2, <2>3
<1>8. Aged(age)'
  BY <1>5, <1>6, <1>7 DEF Aged, Apart, Monitors
<1> QED
  BY <1>4, <1>8 DEF AgeInv, Monitors

\* A monitor goes on in its loop, or out of it.
LEMMA MonitorGoesOn ==
    ASSUME TypeOK, AgeInv, NEW m \in Monitors, NEW now \in MonType,
           mon[m].pc # "none", now.pc # "none", now.meta = mon[m].meta, InLoop(now),
           \A u \in Nat : u <= Used(mon[m]) => u <= Used(now),
           mon' = [mon EXCEPT ![m] = now], inst' = inst
    PROVE  AgeInv'
<1>0. mon \in [Monitors -> MonType]
  BY Types
<1>1. PICK age \in [Monitors -> Nat] : Aged(age)
  BY DEF AgeInv
<1>2. /\ \A n \in Monitors : n # m => mon'[n] = mon[n]
      /\ mon'[m] = now
  BY <1>0
<1>3. \A n \in Monitors : /\ mon'[n].pc # "none" <=> mon[n].pc # "none"
                          /\ mon'[n].meta = mon[n].meta
  BY <1>2
<1>4. ASSUME NEW w \in Workers PROVE Of(w)' = Of(w)
  <2>1. \A k \in Slots : <<w, k>> \in Monitors
    BY DEF Monitors
  <2> QED
    BY <1>3, <2>1 DEF Of
<1>5. \A w \in Workers : \A k \in Of(w) : <<w, k>> \in Monitors
  BY DEF Of, Monitors
<1>6. Kin'
  <2>1. \A n \in Monitors : InLoop(mon'[n])
    BY <1>2 DEF AgeInv, Kin
  <2>2. ASSUME NEW w \in Workers
        PROVE  /\ inst'[w].pc \in {"born", "sleep"} => Of(w)' = {}
               /\ \A k \in Of(w)' : inst'[w].pc # "none" => mon'[<<w, k>>].meta = inst'[w].meta
               /\ \A j, k \in Of(w)' : mon'[<<w, j>>].meta = mon'[<<w, k>>].meta
    BY <1>3, <1>4, <1>5 DEF AgeInv, Kin
  <2> QED
    BY <2>1, <2>2 DEF Kin, InLoop, Monitors
<1>7. ASSUME NEW n \in Monitors, mon'[n].pc # "none" PROVE age[n] <= Used(mon[n])'
  <2>1. age[n] \in Nat /\ age[n] <= Used(mon[n])
    BY <1>1, <1>3, <1>7 DEF Aged
  <2>2. age[n] <= Used(mon'[n])
    BY <1>2, <2>1
  <2> QED
    BY <2>2 DEF Used
<1>8. Aged(age)'
  BY <1>1, <1>4, <1>7 DEF Aged, Apart, Monitors
<1> QED
  BY <1>6, <1>8 DEF AgeInv, Monitors

\* A worker starts a monitor: its first one, or at a tick, when the others are
\* as old as an interval.
LEMMA MonitorStarts ==
    ASSUME TypeOK, TypeOK', AgeInv, NEW w \in Workers, Monitoring(w),
           \A v \in Workers : v # w => inst'[v] = inst[v],
           inst[w].pc # "none",
           inst'[w].meta = inst[w].meta, inst'[w].pc \in {"first", "select"},
           inst'[w].pc = "select" => inst'[w].next = Interval,
           Of(w) = {} \/ (inst[w].pc = "select" /\ inst[w].next = 0)
    PROVE  AgeInv'
<1>0. mon \in [Monitors -> MonType] /\ inst[w] \in InstType /\ Interval \in Nat
  BY Types, ConstantFacts
<1>1. PICK age \in [Monitors -> Nat] : Aged(age)
  BY DEF AgeInv
<1> DEFINE meta == inst[w].meta
           now == NextRequest(Monitor(meta))
<1>2. PICK k \in Slots \ Of(w) : mon' = [mon EXCEPT ![<<w, k>>] = now]
  BY DEF Monitoring
<1>3. meta \in Metas
  BY <1>0 DEF InstType
<1>4. now.meta = meta /\ now.pc # "none" /\ InLoop(now) /\ 0 <= Used(now)
  <2>1. Monitor(meta) \in LoopType /\ Monitor(meta).i = 1 /\ Monitor(meta).meta = meta
    BY <1>3, ApiAssumption DEF Monitor, LoopType
  <2> DEFINE t == Timeout(meta)
  <2>2. t \in Nat /\ Addresses \in Nat
    BY <1>3, ConstantFacts
  <2> HIDE DEF t
  <2>3. 0 <= (1 - 1) * t /\ 0 <= Addresses * t
    BY <2>2
  <2> QED
    BY <2>1, <2>3, NextRequestUses DEF t
<1> HIDE DEF now
<1> DEFINE m == <<w, k>>
           age1 == [age EXCEPT ![m] = 0]
<1>5. m \in Monitors /\ mon[m].pc = "none"
  BY <1>2 DEF Monitors, Of
<1>6. mon'[m] = now /\ \A n \in Monitors : n # m => mon'[n] = mon[n]
  BY <1>0, <1>2, <1>5
<1>7. age1 \in [Monitors -> Nat] /\ age1[m] = 0 /\ \A n \in Monitors : n # m => age1[n] = age[n]
  BY <1>1, <1>5
<1> HIDE DEF age1
<1>8. ASSUME NEW v \in Workers, NEW j \in Of(v)'
      PROVE  /\ <<v, j>> \in Monitors
             /\ \/ v = w /\ j = k
                \/ <<v, j>> # m /\ j \in Of(v) /\ mon'[<<v, j>>] = mon[<<v, j>>]
  <2>1. j \in Slots /\ mon'[<<v, j>>].pc # "none" /\ <<v, j>> \in Monitors
    BY DEF Of, Monitors
  <2>2. CASE <<v, j>> = m
    BY <2>1, <2>2
  <2>3. CASE <<v, j>> # m
    BY <1>6, <2>1, <2>3 DEF Of
  <2> QED
    BY <2>2, <2>3
<1>9. Kin'
  <2>1. \A n \in Monitors : InLoop(mon'[n])
    BY <1>4, <1>6 DEF AgeInv, Kin
  <2>2. ASSUME NEW v \in Workers
        PROVE  /\ inst'[v].pc \in {"born", "sleep"} => Of(v)' = {}
               /\ \A j \in Of(v)' : inst'[v].pc # "none" => mon'[<<v, j>>].meta = inst'[v].meta
               /\ \A i, j \in Of(v)' : mon'[<<v, i>>].meta = mon'[<<v, j>>].meta
    <3>1. CASE v = w
      <4>1. ASSUME NEW j \in Of(v)' PROVE mon'[<<v, j>>].meta = meta
        <5>1. CASE v = w /\ j = k
          BY <1>4, <1>6, <5>1
        <5>2. CASE <<v, j>> # m /\ j \in Of(v) /\ mon'[<<v, j>>] = mon[<<v, j>>]
          BY <3>1, <5>2 DEF AgeInv, Kin
        <5> QED
          BY <1>8, <5>1, <5>2
      <4> QED
        BY <3>1, <4>1
    <3>2. CASE v # w
      <4>1. Of(v)' \subseteq Of(v) /\ inst'[v] = inst[v]
        BY <1>8, <3>2
      <4>2. \A j \in Of(v)' : mon'[<<v, j>>] = mon[<<v, j>>]
        BY <1>8, <3>2
      <4> QED
        BY <4>1, <4>2 DEF AgeInv, Kin
    <3> QED
      BY <3>1, <3>2
  <2> QED
    BY <2>1, <2>2 DEF Kin, InLoop, Monitors
<1>10. ASSUME NEW n \in Monitors, mon'[n].pc # "none" PROVE age1[n] <= Used(mon[n])'
  <2>1. age1[n] <= Used(mon'[n])
    BY <1>1, <1>4, <1>6, <1>7, <1>10 DEF Aged
  <2> QED
    BY <2>1 DEF Used
<1>11. ASSUME NEW j \in Of(w)', j # k PROVE age1[<<w, j>>] \in Nat /\ age1[<<w, j>>] >= Interval
  <2>1. <<w, j>> \in Monitors /\ j \in Of(w) /\ age1[<<w, j>>] = age[<<w, j>>]
    BY <1>7, <1>8, <1>11
  <2>2. inst[w].pc = "select" /\ inst[w].next = 0
    BY <2>1
  <2>3. age[<<w, j>>] >= Interval - 0 /\ age[<<w, j>>] \in Nat
    BY <1>1, <2>1, <2>2 DEF Aged
  <2> QED
    BY <1>0, <2>1, <2>3
<1>12. ASSUME NEW v \in Workers, NEW i \in Of(v)', NEW j \in Of(v)', i # j
       PROVE  Apart(age1[<<v, i>>], age1[<<v, j>>])
  <2>1. CASE v = w /\ i = k
    BY <1>0, <1>7, <1>11, <1>12, <2>1 DEF Apart
  <2>2. CASE v = w /\ j = k
    BY <1>0, <1>7, <1>11, <1>12, <2>2 DEF Apart
  <2>3. CASE ~(v = w /\ i = k) /\ ~(v = w /\ j = k)
    <3>1. i \in Of(v) /\ j \in Of(v) /\ age1[<<v, i>>] = age[<<v, i>>]
          /\ age1[<<v, j>>] = age[<<v, j>>]
      BY <1>7, <1>8, <2>3
    <3> QED
      BY <1>1, <1>12, <3>1 DEF Aged
  <2> QED
    BY <2>1, <2>2, <2>3
<1>13. ASSUME NEW v \in Workers, inst'[v].pc = "select", NEW j \in Of(v)'
       PROVE  age1[<<v, j>>] >= Interval - inst'[v].next
  <2>1. CASE v = w
    <3>1. inst'[v].next = Interval /\ age1[<<v, j>>] \in Nat
      BY <1>7, <1>8, <1>13, <2>1
    <3> QED
      BY <1>0, <3>1
  <2>2. CASE v # w
    <3>1. j \in Of(v) /\ age1[<<v, j>>] = age[<<v, j>>] /\ inst'[v] = inst[v]
      BY <1>7, <1>8, <2>2
    <3> QED
      BY <1>1, <1>13, <3>1 DEF Aged
  <2> QED
    BY <2>1, <2>2
<1>14. Aged(age1)'
  BY <1>10, <1>12, <1>13 DEF Aged, Apart, Monitors
<1> QED
  BY <1>7, <1>9, <1>14 DEF AgeInv, Monitors

\* Time passes: all monitors are waiting for an answer, and grow older.
LEMMA MonitorsAge ==
    ASSUME TypeOK, AgeInv, Time
    PROVE  AgeInv'
<1>0. /\ mon \in [Monitors -> MonType] /\ inst \in [Workers -> InstType]
      /\ Interval \in Nat /\ Addresses \in Nat
  BY Types, ConstantFacts
<1>1. PICK age \in [Monitors -> Nat] : Aged(age)
  BY DEF AgeInv
<1> DEFINE age1 == [m \in Monitors |-> age[m] + 1]
<1>2. age1 \in [Monitors -> Nat] /\ \A m \in Monitors : age1[m] = age[m] + 1 /\ age[m] \in Nat
  OBVIOUS
<1> HIDE DEF age1
<1>3. ASSUME NEW m \in Monitors
      PROVE  /\ mon'[m].pc = mon[m].pc /\ mon'[m].meta = mon[m].meta /\ mon'[m].i = mon[m].i
             /\ mon[m].pc # "none" =>
                   /\ mon[m].pc \in {"asking", "reading"}
                   /\ mon[m].left \in Nat /\ mon'[m].left = mon[m].left - 1
  <2>1. mon[m] \in MonType /\ mon[m].pc # "send"
    BY <1>0 DEF Time
  <2>2. mon'[m] = IF m \in Asking THEN [mon[m] EXCEPT !.left = @ - 1] ELSE mon[m]
    BY DEF Time
  <2>3. CASE m \in Asking
    BY <2>1, <2>2, <2>3 DEF MonType, Asking
  <2>4. CASE m \notin Asking
    BY <2>1, <2>2, <2>4 DEF MonType, Asking
  <2> QED
    BY <2>3, <2>4
<1>4. ASSUME NEW w \in Workers
      PROVE  /\ inst'[w].pc = inst[w].pc /\ inst'[w].meta = inst[w].meta
             /\ inst[w].pc = "select" => /\ inst[w].next \in Nat
                                         /\ inst'[w].next = inst[w].next - 1
  <2>1. inst[w] \in InstType
    BY <1>0
  <2>2. inst'[w] = IF w \in Waiting THEN [inst[w] EXCEPT !.next = @ - 1] ELSE inst[w]
    BY DEF Time
  <2>3. CASE w \in Waiting
    BY <1>0, <2>1, <2>2, <2>3 DEF InstType, Waiting
  <2>4. CASE w \notin Waiting
    BY <2>2, <2>4 DEF Waiting
  <2> QED
    BY <2>3, <2>4
<1>5. ASSUME NEW w \in Workers PROVE Of(w)' = Of(w)
  <2>1. \A k \in Slots : <<w, k>> \in Monitors
    BY DEF Monitors
  <2> QED
    BY <1>3, <2>1 DEF Of
<1>6. \A w \in Workers : \A k \in Of(w) : <<w, k>> \in Monitors
  BY DEF Of, Monitors
<1>7. Kin'
  <2>1. \A m \in Monitors : InLoop(mon'[m])
    BY <1>3 DEF AgeInv, Kin, InLoop
  <2>2. ASSUME NEW w \in Workers
        PROVE  /\ inst'[w].pc \in {"born", "sleep"} => Of(w)' = {}
               /\ \A k \in Of(w)' : inst'[w].pc # "none" => mon'[<<w, k>>].meta = inst'[w].meta
               /\ \A j, k \in Of(w)' : mon'[<<w, j>>].meta = mon'[<<w, k>>].meta
    BY <1>3, <1>4, <1>5, <1>6 DEF AgeInv, Kin
  <2> QED
    BY <2>1, <2>2 DEF Kin, InLoop, Monitors
<1>8. ASSUME NEW m \in Monitors, mon'[m].pc # "none" PROVE age1[m] <= Used(mon[m])'
  <2>1. /\ mon[m].pc \in {"asking", "reading"} /\ mon'[m].pc = mon[m].pc
        /\ mon[m].left \in Nat /\ mon'[m].left = mon[m].left - 1
        /\ mon'[m].meta = mon[m].meta /\ mon'[m].i = mon[m].i
    BY <1>3, <1>8
  <2> DEFINE spent == mon[m].i * Timeout(mon[m].meta)
             spent1 == mon'[m].i * Timeout(mon'[m].meta)
  <2>2. spent \in Int /\ spent1 = spent
    <3>1. mon[m].i \in Int /\ Timeout(mon[m].meta) \in Int
      BY <1>0, ConstantFacts DEF MonType
    <3> QED
      BY <3>1, <2>1
  <2>3. Used(mon[m]) = spent - mon[m].left /\ Used(mon'[m]) = spent1 - mon'[m].left
    BY <2>1 DEF Used
  <2> HIDE DEF spent, spent1
  <2>4. age[m] <= Used(mon[m]) /\ age[m] \in Nat /\ age1[m] = age[m] + 1
    BY <1>1, <1>2, <2>1 DEF Aged
  <2>5. age1[m] <= Used(mon'[m])
    BY <2>1, <2>2, <2>3, <2>4
  <2> QED
    BY <2>5 DEF Used
<1>9. ASSUME NEW w \in Workers, NEW j \in Of(w)', NEW k \in Of(w)', j # k
      PROVE  Apart(age1[<<w, j>>], age1[<<w, k>>])
  <2> DEFINE x == age[<<w, j>>]
             y == age[<<w, k>>]
  <2>1. j \in Of(w) /\ k \in Of(w) /\ <<w, j>> \in Monitors /\ <<w, k>> \in Monitors
    BY <1>5, <1>6
  <2>2. Apart(x, y)
    BY <1>1, <1>9, <2>1 DEF Aged
  <2>3. x \in Nat /\ y \in Nat /\ age1[<<w, j>>] = x + 1 /\ age1[<<w, k>>] = y + 1
    BY <1>2, <2>1
  <2> HIDE DEF x, y
  <2> QED
    BY <1>0, <2>2, <2>3 DEF Apart
<1>10. ASSUME NEW w \in Workers, inst'[w].pc = "select", NEW k \in Of(w)'
       PROVE  age1[<<w, k>>] >= Interval - inst'[w].next
  <2>1. k \in Of(w) /\ <<w, k>> \in Monitors
    BY <1>5, <1>6
  <2>2. inst[w].pc = "select" /\ inst[w].next \in Nat /\ inst'[w].next = inst[w].next - 1
    BY <1>4, <1>10
  <2>3. age[<<w, k>>] >= Interval - inst[w].next
    BY <1>1, <2>1, <2>2 DEF Aged
  <2>4. age[<<w, k>>] \in Nat /\ age1[<<w, k>>] = age[<<w, k>>] + 1
    BY <1>2, <2>1
  <2> QED
    BY <1>0, <2>2, <2>3, <2>4
<1>11. Aged(age1)'
  BY <1>8, <1>9, <1>10 DEF Aged, Apart, Monitors
<1> QED
  BY <1>2, <1>7, <1>11 DEF AgeInv, Monitors

\* The master starts and stops workers: a new one has no monitors.
LEMMA DoAges ==
    ASSUME TypeOK, TypeOK', AgeInv, NEW answer \in SUBSET Metas, Do(answer)
    PROVE  AgeInv'
<1>0. /\ inst \in [Workers -> InstType] /\ worker \in Workers \cup {NoWorker}
      /\ mon' = mon
  BY Types DEF Do
<1>1. \A w \in Workers : Of(w)' = Of(w)
  BY <1>0 DEF Of
<1>2. ASSUME NEW w \in Workers
      PROVE  \/ /\ inst'[w].pc = inst[w].pc /\ inst'[w].next = inst[w].next
                /\ inst'[w].meta = inst[w].meta
             \/ inst'[w].pc = "born" /\ Of(w) = {}
  <2>1. CASE Keep(answer) /\ worker # NoWorker
    BY <2>1 DEF Keep
  <2>2. CASE Keep(answer) /\ worker = NoWorker
    <3>1. PICK v \in Workers, meta \in answer :
              Free(v) /\ inst' = [inst EXCEPT ![v] = NewAPIWorker(meta)]
      BY <2>2 DEF Keep
    <3> QED
      BY <1>0, <3>1 DEF Free, NewAPIWorker
  <2>3. CASE Remove
    <3>1. worker \in Workers /\ inst' = [inst EXCEPT ![worker] = Stopped(worker)]
      BY <1>0, <2>3 DEF Remove
    <3> DEFINE told == Stopped(worker)
    <3>2. /\ told.pc = inst[worker].pc /\ told.next = inst[worker].next
          /\ told.meta = inst[worker].meta
      BY <1>0, <3>1 DEF Stopped, InstType
    <3> HIDE DEF told
    <3>3. inst' = [inst EXCEPT ![worker] = told]
      BY <3>1 DEF told
    <3> QED
      BY <1>0, <3>1, <3>2, <3>3
  <2> QED
    BY <2>1, <2>2, <2>3 DEF Do
<1>3. ASSUME NEW w \in Workers
      PROVE  /\ inst'[w].pc = "select" =>
                   \/ inst[w].pc = "select" /\ inst'[w].next = inst[w].next
                   \/ inst'[w].next = Interval
             /\ inst'[w].pc \in {"born", "sleep"} => Of(w)' = {}
             /\ inst'[w].pc # "none" =>
                   \/ Of(w)' = {}
                   \/ inst[w].pc # "none" /\ inst'[w].meta = inst[w].meta
  BY <1>1, <1>2 DEF AgeInv, Kin
<1> QED
  BY <1>0, <1>3, FewerMonitors

\* Run of a worker: it starts a monitor, or none.
LEMMA RunAges ==
    ASSUME TypeOK, TypeOK', AgeInv, NEW w \in Workers, Run(w)
    PROVE  AgeInv'
<1>0. inst \in [Workers -> InstType] /\ inst[w] \in InstType
  BY Types
<1>1. CASE RunBegins(w) \/ Exit(w)
  <2>1. mon' = mon /\ \A v \in Workers : Of(v)' = Of(v)
    BY <1>1 DEF RunBegins, Exit, Of
  <2>2. \A v \in Workers : v # w => inst'[v] = inst[v]
    BY <1>0, <1>1 DEF RunBegins, Exit
  <2>3. inst'[w].pc = "none" \/ (inst'[w].pc = "sleep" /\ Of(w)' = {})
    <3>1. CASE RunBegins(w)
      <4> DEFINE pc == IF inst[w].opened THEN "none" ELSE "sleep"
                 begun == [inst[w] EXCEPT !.pc = pc]
                 now == [begun EXCEPT !.opened = TRUE]
      <4>1. now.pc = pc
        BY <1>0 DEF InstType
      <4>2. now = [inst[w] EXCEPT !.pc = pc, !.opened = TRUE]
        OBVIOUS
      <4> HIDE DEF now
      <4>3. inst' = [inst EXCEPT ![w] = now]
        BY <1>0, <3>1, <4>2 DEF RunBegins
      <4>4. inst'[w].pc = pc
        BY <1>0, <4>1, <4>3
      <4>5. Of(w)' = {}
        BY <2>1, <3>1 DEF RunBegins, AgeInv, Kin
      <4> QED
        BY <4>4, <4>5
    <3>2. CASE Exit(w)
      <4>1. Nobody.pc = "none"
        BY DEF Nobody, NewAPIWorker
      <4> QED
        BY <1>0, <3>2, <4>1 DEF Exit
    <3> QED
      BY <1>1, <3>1, <3>2
  <2>4. ASSUME NEW v \in Workers
        PROVE  /\ inst'[v].pc = "select" =>
                     \/ inst[v].pc = "select" /\ inst'[v].next = inst[v].next
                     \/ inst'[v].next = Interval
               /\ inst'[v].pc \in {"born", "sleep"} => Of(v)' = {}
               /\ inst'[v].pc # "none" =>
                     \/ Of(v)' = {}
                     \/ inst[v].pc # "none" /\ inst'[v].meta = inst[v].meta
    BY <2>1, <2>2, <2>3 DEF AgeInv, Kin
  <2> QED
    BY <2>1, <2>4, FewerMonitors
<1>2. CASE FirstMonitor(w)
  <2> DEFINE first == [inst[w] EXCEPT !.pc = "first"]
             now == [first EXCEPT !.extra = Extra(w)]
  <2>1. now.pc = "first" /\ now.meta = inst[w].meta
    BY <1>0 DEF InstType
  <2>2. now = [inst[w] EXCEPT !.pc = "first", !.extra = Extra(w)]
    OBVIOUS
  <2> HIDE DEF now
  <2>3. inst' = [inst EXCEPT ![w] = now]
    BY <1>0, <1>2, <2>2 DEF FirstMonitor
  <2>4. inst'[w] = now /\ \A v \in Workers : v # w => inst'[v] = inst[v]
    BY <1>0, <2>3
  <2>5. Monitoring(w) /\ inst[w].pc = "sleep" /\ Of(w) = {}
    BY <1>2 DEF FirstMonitor, AgeInv, Kin
  <2> QED
    BY <2>1, <2>4, <2>5, MonitorStarts
<1>3. CASE Tick(w)
  <2> DEFINE later == [inst[w] EXCEPT !.next = Interval]
             now == [later EXCEPT !.extra = Extra(w)]
  <2>0. inst[w].pc = "select" /\ inst[w].next = 0 /\ Monitoring(w)
    BY <1>3 DEF Tick
  <2>1. now.pc = "select" /\ now.meta = inst[w].meta /\ now.next = Interval
    BY <1>0, <2>0 DEF InstType
  <2>2. now = [inst[w] EXCEPT !.next = Interval, !.extra = Extra(w)]
    OBVIOUS
  <2> HIDE DEF now
  <2>3. inst' = [inst EXCEPT ![w] = now]
    BY <1>0, <1>3, <2>2 DEF Tick
  <2>4. inst'[w] = now /\ \A v \in Workers : v # w => inst'[v] = inst[v]
    BY <1>0, <2>3
  <2> QED
    BY <2>0, <2>1, <2>4, MonitorStarts
<1> QED
  BY <1>1, <1>2, <1>3 DEF Run

\* A monitor that dies, alone or with the process.
LEMMA SendAges ==
    ASSUME TypeOK, TypeOK', AgeInv, NEW m \in Monitors, Send(m)
    PROVE  AgeInv'
<1> DEFINE w == m[1]
           ticking == [inst[w] EXCEPT !.pc = "select"]
           now == [ticking EXCEPT !.next = Interval]
<1>0. /\ inst \in [Workers -> InstType] /\ mon \in [Monitors -> MonType]
      /\ w \in Workers /\ inst[w] \in InstType
  BY Types DEF Monitors
<1>1. \A n \in Monitors : mon'[n] = mon[n] \/ mon'[n].pc = "none"
  BY <1>0, NoMonitorFacts DEF Send
<1>2. ASSUME NEW v \in Workers, Of(v) = {} PROVE Of(v)' = {}
  <2>1. \A k \in Slots : <<v, k>> \in Monitors
    BY DEF Monitors
  <2> QED
    BY <1>1, <1>2, <2>1 DEF Of
<1>3. /\ now.pc = "select" /\ now.meta = inst[w].meta /\ now.next = Interval
      /\ now = [inst[w] EXCEPT !.pc = "select", !.next = Interval]
  BY <1>0 DEF InstType
<1> HIDE DEF now
<1>4. ASSUME NEW v \in Workers
      PROVE  \/ inst'[v] = inst[v]
             \/ /\ inst[v].pc = "first" /\ inst'[v].pc = "select"
                /\ inst'[v].next = Interval /\ inst'[v].meta = inst[v].meta
  <2>1. CASE inst[w].pc = "first"
    <3>1. inst' = [inst EXCEPT ![w] = now]
      BY <1>0, <1>3, <2>1 DEF Send
    <3> QED
      BY <1>0, <1>3, <2>1, <3>1
  <2>2. CASE inst[w].pc # "first"
    BY <2>2 DEF Send
  <2> QED
    BY <2>1, <2>2
<1>5. ASSUME NEW v \in Workers
      PROVE  /\ inst'[v].pc = "select" =>
                   \/ inst[v].pc = "select" /\ inst'[v].next = inst[v].next
                   \/ inst'[v].next = Interval
             /\ inst'[v].pc \in {"born", "sleep"} => Of(v)' = {}
             /\ inst'[v].pc # "none" =>
                   \/ Of(v)' = {}
                   \/ inst[v].pc # "none" /\ inst'[v].meta = inst[v].meta
  BY <1>2, <1>4 DEF AgeInv, Kin
<1> QED
  BY <1>1, <1>5, FewerMonitors

LEMMA ForgetAges ==
    ASSUME TypeOK, TypeOK', AgeInv, Forget
    PROVE  AgeInv'
<1>1. Nobody.pc = "none"
  BY DEF Nobody, NewAPIWorker
<1>2. \A m \in Monitors : mon'[m].pc = "none"
  BY NoMonitorFacts DEF Forget, Silent
<1>3. \A w \in Workers : inst'[w].pc = "none"
  BY <1>1 DEF Forget, NoInst
<1> QED
  BY <1>2, <1>3, FewerMonitors

\* A monitor goes on to the next address, reads, or ends.
LEMMA MonitorAges ==
    ASSUME TypeOK, TypeOK', AgeInv, NEW m \in Monitors, MonitorStep(m)
    PROVE  AgeInv'
<1>0. /\ mon \in [Monitors -> MonType] /\ mon[m] \in MonType /\ InLoop(mon[m])
      /\ Addresses \in Nat
  BY Types, ConstantFacts DEF AgeInv, Kin
<1>1. CASE RequestFails(m)
  <2>1. PICK body \in {mon[m].body, IF HasBody[mon[m].meta] THEN "read" ELSE "none"} :
            Goes(m, "asking", NextRequest([mon[m] EXCEPT !.i = @ + 1, !.body = body]))
    BY <1>1 DEF RequestFails
  <2> DEFINE next == [mon[m] EXCEPT !.i = @ + 1]
             this == [next EXCEPT !.body = body]
             now == NextRequest(this)
             t == Timeout(mon[m].meta)
  <2>2. body \in {"none", "full", "read"} /\ mon[m].pc = "asking"
    BY <1>0, <2>1 DEF MonType, Goes
  <2>3. next \in LoopType /\ next.i = mon[m].i + 1 /\ next.meta = mon[m].meta
    BY <1>0, <2>2 DEF MonType, LoopType
  <2> HIDE DEF next
  <2>4. this \in LoopType /\ this.i = mon[m].i + 1 /\ this.meta = mon[m].meta
    BY <2>2, <2>3 DEF LoopType
  <2>5. this = [mon[m] EXCEPT !.i = @ + 1, !.body = body]
    BY DEF next
  <2> HIDE DEF this
  <2>6. mon' = [mon EXCEPT ![m] = now] /\ inst' = inst
    BY <2>1, <2>5 DEF Goes
  <2>7. mon[m].i \in Nat /\ mon[m].left \in Nat /\ t \in Nat
    BY <1>0, ConstantFacts DEF MonType
  <2>8. Used(mon[m]) = mon[m].i * t - mon[m].left
    BY <2>2 DEF Used
  <2>9. /\ Used(mon[m]) <= Addresses * t
    BY <1>0, <2>2, UsedIsBounded
  <2>10. now \in MonType /\ now.meta = this.meta
    BY <2>4, NextRequestFacts
  <2>11. ASSUME NEW u \in Nat, u <= Used(mon[m])
         PROVE  now.pc # "none" /\ InLoop(now) /\ u <= Used(now)
    <3>1. (this.i - 1) * t = mon[m].i * t
      <4>1. this.i - 1 = mon[m].i
        BY <2>4, <2>7
      <4> QED
        BY <4>1
    <3> DEFINE spent == mon[m].i * t
               all == Addresses * t
    <3>2. spent \in Nat /\ all \in Nat
      BY <1>0, <2>7
    <3> HIDE DEF spent, all
    <3>3. Used(mon[m]) = spent - mon[m].left /\ Used(mon[m]) <= all
      BY <2>8, <2>9 DEF spent, all
    <3>4. u <= spent /\ u <= all
      BY <2>7, <2>11, <3>2, <3>3
    <3>5. u <= (this.i - 1) * Timeout(this.meta) /\ u <= Addresses * Timeout(this.meta)
      BY <2>4, <3>1, <3>4 DEF spent, all
    <3> QED
      BY <2>4, <3>5, NextRequestUses
  <2> HIDE DEF now, t
  <2>12. now.pc # "none" /\ InLoop(now)
    <3>1. PICK age \in [Monitors -> Nat] : Aged(age)
      BY DEF AgeInv
    <3>2. age[m] \in Nat /\ age[m] <= Used(mon[m])
      BY <2>2, <3>1 DEF Aged
    <3> QED
      BY <2>11, <3>2
  <2> QED
    BY <2>2, <2>4, <2>6, <2>10, <2>11, <2>12, MonitorGoesOn
<1>2. ASSUME NEW now \in MonType, mon' = [mon EXCEPT ![m] = now], inst' = inst,
             now.meta = mon[m].meta, mon[m].pc \in {"asking", "reading"}, now.pc = "send"
      PROVE  AgeInv'
  <2> DEFINE all == Addresses * Timeout(mon[m].meta)
  <2>1. Used(mon[m]) \in Int /\ Used(mon[m]) <= all /\ all \in Nat
    BY <1>0, <1>2, UsedIsBounded
  <2>2. Used(now) = all
    BY <1>2 DEF Used
  <2> HIDE DEF all
  <2>3. \A u \in Nat : u <= Used(mon[m]) => u <= Used(now)
    BY <2>1, <2>2
  <2>4. InLoop(now) /\ mon[m].pc # "none" /\ now.pc # "none"
    BY <1>2 DEF InLoop
  <2> QED
    BY <1>2, <2>3, <2>4, MonitorGoesOn
<1>3. ASSUME NEW now \in MonType, mon' = [mon EXCEPT ![m] = now], inst' = inst,
             now.meta = mon[m].meta, now.i = mon[m].i, now.left = mon[m].left,
             mon[m].pc = "asking", now.pc = "reading"
      PROVE  AgeInv'
  <2>1. Used(now) = Used(mon[m])
    BY <1>3 DEF Used
  <2>2. InLoop(now)
    BY <1>0, <1>3 DEF InLoop
  <2> QED
    BY <1>3, <2>1, <2>2, MonitorGoesOn
<1>4. ASSUME NEW code \in {"2xx", "other"}, Answer(m, code) PROVE AgeInv'
  <2> DEFINE one == [mon[m] EXCEPT !.alive = IF code = "2xx" THEN 1 ELSE @]
             two == [one EXCEPT !.code = code]
             three == [two EXCEPT !.whole = mon[m].body # "read"]
             four == [three EXCEPT !.body = IF @ = "full" THEN "read" ELSE @]
             sent == [four EXCEPT !.pc = "send"]
             last == [sent EXCEPT !.left = 0]
             reading == [four EXCEPT !.pc = "reading"]
  <2>1. /\ mon[m].pc = "asking" /\ inst' = inst
        /\ mon' = [mon EXCEPT ![m] = Answered(four)]
    BY <1>4 DEF Answer, Goes
  <2>2. one \in MonType /\ one.meta = mon[m].meta /\ one.i = mon[m].i
        /\ one.left = mon[m].left
    BY <1>0 DEF MonType
  <2> HIDE DEF one
  <2>3. two \in MonType /\ two.meta = one.meta /\ two.i = one.i /\ two.left = one.left
    BY <1>4, <2>2 DEF MonType
  <2> HIDE DEF two
  <2>4. three \in MonType /\ three.meta = two.meta /\ three.i = two.i /\ three.left = two.left
    BY <2>3 DEF MonType
  <2> HIDE DEF three
  <2>5. four \in MonType /\ four.meta = three.meta /\ four.i = three.i
        /\ four.left = three.left
    BY <2>4 DEF MonType
  <2> HIDE DEF four
  <2>6. CASE Pattern[four.meta] = "none"
    <3>1. sent \in MonType /\ sent.pc = "send" /\ sent.meta = four.meta
      BY <2>5 DEF MonType
    <3> HIDE DEF sent
    <3>2. last \in MonType /\ last.pc = "send" /\ last.meta = four.meta
      BY <3>1, ConstantFacts DEF MonType
    <3> HIDE DEF last
    <3>3. Answered(four) = last
      BY <2>6 DEF Answered, sent, last
    <3> QED
      BY <1>2, <2>1, <2>2, <2>3, <2>4, <2>5, <3>2, <3>3
  <2>7. CASE Pattern[four.meta] # "none"
    <3>1. /\ reading \in MonType /\ reading.pc = "reading" /\ reading.meta = four.meta
          /\ reading.i = four.i /\ reading.left = four.left
      BY <2>5 DEF MonType
    <3>2. Answered(four) = reading
      BY <2>7 DEF Answered
    <3> HIDE DEF reading
    <3> QED
      BY <1>3, <2>1, <2>2, <2>3, <2>4, <2>5, <3>1, <3>2
  <2> QED
    BY <2>6, <2>7
<1>5. CASE Match(m)
  <2>1. PICK match \in {"yes", "no"} :
            Goes(m, "reading", [mon[m] EXCEPT !.pc = "send", !.match = match, !.left = 0])
    BY <1>5 DEF Match
  <2> DEFINE one == [mon[m] EXCEPT !.pc = "send"]
             two == [one EXCEPT !.match = match]
             now == [two EXCEPT !.left = 0]
  <2>2. one \in MonType /\ one.pc = "send" /\ one.meta = mon[m].meta
    BY <1>0 DEF MonType
  <2> HIDE DEF one
  <2>3. two \in MonType /\ two.pc = "send" /\ two.meta = mon[m].meta
    BY <2>2 DEF MonType
  <2> HIDE DEF two
  <2>4. now \in MonType /\ now.pc = "send" /\ now.meta = mon[m].meta
    BY <2>3, ConstantFacts DEF MonType
  <2>5. now = [mon[m] EXCEPT !.pc = "send", !.match = match, !.left = 0]
    BY DEF one, two
  <2> HIDE DEF now
  <2>6. mon' = [mon EXCEPT ![m] = now] /\ inst' = inst /\ mon[m].pc = "reading"
    BY <2>1, <2>5 DEF Goes
  <2> QED
    BY <1>2, <2>4, <2>6
<1>6. CASE Send(m)
  BY <1>6, SendAges
<1>7. CASE Panic(m)
  BY <1>7, ForgetAges DEF Panic
<1> QED
  BY <1>1, <1>4, <1>5, <1>6, <1>7 DEF MonitorStep

LEMMA AgeInvNext ==
    ASSUME TypeOK, TypeOK', AgeInv, [Next]_vars
    PROVE  AgeInv'
<1>1. CASE UNCHANGED vars
  <2>1. UNCHANGED <<mon, inst>>
    BY <1>1 DEF vars
  <2>2. \A w \in Workers : Of(w)' = Of(w)
    BY <2>1 DEF Of
  <2> QED
    BY <2>1, <2>2, FewerMonitors DEF AgeInv, Kin
<1>2. CASE Restart
  BY <1>2, ForgetAges DEF Restart
<1> QED
  BY <1>1, <1>2, DoAges, RunAges, MonitorAges, MonitorsAge DEF Next

LEMMA AgeInvInit == Init => AgeInv
<1> SUFFICES ASSUME Init PROVE AgeInv
  OBVIOUS
<1>1. Nobody.pc = "none"
  BY DEF Nobody, NewAPIWorker
<1>2. \A m \in Monitors : mon[m].pc = "none"
  BY NoMonitorFacts DEF Init, Silent
<1>3. \A w \in Workers : Of(w) = {} /\ inst[w].pc = "none"
  BY <1>1, <1>2 DEF Of, Monitors, Init, NoInst
<1>4. Kin
  BY <1>2, <1>3 DEF Kin, InLoop
<1> DEFINE age == [m \in Monitors |-> 0]
<1>5. Aged(age)
  BY <1>2, <1>3 DEF Aged
<1> QED
  BY <1>4, <1>5 DEF AgeInv

-----------------------------------------------------------------------------
(* Counting the monitors of a worker by their ages.                        *)

LEMMA Division ==
    ASSUME NEW x \in Nat, NEW d \in Nat \ {0}
    PROVE  /\ x \div d \in Nat
           /\ d * (x \div d) <= x /\ x < d * (x \div d) + d
  OBVIOUS

LEMMA DivisionGrows ==
    ASSUME NEW x \in Nat, NEW y \in Nat, NEW d \in Nat \ {0}, x <= y
    PROVE  x \div d <= y \div d
<1> DEFINE p == x \div d
           q == y \div d
<1>1. p \in Nat /\ q \in Nat /\ d * p <= x /\ y < d * q + d
  BY Division
<1> HIDE DEF p, q
<1>2. ASSUME q + 1 <= p PROVE FALSE
  <2>1. (q + 1) * d <= p * d
    BY <1>1, <1>2, TimesGrow
  <2>2. (q + 1) * d = d * q + d /\ p * d = d * p /\ d * q \in Nat /\ d * p \in Nat
    BY <1>1
  <2> DEFINE dp == d * p
             dq == d * q
  <2>3. dq + d <= dp /\ dp <= x /\ y < dq + d /\ dp \in Nat /\ dq \in Nat
    BY <1>1, <2>1, <2>2
  <2> HIDE DEF dp, dq
  <2> QED
    BY <2>3
<1> QED
  BY <1>1, <1>2 DEF p, q

\* Ages that are an interval apart are in different intervals.
LEMMA ApartDivide ==
    ASSUME NEW x \in Nat, NEW y \in Nat, Apart(x, y)
    PROVE  x \div Interval # y \div Interval
<1>0. Interval \in Nat \ {0}
  BY ConstantFacts
<1>1. ASSUME NEW a \in Nat, NEW b \in Nat, a + Interval <= b, a \div Interval = b \div Interval
      PROVE  FALSE
  <2> DEFINE d == Interval
             p == a \div d
             dp == d * p
  <2>1. p \in Nat /\ dp <= a /\ b < dp + d /\ dp \in Nat
    BY <1>0, <1>1, Division
  <2> HIDE DEF p, dp
  <2> QED
    BY <1>0, <1>1, <2>1
<1> QED
  BY <1>1 DEF Apart

LEMMA AgesCount ==
    ASSUME TypeOK, AgeInv, NEW w \in Workers, NEW k \in Of(w)
    PROVE  /\ IsFiniteSet(Of(w))
           /\ Cardinality(Of(w)) <= (Addresses * Timeout(mon[<<w, k>>].meta)) \div Interval + 1
<1> DEFINE meta == mon[<<w, k>>].meta
           all == Addresses * Timeout(meta)
           most == all \div Interval
<1>0. /\ mon \in [Monitors -> MonType] /\ Interval \in Nat \ {0}
      /\ \A j \in Of(w) : <<w, j>> \in Monitors /\ mon[<<w, j>>].pc # "none"
  BY Types, ConstantFacts DEF Of, Monitors
<1>1. PICK age \in [Monitors -> Nat] : Aged(age)
  BY DEF AgeInv
<1>2. all \in Nat
  BY <1>0, ConstantFacts DEF MonType
<1>3. ASSUME NEW j \in Of(w) PROVE age[<<w, j>>] \in Nat /\ age[<<w, j>>] <= all
  <2>1. age[<<w, j>>] \in Nat /\ age[<<w, j>>] <= Used(mon[<<w, j>>])
    BY <1>0, <1>1 DEF Aged
  <2>2. mon[<<w, j>>].meta = meta /\ InLoop(mon[<<w, j>>]) /\ mon[<<w, j>>] \in MonType
    BY <1>0 DEF AgeInv, Kin
  <2>3. Used(mon[<<w, j>>]) \in Int /\ Used(mon[<<w, j>>]) <= all
    BY <1>0, <2>2, UsedIsBounded
  <2> HIDE DEF all
  <2> QED
    BY <1>2, <2>1, <2>3
<1>4. most \in Nat
  BY <1>0, <1>2, Division
<1> DEFINE f == [j \in Of(w) |-> age[<<w, j>>] \div Interval]
<1> HIDE DEF most, all
<1>5. ASSUME NEW j \in Of(w) PROVE f[j] \in 0 .. most
  <2>1. age[<<w, j>>] \div Interval <= most /\ age[<<w, j>>] \div Interval \in Nat
    BY <1>0, <1>2, <1>3, DivisionGrows, Division DEF most
  <2> QED
    BY <1>4, <2>1
<1>6. ASSUME NEW i \in Of(w), NEW j \in Of(w), i # j PROVE f[i] # f[j]
  <2>1. Apart(age[<<w, i>>], age[<<w, j>>])
    BY <1>1, <1>6 DEF Aged
  <2> QED
    BY <1>3, <2>1, ApartDivide
<1>7. f \in Injection(Of(w), 0 .. most)
  <2>1. f \in [Of(w) -> 0 .. most]
    BY <1>5
  <2> QED
    BY <1>6, <2>1 DEF Injection, IsInjective
<1>8. IsFiniteSet(0 .. most) /\ Cardinality(0 .. most) = most + 1
  BY <1>4, FS_Interval
<1>9. IsFiniteSet(Of(w)) /\ Cardinality(Of(w)) <= most + 1
  BY <1>7, <1>8, FS_Injection
<1> QED
  BY <1>9 DEF most, all

\* Run (lines 133-139) starts a monitor at each tick whether or not the one before
\* has ended: a worker has one more at a time than whole intervals fit into the
\* timeouts of all its addresses, for any interval, timeouts and number of
\* addresses, and also while it stops.
THEOREM MonitorsAreBounded == Spec => []BoundedMonitors
<1> DEFINE Inv == ApiInv /\ AgeInv
<1>1. Init => Inv
  BY ApiInvInit, AgeInvInit
<1>2. Inv /\ [Next]_vars => Inv'
  BY ApiInvNext, AgeInvNext DEF ApiInv
<1>3. Inv => BoundedMonitors
  <2> SUFFICES ASSUME Inv, NEW w \in Workers, NEW k \in Of(w)
               PROVE  Cardinality(Of(w)) <=
                          (Addresses * Timeout(mon[w, k].meta)) \div Interval + 1
    BY DEF BoundedMonitors
  <2> QED
    BY AgesCount DEF ApiInv
<1> QED
  BY <1>1, <1>2, <1>3, PTL DEF Spec
=============================================================================
