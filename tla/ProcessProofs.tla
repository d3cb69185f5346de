---------------------------- MODULE ProcessProofs -----------------------------
(***************************************************************************)
(* As long as nobody runs start while an adapter runs, or any command      *)
(* while another or a start is not over, and each start writes its PID,    *)
(* there is one adapter at most and the PID file names it: for any number  *)
(* of processes, operators, deaths and panics (OneAdapterAtMost,           *)
(* AdapterCanBeStopped).                                                   *)
(***************************************************************************)
EXTENDS Process, TLAPS

\* Operators do not meet, neither each other nor a start.
Alone ==
    /\ \A o, other \in Operators : Busy(o) /\ Busy(other) => o = other
    /\ \A p \in Pids, o \in Operators : Booting(p) => ~Busy(o)

\* What the operator at o knows: the adapter, if there is one, is the target, or
\* has its signal.
Knows(o) ==
    /\ op[o].pc = "signal" =>
          \A p \in Pids : Alive(p) => p = op[o].target \/ proc[p].signalled
    /\ op[o].pc \in {"remove", "sleep"} => \A p \in Pids : Alive(p) => proc[p].signalled

Undisturbed ==
    /\ \A p, q \in Pids : Alive(p) /\ Alive(q) => p = q
    /\ \A p \in Pids : proc[p].pc = "main" => pidfile = p \/ proc[p].signalled
    /\ Alone
    /\ \A o \in Operators : Knows(o)

ProcessInv == TypeOK /\ (~disturbed => Undisturbed)
-----------------------------------------------------------------------------
ProcType == [pc : {"none", "parse", "log", "pid", "save", "main"},
             heeds : BOOLEAN, signalled : BOOLEAN]
OpType == [pc : {"idle", "read", "signal", "remove", "sleep"},
           target : Pids \cup {NoPid}, again : BOOLEAN]

\* A process that begins.
LEMMA StartsFacts ==
    ASSUME TypeOK, Starts
    PROVE  /\ proc' \in [Pids -> ProcType]
           /\ \A q \in Pids : (proc'[q].heeds => proc'[q].pc = "main")
                            /\ (proc'[q].signalled => proc'[q].heeds)
           /\ \E p \in Pids : /\ proc'[p].pc = "parse" /\ ~Alive(p)
                            /\ \A q \in Pids \ {p} : proc'[q] = proc[q]
<1>1. proc \in [Pids -> ProcType]
  BY DEF TypeOK, ProcType
<1>2. PICK p \in Pids :
         ~Alive(p) /\ proc' = [proc EXCEPT ![p] = [NoProcess EXCEPT !.pc = "parse"]]
  BY DEF Starts
<1>3. LET new == [NoProcess EXCEPT !.pc = "parse"]
      IN  new \in ProcType /\ new.pc = "parse" /\ ~new.heeds /\ ~new.signalled
  BY DEF NoProcess, ProcType
<1> QED
  BY <1>1, <1>2, <1>3 DEF TypeOK, ProcType

LEMMA TypeNext == TypeOK /\ [Next]_vars => TypeOK'
<1> SUFFICES ASSUME TypeOK, [Next]_vars PROVE TypeOK'
  OBVIOUS
<1>0. proc \in [Pids -> ProcType] /\ op \in [Operators -> OpType]
  BY DEF TypeOK, ProcType, OpType
<1>1. ASSUME NEW p \in Pids, Steps(p) \/ Panic(p) PROVE TypeOK'
  <2>1. ASSUME NEW now \in ProcType, Goes(p, now), now.heeds => now.pc = "main",
               now.signalled => now.heeds
        PROVE  /\ proc' \in [Pids -> ProcType]
               /\ \A q \in Pids : (proc'[q].heeds => proc'[q].pc = "main")
                                /\ (proc'[q].signalled => proc'[q].heeds)
    BY <1>0, <2>1 DEF Goes, TypeOK
  <2>2. NoProcess \in ProcType /\ ~NoProcess.heeds /\ ~NoProcess.signalled
    BY DEF NoProcess, ProcType
  <2>3. proc[p] \in ProcType /\ (proc[p].heeds => proc[p].pc = "main")
        /\ (proc[p].signalled => proc[p].heeds)
    BY <1>0 DEF TypeOK
  <2>4. CASE ParseConfig(p)
    BY <2>1, <2>3, <2>4 DEF ParseConfig, Becomes, Goes, TypeOK, ProcType
  <2>5. CASE InitLog(p)
    BY <2>1, <2>3, <2>5 DEF InitLog, Becomes, Goes, TypeOK, ProcType
  <2>6. CASE OpenPid(p)
    BY <2>1, <2>3, <2>6 DEF OpenPid, Becomes, Goes, TypeOK, ProcType
  <2>7. CASE SavePid(p)
    BY <2>1, <2>3, <2>7 DEF SavePid, Saved, Becomes, Goes, TypeOK, ProcType
  <2>8. CASE PidFails(p)
    BY <2>1, <2>3, <2>8 DEF PidFails, Goes, TypeOK, ProcType
  <2>9. CASE Notify(p)
    BY <2>1, <2>3, <2>9 DEF Notify, NotifyBegun, Becomes, Goes, TypeOK, ProcType
  <2>10. CASE Fatal(p) \/ Exit(p) \/ Panic(p)
    BY <2>1, <2>2, <2>10 DEF Fatal, Exit, Exits, Panic, Becomes, Goes, TypeOK, ProcType
  <2> QED
    BY <1>1, <2>4, <2>5, <2>6, <2>7, <2>8, <2>9, <2>10 DEF Steps
<1>2. ASSUME NEW o \in Operators, Work(o) PROVE TypeOK'
  <2>1. CASE ReadPid(o)
    <3>1. AfterStop(o) \in OpType
      BY <1>0 DEF OpType, AfterStop, Idle
    <3>2. pidfile \in Pids => [op[o] EXCEPT !.pc = "signal", !.target = pidfile] \in OpType
      BY <1>0 DEF OpType
    <3>3. op' \in [Operators -> OpType]
      BY <1>0, <2>1, <3>1, <3>2 DEF ReadPid, Does
    <3> QED
      BY <2>1, <3>3 DEF TypeOK, OpType, ReadPid
  <2>2. CASE Signal(o)
    <3>1. op' \in [Operators -> OpType]
      BY <1>0, <2>2 DEF OpType, Signal, Does, AfterStop, Idle
    <3>2. CASE proc' = proc
      BY <2>2, <3>1, <3>2 DEF TypeOK, OpType, Signal
    <3>3. CASE proc' = [proc EXCEPT ![op[o].target] = NoProcess]
      BY <1>0, <2>2, <3>1, <3>3 DEF TypeOK, OpType, ProcType, Signal, NoProcess
    <3>4. CASE /\ Alive(op[o].target) /\ proc[op[o].target].heeds
               /\ proc' = [proc EXCEPT ![op[o].target].signalled = TRUE]
      <4>1. ASSUME NEW q \in Pids
            PROVE  \/ proc'[q] = proc[q]
                   \/ proc[q].heeds /\ proc'[q] = [proc[q] EXCEPT !.signalled = TRUE]
        BY <1>0, <3>4
      <4>2. proc' \in [Pids -> ProcType]
        BY <1>0, <3>4 DEF ProcType
      <4>3. \A q \in Pids : (proc'[q].heeds => proc'[q].pc = "main")
                          /\ (proc'[q].signalled => proc'[q].heeds)
        <5> TAKE q \in Pids
        <5>1. proc[q] \in ProcType /\ (proc[q].heeds => proc[q].pc = "main")
              /\ (proc[q].signalled => proc[q].heeds)
          BY <1>0 DEF TypeOK
        <5>2. CASE proc'[q] = proc[q]
          BY <5>1, <5>2
        <5>3. CASE proc[q].heeds /\ proc'[q] = [proc[q] EXCEPT !.signalled = TRUE]
          <6>1. /\ proc'[q].heeds = proc[q].heeds /\ proc'[q].pc = proc[q].pc
            BY <5>1, <5>3 DEF ProcType
          <6> QED
            BY <5>1, <5>3, <6>1
        <5> QED
          BY <4>1, <5>2, <5>3
      <4>4. UNCHANGED <<pidfile, disturbed>>
        BY <2>2 DEF Signal
      <4> QED
        BY <3>1, <4>2, <4>3, <4>4 DEF TypeOK, OpType, ProcType
    <3>5. \/ proc' = proc
          \/ proc' = [proc EXCEPT ![op[o].target] = NoProcess]
          \/ /\ Alive(op[o].target) /\ proc[op[o].target].heeds
             /\ proc' = [proc EXCEPT ![op[o].target].signalled = TRUE]
      BY <2>2 DEF Signal
    <3> QED
      BY <3>2, <3>3, <3>4, <3>5
  <2>3. CASE RemovePid(o)
    BY <1>0, <2>3 DEF TypeOK, OpType, RemovePid, Does, AfterStop, Idle
  <2>4. CASE Start(o)
    <3>1. op' \in [Operators -> OpType]
      BY <1>0, <2>4 DEF OpType, Start, Does, Idle
    <3>4. /\ proc' \in [Pids -> ProcType]
          /\ \A q \in Pids : (proc'[q].heeds => proc'[q].pc = "main")
                           /\ (proc'[q].signalled => proc'[q].heeds)
      BY <2>4, StartsFacts DEF Start
    <3>5. UNCHANGED <<pidfile, disturbed>>
      BY <2>4 DEF Start
    <3> QED
      BY <3>1, <3>4, <3>5 DEF TypeOK, OpType, ProcType
  <2> QED
    BY <1>2, <2>1, <2>2, <2>3, <2>4 DEF Work
<1>3. ASSUME NEW o \in Operators, NEW again \in BOOLEAN, Begin(o, again) PROVE TypeOK'
  BY <1>0, <1>3 DEF TypeOK, OpType, Begin, Does
<1>4. ASSUME NEW o \in Operators, BareStart(o) PROVE TypeOK'
  <2>1. UNCHANGED <<pidfile, op>> /\ disturbed' \in BOOLEAN
    BY <1>4 DEF BareStart, TypeOK
  <2>2. /\ proc' \in [Pids -> ProcType]
        /\ \A q \in Pids : (proc'[q].heeds => proc'[q].pc = "main")
                         /\ (proc'[q].signalled => proc'[q].heeds)
    BY <1>4, StartsFacts DEF BareStart
  <2> QED
    BY <2>1, <2>2 DEF TypeOK, ProcType
<1>5. CASE UNCHANGED vars
  BY <1>5 DEF TypeOK, vars
<1> QED
  BY <1>1, <1>2, <1>3, <1>4, <1>5 DEF Next

\* A process that takes a step was alive, keeps its signal and gets none; the
\* others and the operators stay as they are.
LEMMA StepsKeep ==
    ASSUME TypeOK, Undisturbed, ~disturbed', NEW p \in Pids, Steps(p) \/ Panic(p)
    PROVE  Undisturbed'
<1>0. proc \in [Pids -> ProcType] /\ op \in [Operators -> OpType]
  BY DEF TypeOK, ProcType, OpType
<1>1. /\ Alive(p)
      /\ \A q \in Pids \ {p} : proc'[q] = proc[q]
      /\ Alive(p)' => /\ Booting(p)
                      /\ proc'[p].signalled = proc[p].signalled
      /\ UNCHANGED op
  BY <1>0
     DEF ProcType, TypeOK, Steps, Panic, ParseConfig, InitLog, Fatal, OpenPid, SavePid, Saved,
         PidFails, Notify, NotifyBegun, Exit, Exits, Becomes, Goes, NoProcess, Alive, Booting
<1>2. proc'[p].pc = "main" => pidfile' = p \/ proc'[p].signalled
  <2>1. CASE SavePid(p)
    BY <2>1 DEF SavePid, Saved
  <2>2. CASE Notify(p)
    BY <1>0, <2>2 DEF Notify, NotifyBegun, Becomes, Goes, ProcType, Undisturbed
  <2>3. CASE ~SavePid(p) /\ ~Notify(p)
    BY <1>0, <2>3
       DEF ProcType, Steps, Panic, ParseConfig, InitLog, Fatal, OpenPid, PidFails, Exit, Exits,
           Becomes, Goes, NoProcess
  <2> QED
    BY <2>1, <2>2, <2>3
<1>3. \A q \in Pids : (Alive(q)' => Alive(q)) /\ (Booting(q)' => Booting(q))
                    /\ (proc[q].signalled /\ Alive(q)' => proc'[q].signalled)
  BY <1>1 DEF Alive, Booting
<1>4. \A q, r \in Pids : Alive(q)' /\ Alive(r)' => q = r
  BY <1>3 DEF Undisturbed
<1>5. \A q \in Pids : proc'[q].pc = "main" => pidfile' = q \/ proc'[q].signalled
  <2> SUFFICES ASSUME NEW q \in Pids, proc'[q].pc = "main"
               PROVE  pidfile' = q \/ proc'[q].signalled
    OBVIOUS
  <2>1. Alive(q)
    BY <1>3 DEF Alive
  <2> QED
    BY <1>1, <1>2, <2>1 DEF Undisturbed
<1>6. Alone'
  BY <1>1, <1>3 DEF Undisturbed, Alone, Busy
<1>7. \A o \in Operators : Knows(o)'
  BY <1>1, <1>3 DEF Undisturbed, Knows
<1> QED
  BY <1>4, <1>5, <1>6, <1>7 DEF Undisturbed

\* A step of an operator who is alone: nobody else begins, and no process boots
\* but the one that Start makes when there is no other.
LEMMA WorkKeeps ==
    ASSUME TypeOK, Undisturbed, NEW o \in Operators, Work(o)
    PROVE  Undisturbed'
<1>0. proc \in [Pids -> ProcType] /\ op \in [Operators -> OpType]
  BY DEF TypeOK, ProcType, OpType
<1>1. Busy(o) /\ (\A other \in Operators \ {o} : ~Busy(other) /\ op'[other] = op[other])
  BY <1>0
     DEF Work, ReadPid, Signal, RemovePid, Start, Does, Undisturbed, Alone, Busy, OpType
<1>2. \A p \in Pids : ~Booting(p) /\ (Alive(p) => proc[p].heeds /\ proc[p].pc = "main")
  BY <1>0, <1>1 DEF Undisturbed, Alone, Booting, TypeOK
<1>3. CASE ReadPid(o)
  <2>1. UNCHANGED <<proc, pidfile>>
    BY <1>3 DEF ReadPid
  <2>2. Knows(o)'
    BY <1>0, <1>2, <1>3 DEF ReadPid, Does, AfterStop, Idle, Knows, Undisturbed, OpType, Alive
  <2> QED
    BY <1>1, <2>1, <2>2 DEF Undisturbed, Alone, Busy, Knows, Alive, Booting
<1>4. CASE Signal(o)
  <2>1. \A q \in Pids :
           /\ Alive(q)' <=> Alive(q)
           /\ ~Booting(q)'
           /\ proc'[q].pc = proc[q].pc
           /\ Alive(q) => proc'[q].signalled
    <3>1. CASE ~Alive(op[o].target)
      BY <1>0, <1>2, <1>4, <3>1 DEF Signal, Undisturbed, Knows, Alive, Booting
    <3>2. CASE Alive(op[o].target) /\ op[o].target \in Pids
      <4>1. proc' = [proc EXCEPT ![op[o].target].signalled = TRUE]
        BY <1>2, <1>4, <3>2 DEF Signal
      <4>2. \A q \in Pids : Alive(q) => q = op[o].target \/ proc[q].signalled
        BY <1>4 DEF Signal, Undisturbed, Knows
      <4> QED
        BY <1>0, <1>2, <4>1, <4>2 DEF ProcType, Alive, Booting
    <3>3. CASE op[o].target = NoPid
      <4>1. \A q \in Pids : Alive(q) => proc[q].signalled
        BY <1>4, <3>3, ProcessAssumption DEF Signal, Undisturbed, Knows
      <4>2. \A q \in Pids : proc'[q] = proc[q]
        BY <1>0, <1>4, <3>3, ProcessAssumption DEF Signal
      <4> QED
        BY <1>2, <4>1, <4>2 DEF Alive, Booting
    <3> QED
      BY <1>0, <3>1, <3>2, <3>3 DEF OpType
  <2>2. pidfile' = pidfile /\ op'[o].pc \in {"idle", "remove", "sleep"}
    BY <1>0, <1>4 DEF Signal, Does, AfterStop, Idle, OpType
  <2>3. \A p, q \in Pids : Alive(p)' /\ Alive(q)' => p = q
    BY <2>1 DEF Undisturbed
  <2>4. \A p \in Pids : proc'[p].pc = "main" => proc'[p].signalled
    BY <2>1 DEF Alive
  <2>5. Alone'
    BY <1>1, <2>1 DEF Alone, Busy
  <2>6. \A other \in Operators : Knows(other)'
    BY <1>1, <2>1, <2>2 DEF Knows, Busy
  <2> QED
    BY <2>3, <2>4, <2>5, <2>6 DEF Undisturbed
<1>5. CASE RemovePid(o)
  <2>1. UNCHANGED proc /\ \A p \in Pids : Alive(p) => proc[p].signalled
    BY <1>5 DEF RemovePid, Undisturbed, Knows
  <2>2. \A p \in Pids : (Alive(p)' <=> Alive(p)) /\ ~Booting(p)'
    BY <1>2, <2>1 DEF Alive, Booting
  <2>3. op'[o].pc \in {"idle", "sleep"}
    BY <1>0, <1>5 DEF RemovePid, Does, AfterStop, Idle, OpType
  <2>4. \A p \in Pids : proc'[p].pc = "main" => proc'[p].signalled
    BY <2>1 DEF Alive
  <2>5. Alone'
    BY <1>1, <2>2 DEF Alone, Busy
  <2>6. \A other \in Operators : Knows(other)'
    BY <1>1, <2>1, <2>2, <2>3 DEF Knows, Busy
  <2> QED
    BY <2>2, <2>4, <2>5, <2>6 DEF Undisturbed
<1>6. CASE Start(o)
  <2>1. \A p \in Pids : ~Alive(p)
    BY <1>6 DEF Start, Slept, Undisturbed, Knows
  <2>2. PICK p \in Pids :
           proc'[p].pc = "parse" /\ \A q \in Pids \ {p} : proc'[q] = proc[q]
    BY <1>6, StartsFacts DEF Start
  <2>3. \A q \in Pids \ {p} : ~Alive(q)'
    BY <2>1, <2>2 DEF Alive
  <2>4. proc'[p].pc = "parse"
    BY <2>2
  <2>5. \A other \in Operators : op'[other].pc = "idle"
    BY <1>0, <1>1, <1>6 DEF Start, Does, Idle, Busy
  <2>6. \A q \in Pids : proc'[q].pc # "main"
    BY <2>3, <2>4 DEF Alive
  <2> QED
    BY <2>3, <2>5, <2>6 DEF Undisturbed, Alone, Busy, Knows
<1> QED
  BY <1>3, <1>4, <1>5, <1>6 DEF Work

LEMMA ProcessInvNext == ProcessInv /\ [Next]_vars => ProcessInv'
<1> SUFFICES ASSUME ProcessInv, [Next]_vars, ~disturbed' PROVE Undisturbed'
  BY TypeNext DEF ProcessInv
<1>1. ~disturbed
  BY DEF Next, vars, Steps, Panic, Work, Begin, BareStart, ReadPid, Signal, RemovePid, Start, PidFails,
         ParseConfig, InitLog, Fatal, OpenPid, SavePid, Notify, Exit, Exits, Becomes
<1>2. TypeOK /\ Undisturbed
  BY <1>1 DEF ProcessInv
<1>3. ASSUME NEW p \in Pids, Steps(p) \/ Panic(p) PROVE Undisturbed'
  BY <1>2, <1>3, StepsKeep
<1>4. ASSUME NEW o \in Operators, Work(o) PROVE Undisturbed'
  BY <1>2, <1>4, WorkKeeps
<1>5. ASSUME NEW o \in Operators, NEW again \in BOOLEAN, Begin(o, again) PROVE Undisturbed'
  <2>1. UNCHANGED <<proc, pidfile>>
    BY <1>5 DEF Begin
  <2>2. \A other \in Operators \ {o} : op[other].pc = "idle" /\ op'[other] = op[other]
    BY <1>2, <1>5 DEF Begin, Busy, Does, TypeOK
  <2>3. (\A p \in Pids : ~Booting(p)) /\ op'[o].pc = "read"
    BY <1>2, <1>5 DEF Begin, Busy, Does, TypeOK
  <2> QED
    BY <1>2, <2>1, <2>2, <2>3 DEF Undisturbed, Alone, Busy, Knows, Alive, Booting
<1>6. ASSUME NEW o \in Operators, BareStart(o) PROVE Undisturbed'
  <2>1. (\A p \in Pids : ~Alive(p)) /\ (\A other \in Operators : ~Busy(other))
    BY <1>6 DEF BareStart
  <2>2. UNCHANGED op
    BY <1>6 DEF BareStart
  <2>3. PICK p \in Pids :
           proc'[p].pc = "parse" /\ \A q \in Pids \ {p} : proc'[q] = proc[q]
    BY <1>2, <1>6, StartsFacts DEF BareStart
  <2>4. \A q \in Pids \ {p} : ~Alive(q)'
    BY <2>1, <2>3 DEF Alive
  <2>5. \A q \in Pids : proc'[q].pc # "main"
    BY <2>3, <2>4 DEF Alive
  <2>6. \A other \in Operators : op'[other].pc = "idle"
    BY <2>1, <2>2 DEF Busy
  <2> QED
    BY <2>4, <2>5, <2>6 DEF Undisturbed, Alone, Busy, Knows
<1>7. CASE UNCHANGED vars
  BY <1>2, <1>7 DEF Undisturbed, Alone, Busy, Knows, Alive, Booting, vars
<1> QED
  BY <1>3, <1>4, <1>5, <1>6, <1>7 DEF Next

LEMMA ProcessInvInit == Init => ProcessInv
<1> SUFFICES ASSUME Init PROVE ProcessInv
  OBVIOUS
<1>1. /\ \A p \in Pids : proc[p] = NoProcess
      /\ \A o \in Operators : op[o] = Idle
  BY DEF Init
<1>2. NoProcess \in ProcType /\ Idle \in OpType
  BY DEF NoProcess, Idle, ProcType, OpType
<1>3. TypeOK
  BY <1>1, <1>2 DEF Init, TypeOK, ProcType, OpType, NoProcess
<1>4. Undisturbed
  BY <1>1 DEF Init, Undisturbed, Alone, Busy, Knows, Alive, Booting, NoProcess, Idle
<1> QED
  BY <1>3, <1>4 DEF ProcessInv

\* start.go and stop.go: the types, for any number of processes and operators.
THEOREM ProcessTypes == Spec => []TypeOK
<1>1. ProcessInv => TypeOK
  BY DEF ProcessInv
<1> QED
  BY ProcessInvInit, ProcessInvNext, <1>1, PTL DEF Spec

\* Undisturbed, no two adapters run: what deaths, stop and the sleep of service.sh
\* leave behind lets the next start be alone (start.go:48-68 does not look).
THEOREM OneAdapterAtMost == Spec => []OneAdapter
<1>1. ProcessInv => OneAdapter
  BY DEF ProcessInv, Undisturbed, OneAdapter
<1> QED
  BY ProcessInvInit, ProcessInvNext, <1>1, PTL DEF Spec

\* Undisturbed, the PID file (start.go:59, stop.go:43) names the adapter that runs.
THEOREM AdapterCanBeStopped == Spec => []CanBeStopped
<1>1. ProcessInv => CanBeStopped
  BY DEF ProcessInv, Undisturbed, CanBeStopped
<1> QED
  BY ProcessInvInit, ProcessInvNext, <1>1, PTL DEF Spec
=============================================================================
