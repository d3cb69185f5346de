------------------------------- MODULE Process --------------------------------
(***************************************************************************)
(* The life of the process: command/start.go, command/stop.go and          *)
(* service.sh, which run as processes of their own and share the PID file. *)
(*                                                                         *)
(* start parses the configuration, opens the log, writes its PID into the  *)
(* file and begins its modules; a goroutine waits for a signal.  stop      *)
(* reads the file, signals the process it names and removes the file.      *)
(* service.sh is a stop, a sleep and a start in the background.            *)
(*                                                                         *)
(* Nothing locks the PID file, and start looks for no other adapter.       *)
(* `disturbed` records what nobody should do: run a start while an adapter *)
(* runs, or any command while another, or a start, is not over; and that a *)
(* start could not write the file, whose error nobody looks at.            *)
(***************************************************************************)
EXTENDS Naturals, FiniteSets

CONSTANTS
    Pids,           \* bound: adapter processes at a time
    NoPid,
    Operators       \* those who run start, stop or service.sh, at any time

ASSUME ProcessAssumption == NoPid \notin Pids

VARIABLES
    proc,       \* the adapter process of each PID
    pidfile,    \* content of config.PID: a PID, "none" without the file, or "empty"
    op,         \* what the operators run
    disturbed   \* history

vars == <<proc, pidfile, op, disturbed>>

\* heeds: signal.Notify was called.  signalled: its channel has a signal.
NoProcess == [pc |-> "none", heeds |-> FALSE, signalled |-> FALSE]

Alive(p) == proc[p].pc # "none"
Booting(p) == Alive(p) /\ ~proc[p].heeds

Idle == [pc |-> "idle", target |-> NoPid, again |-> FALSE]

Init ==
    /\ proc = [p \in Pids |-> NoProcess]
    /\ pidfile = "none"
    /\ op = [o \in Operators |-> Idle]
    /\ disturbed = FALSE
-----------------------------------------------------------------------------
(* start.                                                                  *)

Goes(p, now) == proc' = [proc EXCEPT ![p] = now] /\ UNCHANGED op

Becomes(p, now) == Goes(p, now) /\ UNCHANGED disturbed

\* ParseConfig, initLog: log.Fatalf ends a process for which the configuration or
\* the log directory is bad.
ParseConfig(p) ==
    proc[p].pc = "parse" /\ Becomes(p, [proc[p] EXCEPT !.pc = "log"]) /\ UNCHANGED pidfile

InitLog(p) ==
    proc[p].pc = "log" /\ Becomes(p, [proc[p] EXCEPT !.pc = "pid"]) /\ UNCHANGED pidfile

Fatal(p) ==
    /\ proc[p].pc \in {"parse", "log"} /\ Becomes(p, NoProcess) /\ UNCHANGED pidfile

\* ioutil.WriteFile empties the file and then writes to it.  (And a start that
\* does not.)
OpenPid(p) ==
    /\ proc[p].pc = "pid" /\ Becomes(p, [proc[p] EXCEPT !.pc = "save"])
    /\ pidfile' = "empty"

NotSaved(p) == UNCHANGED pidfile

Saved(p) == pidfile' = p

SavePid(p) ==
    /\ proc[p].pc = "save" /\ Becomes(p, [proc[p] EXCEPT !.pc = "main"]) /\ Saved(p)

\* The file cannot be opened, or the PID not be written to it.
PidFails(p) ==
    /\ proc[p].pc \in {"pid", "save"} /\ Goes(p, [proc[p] EXCEPT !.pc = "main"])
    /\ disturbed' = TRUE
    /\ UNCHANGED pidfile

\* The goroutine of Notify reaches signal.Notify.  (And one that is started first.)
BegunFirst(p) == Alive(p)

NotifyBegun(p) == proc[p].pc = "main"

Notify(p) ==
    /\ NotifyBegun(p) /\ ~proc[p].heeds
    /\ Becomes(p, [proc[p] EXCEPT !.heeds = TRUE]) /\ UNCHANGED pidfile

\* It has received a signal: the log is flushed, profiles are closed, os.Exit.
\* (And a Notify that returns instead.)
NoExit(p) == Becomes(p, proc[p])

Exits(p) == Becomes(p, NoProcess)

Exit(p) == proc[p].signalled /\ Exits(p) /\ UNCHANGED pidfile

\* A panic of one of the modules, as at adapter/adapter.go:22 when the registry
\* does not answer, or at APIStatus/worker.go:214.
Panic(p) == proc[p].pc = "main" /\ Becomes(p, NoProcess) /\ UNCHANGED pidfile

Steps(p) ==
    \/ ParseConfig(p) \/ InitLog(p) \/ Fatal(p) \/ OpenPid(p) \/ SavePid(p)
    \/ PidFails(p) \/ Notify(p) \/ Exit(p)
-----------------------------------------------------------------------------
(* stop and service.sh.                                                    *)

Does(o, now) == op' = [op EXCEPT ![o] = now]

Busy(o) == op[o].pc # "idle"

\* A process begins; runStart looks for no other.
Starts ==
    \E p \in Pids : ~Alive(p) /\ proc' = [proc EXCEPT ![p] = [NoProcess EXCEPT !.pc = "parse"]]

\* An operator runs start, which goes on as the process, whatever runs already.
BareStart(o) ==
    /\ ~Busy(o) /\ Starts
    /\ disturbed' = (disturbed \/ (\E other \in Operators : Busy(other))
                              \/ (\E p \in Pids : Alive(p)))
    /\ UNCHANGED <<pidfile, op>>

\* An operator runs stop, or service.sh (again).
Begin(o, again) ==
    /\ ~Busy(o) /\ Does(o, [pc |-> "read", target |-> NoPid, again |-> again])
    /\ disturbed' = (disturbed \/ (\E other \in Operators : Busy(other))
                              \/ (\E p \in Pids : Booting(p)))
    /\ UNCHANGED <<proc, pidfile>>

AfterStop(o) == IF op[o].again THEN [op[o] EXCEPT !.pc = "sleep"] ELSE Idle

\* ReadFile, and Atoi: without a number in the file Signal fails.
ReadPid(o) ==
    /\ op[o].pc = "read"
    /\ Does(o, IF pidfile \in Pids THEN [op[o] EXCEPT !.pc = "signal", !.target = pidfile]
               ELSE AfterStop(o))
    /\ UNCHANGED <<proc, pidfile, disturbed>>

\* SIGINT.  A process that has not called signal.Notify ends by it or, as a
\* background command of a script, ignores it.  Without the process stop returns.
Signal(o) ==
    LET p == op[o].target
    IN  /\ op[o].pc = "signal"
        /\ Does(o, IF Alive(p) THEN [op[o] EXCEPT !.pc = "remove"] ELSE AfterStop(o))
        /\ \E ignored \in BOOLEAN :
              proc' = IF ~Alive(p) THEN proc
                      ELSE IF proc[p].heeds THEN [proc EXCEPT ![p].signalled = TRUE]
                      ELSE IF ignored THEN proc ELSE [proc EXCEPT ![p] = NoProcess]
        /\ UNCHANGED <<pidfile, disturbed>>

RemovePid(o) ==
    /\ op[o].pc = "remove" /\ Does(o, AfterStop(o))
    /\ pidfile' = "none"
    /\ UNCHANGED <<proc, disturbed>>

\* The sleep of three seconds is longer than a process takes from a signal to its
\* end; then nohup starts another.  (And a script that has lost its sleep.)
NoSleep(o) == TRUE

Slept(o) == \A p \in Pids : ~proc[p].signalled

Start(o) ==
    /\ op[o].pc = "sleep" /\ Slept(o) /\ Does(o, Idle) /\ Starts
    /\ UNCHANGED <<pidfile, disturbed>>

Work(o) == ReadPid(o) \/ Signal(o) \/ RemovePid(o) \/ Start(o)

Next ==
    \/ \E p \in Pids : Steps(p) \/ Panic(p)
    \/ \E o \in Operators : Work(o) \/ BareStart(o)
    \/ \E o \in Operators, again \in BOOLEAN : Begin(o, again)

\* Processes and commands go on; nobody has to run one.
Fairness ==
    /\ \A p \in Pids : WF_vars(Steps(p))
    /\ \A o \in Operators : WF_vars(Work(o))

Spec == Init /\ [][Next]_vars /\ Fairness
-----------------------------------------------------------------------------
TypeOK ==
    /\ proc \in [Pids -> [pc : {"none", "parse", "log", "pid", "save", "main"},
                          heeds : BOOLEAN, signalled : BOOLEAN]]
    /\ \A p \in Pids :
          (proc[p].heeds => proc[p].pc = "main") /\ (proc[p].signalled => proc[p].heeds)
    /\ pidfile \in Pids \cup {"none", "empty"}
    /\ op \in [Operators -> [pc : {"idle", "read", "signal", "remove", "sleep"},
                             target : Pids \cup {NoPid}, again : BOOLEAN]]
    /\ disturbed \in BOOLEAN

(***************************************************************************)
(* As long as nothing was disturbed there is one adapter at most: two would *)
(* both delete duplicates and send each measurement twice.  Restarts, stops *)
(* and deaths in any order must not make two (service.sh:3-8), although    *)
(* runStart looks for no other process: whoever runs start must do so.     *)
(***************************************************************************)
OneAdapter == ~disturbed => \A p, q \in Pids : Alive(p) /\ Alive(q) => p = q

(***************************************************************************)
(* As long as nothing was disturbed, the file names the adapter that runs, *)
(* whatever processes died before and left their PID in it (start.go:59,   *)
(* stop.go:27-51).                                                         *)
(***************************************************************************)
CanBeStopped ==
    ~disturbed => \A p \in Pids :
        proc[p].pc = "main" => pidfile = p \/ proc[p].signalled

(***************************************************************************)
(* A stop ends the adapter that runs when it begins: it finds its PID, the *)
(* adapter heeds the signal and exits (stop.go:26-51, start.go:80-89).     *)
(* Unless somebody disturbs it.                                            *)
(***************************************************************************)
StopEndsAdapter ==
    \A o \in Operators, p \in Pids :
        op[o].pc = "read" /\ proc[p].pc = "main" /\ ~disturbed
            ~> proc[p].pc # "main" \/ disturbed
=============================================================================
