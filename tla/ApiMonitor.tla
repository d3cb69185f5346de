----------------------------- MODULE ApiMonitor ------------------------------
(***************************************************************************)
(* The monitoring of one API: APIStatus/worker.go.                         *)
(*                                                                         *)
(* An API is a key of the master's table (namespace, name and address); an *)
(* answer of the registry has any number of metas for it, which differ in  *)
(* what the key leaves out: body, timeout, pattern.  Do makes a worker for *)
(* the first meta and keeps it as long as answers have the key.  The       *)
(* worker sleeps, monitors once, and from then on starts a goroutine       *)
(* monitorAPI at each tick, whether or not the one before has ended.       *)
(*                                                                         *)
(* monitorAPI asks the addresses of the API one after the other until one  *)
(* answers.  A bad pattern makes MustCompile panic, and the process dies.  *)
(*                                                                         *)
(* Time is discrete: a goroutine that can go on does so before time        *)
(* passes, but for the start of Run and the random sleep, which may take   *)
(* any time.                                                               *)
(***************************************************************************)
EXTENDS Integers, FiniteSetsExt

CONSTANTS
    Metas,                      \* the models.HTTPResponse of the key
    ResponseTimeout, HasBody,   \* of a meta; a timeout Atoi refuses is out of range
    Pattern,                    \* ResponseStringMatch: "none", "good" or "bad"
    Addresses,                  \* number of addresses (Split at "&&&")
    Requestable,                \* the addresses that http.NewRequest accepts
    Interval, DefaultTimeout, MinTimeout, MaxTimeout,
    PromptRun,                  \* BOOLEAN: a worker reaches Run before the next Do
    Workers, NoWorker,          \* bound: APIWorkers alive at a time
    Slots                       \* bound: monitorAPI goroutines of a worker at a time

ASSUME ApiAssumption ==
    /\ ResponseTimeout \in [Metas -> Int]
    /\ HasBody \in [Metas -> BOOLEAN]
    /\ Pattern \in [Metas -> {"none", "good", "bad"}]
    /\ Addresses \in Nat \ {0}
    /\ Requestable \subseteq 1 .. Addresses
    /\ {Interval, DefaultTimeout, MinTimeout, MaxTimeout} \subseteq Nat \ {0}
    /\ DefaultTimeout \in MinTimeout .. MaxTimeout
    /\ PromptRun \in BOOLEAN
    /\ Workers \subseteq Nat /\ Slots \subseteq Nat
    /\ NoWorker \notin Workers
    /\ Metas # {}

VARIABLES
    up,         \* the process runs
    worker,     \* the worker that the table has for the key
    inst,       \* the APIWorkers, each with the goroutine of its Run
    mon,        \* the monitorAPI goroutines, each with its local variables
    since       \* history: the metas of the answers since one without the key

Monitors == Workers \X Slots

vars == <<up, worker, inst, mon, since>>

AMeta == CHOOSE meta \in Metas : TRUE

\* next: time to the next tick.  extra: monitors started after Stop (history).
NewAPIWorker(meta) ==
    [pc |-> "born", meta |-> meta, opened |-> FALSE, done |-> FALSE, next |-> Interval,
     extra |-> 0]

Nobody == [NewAPIWorker(AMeta) EXCEPT !.pc = "none"]

\* i: the address asked; left: time to the timeout; body: what the reader still
\* has; alive, code and match: fields; whole (history): the request that was
\* answered had the body of the meta.
Monitor(meta) ==
    [pc |-> "asking", meta |-> meta, i |-> 1, left |-> 0,
     body |-> IF HasBody[meta] THEN "full" ELSE "none",
     alive |-> 0, code |-> "none", match |-> "none", whole |-> TRUE]

NoMonitor == [Monitor(AMeta) EXCEPT !.pc = "none", !.body = "none"]
Silent == [m \in Monitors |-> NoMonitor]

Of(w) == {k \in Slots : mon[w, k].pc # "none"}

Free(w) == inst[w].pc = "none" /\ Of(w) = {}

NoInst == [w \in Workers |-> Nobody]

Init == up = TRUE /\ worker = NoWorker /\ inst = NoInst /\ mon = Silent /\ since = {}

\* The process ends, with all its goroutines.
Forget == worker' = NoWorker /\ inst' = NoInst /\ mon' = Silent /\ since' = {}
-----------------------------------------------------------------------------
(* APIMaster.                                                              *)

\* Stop, which leaves a worker that is not yet in Run as it is.
Stopped(w) ==
    IF inst[w].opened THEN [inst[w] EXCEPT !.opened = FALSE, !.done = TRUE] ELSE inst[w]

\* Do with an answer that has the key: CreateWorker if there is no worker.
Keep(answer) ==
    /\ answer # {}
    /\ since' = since \cup answer
    /\ IF worker # NoWorker
       THEN UNCHANGED <<worker, inst>>
       ELSE \E w \in Workers, meta \in answer :
               /\ Free(w) /\ \A v \in Workers : v < w => ~Free(v)
               /\ worker' = w
               /\ inst' = [inst EXCEPT ![w] = NewAPIWorker(meta)]

\* Do with an answer that has not: RemoveWorker.  (And one that leaves it in the table.)
RemoveKeepsEntry ==
    /\ since' = {}
    /\ worker # NoWorker
    /\ inst' = [inst EXCEPT ![worker] = Stopped(worker)]
    /\ UNCHANGED worker

Remove ==
    /\ since' = {}
    /\ worker # NoWorker
    /\ inst' = [inst EXCEPT ![worker] = Stopped(worker)]
    /\ worker' = NoWorker

Do(answer) ==
    /\ up
    /\ PromptRun => \A w \in Workers : inst[w].pc # "born"
    /\ Keep(answer) \/ (answer = {} /\ Remove)
    /\ UNCHANGED <<up, mon>>
-----------------------------------------------------------------------------
(* The requests of monitorAPI.                                             *)

\* A timeout out of range, or that is no number, is the default one.  (And one
\* whose upper bound is forgotten.)
TimeoutNotCapped(meta) ==
    IF ResponseTimeout[meta] >= MinTimeout THEN ResponseTimeout[meta] ELSE DefaultTimeout

Timeout(meta) ==
    IF ResponseTimeout[meta] \in MinTimeout .. MaxTimeout
    THEN ResponseTimeout[meta] ELSE DefaultTimeout

At(this, pc, i, left) == [this EXCEPT !.pc = pc, !.i = i, !.left = left]

\* The loop goes on to client.Do with the first address from i on that makes a
\* request, or ends.
NextRequest(this) ==
    LET rest == {k \in Requestable : k >= this.i}
    IN  IF rest = {} THEN At(this, "send", Addresses + 1, 0)
        ELSE At(this, "asking", Min(rest), Timeout(this.meta))

-----------------------------------------------------------------------------
(* APIWorker.Run.                                                          *)

\* A monitorAPI for worker w is started.
Monitoring(w) ==
    \E k \in Slots \ Of(w) :
        /\ \A j \in Slots \ Of(w) : k <= j
        /\ mon' = [mon EXCEPT ![<<w, k>>] = NextRequest(Monitor(inst[w].meta))]

Extra(w) == IF inst[w].done THEN inst[w].extra + 1 ELSE 0

RunBegins(w) ==
    /\ up /\ inst[w].pc = "born"
    /\ inst' = [inst EXCEPT ![w].pc = IF inst[w].opened THEN "none" ELSE "sleep",
                            ![w].opened = TRUE]
    /\ UNCHANGED <<up, worker, mon, since>>

\* The random sleep is over; Run waits for the first monitorAPI (see Send).
FirstMonitor(w) ==
    /\ up /\ inst[w].pc = "sleep"
    /\ inst' = [inst EXCEPT ![w].pc = "first", ![w].extra = Extra(w)]
    /\ Monitoring(w)
    /\ UNCHANGED <<up, worker, since>>

Tick(w) ==
    /\ up /\ inst[w].pc = "select" /\ inst[w].next = 0
    /\ inst' = [inst EXCEPT ![w].next = Interval, ![w].extra = Extra(w)]
    /\ Monitoring(w)
    /\ UNCHANGED <<up, worker, since>>

\* `done` can be received.  (And a loop that asks for `opened` too, which Stop resets.)
ToldAndOpened(w) == inst[w].pc = "select" /\ inst[w].done /\ inst[w].opened

Told(w) == inst[w].pc = "select" /\ inst[w].done

Exit(w) ==
    /\ up /\ Told(w)
    /\ inst' = [inst EXCEPT ![w] = Nobody]
    /\ UNCHANGED <<up, worker, mon, since>>

Run(w) == RunBegins(w) \/ FirstMonitor(w) \/ Tick(w) \/ Exit(w)
-----------------------------------------------------------------------------
(* monitorAPI.                                                             *)

Goes(m, from, now) ==
    /\ up /\ mon[m].pc = from
    /\ mon' = [mon EXCEPT ![m] = now]
    /\ UNCHANGED <<up, worker, inst, since>>

\* A failure after which the loop stays at the address.
RequestRepeats(m) == Goes(m, "asking", NextRequest(mon[m]))

\* client.Do fails, by its timeout or before; the request may have read the body.
RequestFails(m) ==
    \E body \in {mon[m].body, IF HasBody[mon[m].meta] THEN "read" ELSE "none"} :
        Goes(m, "asking", NextRequest([mon[m] EXCEPT !.i = @ + 1, !.body = body]))

\* The loop ends with the first answer.  (And one that has lost its break.)
NoBreak(this) ==
    IF Pattern[this.meta] = "none" THEN NextRequest([this EXCEPT !.i = @ + 1])
    ELSE [this EXCEPT !.pc = "reading"]

Answered(this) ==
    IF Pattern[this.meta] = "none" THEN [this EXCEPT !.pc = "send", !.left = 0]
    ELSE [this EXCEPT !.pc = "reading"]

\* An answer, whose body is still to be read if there is a pattern for it.
Answer(m, code) ==
    /\ Pattern[mon[m].meta] # "bad"
    /\ Goes(m, "asking",
            Answered([mon[m] EXCEPT !.alive = IF code = "2xx" THEN 1 ELSE @,
                                    !.code = code,
                                    !.whole = mon[m].body # "read",
                                    !.body = IF @ = "full" THEN "read" ELSE @]))

\* The same with a bad pattern.
Panic(m) ==
    /\ up /\ mon[m].pc = "asking" /\ Pattern[mon[m].meta] = "bad"
    /\ up' = FALSE
    /\ Forget

\* The body of the answer is read and matched, or cannot be read.
Match(m) ==
    \E match \in {"yes", "no"} :
        Goes(m, "reading", [mon[m] EXCEPT !.pc = "send", !.match = match, !.left = 0])

\* The deferred `go Send`; when it was the first monitor, Run makes its ticker.
Send(m) ==
    LET w == m[1]
    IN  /\ up /\ mon[m].pc = "send"
        /\ mon' = [mon EXCEPT ![m] = NoMonitor]
        /\ inst' = IF inst[w].pc = "first"
                   THEN [inst EXCEPT ![w].pc = "select", ![w].next = Interval] ELSE inst
        /\ UNCHANGED <<up, worker, since>>

MonitorStep(m) ==
    \/ RequestFails(m) \/ Panic(m) \/ Match(m) \/ Send(m)
    \/ \E code \in {"2xx", "other"} : Answer(m, code)
-----------------------------------------------------------------------------
(* Time, and the process.                                                  *)

Waiting == {w \in Workers : inst[w].pc = "select"}
Asking == {m \in Monitors : mon[m].pc \in {"asking", "reading"}}

Time ==
    /\ up
    /\ \A w \in Waiting : inst[w].next > 0 /\ ~Told(w)
    /\ \A m \in Monitors : mon[m].pc # "send"
    /\ \A m \in Asking : mon[m].left > 0
    /\ inst' = [w \in Workers |->
                   IF w \in Waiting THEN [inst[w] EXCEPT !.next = @ - 1] ELSE inst[w]]
    /\ mon' = [m \in Monitors |->
                   IF m \in Asking THEN [mon[m] EXCEPT !.left = @ - 1] ELSE mon[m]]
    /\ UNCHANGED <<up, worker, since>>

\* The process is started again, after it died or was stopped.
Restart == up' = TRUE /\ Forget

Next ==
    \/ \E answer \in SUBSET Metas : Do(answer)
    \/ \E w \in Workers : Run(w)
    \/ \E m \in Monitors : MonitorStep(m)
    \/ Time
    \/ Restart

(***************************************************************************)
(* Goroutines run and time passes; nothing says that the registry changes  *)
(* or that somebody starts the process again.                              *)
(***************************************************************************)
Fairness ==
    /\ \A w \in Workers : WF_vars(Run(w)) /\ WF_vars(\E k \in Slots : MonitorStep(<<w, k>>))
    /\ WF_vars(Time)

Spec == Init /\ [][Next]_vars /\ Fairness
-----------------------------------------------------------------------------
TypeOK ==
    /\ up \in BOOLEAN
    /\ worker \in Workers \cup {NoWorker}
    /\ inst \in [Workers -> [pc : {"none", "born", "sleep", "first", "select"}, meta : Metas,
                             opened : BOOLEAN, done : BOOLEAN, next : 0 .. Interval,
                             extra : Nat]]
    /\ mon \in [Monitors -> [pc : {"none", "asking", "reading", "send"},
                             meta : Metas,
                             i : 1 .. Addresses + 1, left : 0 .. MaxTimeout,
                             body : {"none", "full", "read"}, alive : {0, 1},
                             code : {"none", "2xx", "other"}, match : {"none", "yes", "no"},
                             whole : BOOLEAN]]
    /\ since \subseteq Metas

(***************************************************************************)
(* A worker has only so many monitors at a time: one more than whole       *)
(* intervals fit into the longest that a monitor can take, which is one if *)
(* the timeouts of all addresses are shorter than an interval together.    *)
(* `go monitorAPI` at line 138 does not wait for the one before.           *)
(***************************************************************************)
BoundedMonitors ==
    \A w \in Workers : \A k \in Of(w) :
        Cardinality(Of(w)) <= (Addresses * Timeout(mon[w, k].meta)) \div Interval + 1

(***************************************************************************)
(* What is sent is the story of one answer: alive is 1 exactly if the code *)
(* sent with it is a 2xx, a match is sent only with a code, and the API is *)
(* said not to answer only after all its addresses were asked.  Only an    *)
(* address asked after another can have answered a request that lacks the  *)
(* body, which the one reader of line 184 gave to the address before.      *)
(***************************************************************************)
ReportTellsOneAnswer ==
    \A m \in Monitors : mon[m].pc = "send" =>
        /\ mon[m].alive = 1 <=> mon[m].code = "2xx"
        /\ mon[m].match # "none" => mon[m].code # "none"
        /\ mon[m].code = "none" => mon[m].i > Addresses
        /\ ~mon[m].whole => mon[m].i > 1

(***************************************************************************)
(* A worker is as old as its API: what it monitors was in an answer that   *)
(* was applied after the last one without the API.  (It keeps the meta it  *)
(* was made with while the key stays, line 52, but not over a gap.)        *)
(***************************************************************************)
StaleOnlyWithoutGap == worker # NoWorker => inst[worker].meta \in since

(***************************************************************************)
(* A worker that was told to stop starts at most one monitor more: the one *)
(* it sleeps for, or that of a tick that was due with `done`.              *)
(***************************************************************************)
OneMoreAfterStop == \A w \in Workers : inst[w].extra <= 1

(***************************************************************************)
(* An API that stays in the table is monitored again and again (lines      *)
(* 133-142), as long as the process runs.                                  *)
(***************************************************************************)
WatchedStaysWatched ==
    <>[](worker # NoWorker) => []<>(worker # NoWorker /\ Of(worker) # {})

(***************************************************************************)
(* APIStatus/worker.go:215-220 has a branch and a message for a pattern    *)
(* that does not compile: the API is reported as not matching.             *)
(***************************************************************************)
BadPatternIsReported == up
=============================================================================
