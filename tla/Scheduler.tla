------------------------------ MODULE Scheduler ------------------------------
(***************************************************************************)
(* The scan scheduler (sched/scheduler.go) with one registered module, as  *)
(* cmd/asm has: the module's loop, the scans it starts, AddTarget's        *)
(* immediate scan, ScanNow, RemoveTarget and Stop.  A step ends where the  *)
(* code lets go of s.mu or failMu, or may block.                           *)
(***************************************************************************)
EXTENDS Integers, FiniteSets

CONSTANTS Targets,           \* canonical names
          Jobs,              \* scan goroutines; bounds how many exist at once
          Adders, Clickers,  \* goroutines in AddTarget, in ScanNow
          Workers,           \* Config.Workers
          RetryBase, RetryMax,  \* in ticks
          MaxFailures        \* bound: a longer run of failures is counted as this one

ASSUME WorkersAssumption == Workers \in Nat \ {0}
ASSUME RetryAssumption == RetryBase \in Nat \ {0} /\ RetryMax \in Nat \ {0}
ASSUME MaxFailuresAssumption == MaxFailures \in Nat \ {0}
ASSUME JobsAssumption == IsFiniteSet(Jobs)
ASSUME ClickersAssumption == Clickers \cap {"sweep", "add"} = {}

VARIABLES started, cancelled,  \* s.started; the context of Start has ended
          stopper,           \* Stop: not called, in wg.Wait, returned
          targets,           \* reg.targets
          loop,              \* moduleLoop
          job,               \* scan goroutines
          sem, wg,           \* slots taken of s.sem; the counter of s.wg
          failures, holdoff, \* of moduleLoop: failures in a row, ticks until nextOK
          adder,             \* AddTarget calls
          clicker            \* ScanNow calls

vars == <<started, cancelled, stopper, targets, loop, job, sem, wg, failures, holdoff, adder, clicker>>
gate == <<failures, holdoff>>
callers == <<adder, clicker>>
life == <<started, cancelled, stopper>>

NoJob == [pc |-> "none", target |-> "none", origin |-> "none", err |-> "ok"]
Job == [pc : {"queued", "collect", "reconcile", "onresult", "settle", "onerror"}, target : Targets,
        origin : {"sweep", "add"} \cup Clickers, err : {"ok", "failed", "cancelled"}]
NewJob(t, origin) == [pc |-> "queued", target |-> t, origin |-> origin, err |-> "ok"]

Alive == {j \in Jobs : job[j].pc # "none"}
Scanning == {j \in Jobs : job[j].pc \in {"collect", "reconcile", "onresult"}}
Waited == {j \in Alive : job[j].origin \in {"sweep", "add"}}  \* those in s.wg

(* backoffFor: the loop doubles, and stops at the cap.                      *)
DoubledCapped(n) == LET d[i \in 1..n] == IF i = 1 THEN RetryBase
                                        ELSE IF d[i-1] >= RetryMax THEN RetryMax ELSE 2 * d[i-1]
                    IN d[n]

(* Mutants: the loop runs from 0; a base above the cap is not cut.          *)
BackoffForUncapped(n) == DoubledCapped(n)
BackoffForOneMore(n) == IF DoubledCapped(n + 1) > RetryMax THEN RetryMax ELSE DoubledCapped(n + 1)

BackoffFor(n) == IF DoubledCapped(n) > RetryMax THEN RetryMax ELSE DoubledCapped(n)

Init == /\ started = FALSE /\ cancelled = FALSE /\ stopper = "open"
        /\ targets \in SUBSET Targets
        /\ loop = [pc |-> "off", todo |-> {}]
        /\ job = [j \in Jobs |-> NoJob]
        /\ sem = 0 /\ wg = 0
        /\ failures = [t \in Targets |-> 0] /\ holdoff = [t \in Targets |-> 0]
        /\ adder = [a \in Adders |-> [pc |-> "idle", target |-> "none"]]
        /\ clicker = [c \in Clickers |-> [pc |-> "idle", gone |-> FALSE, todo |-> {}]]

(* The context of a scan: the request's for ScanNow, else that of Start.    *)
Done(j) == IF job[j].origin \in Clickers THEN clicker[job[j].origin].gone ELSE cancelled

(* Mutant: the scans of a sweep are not counted.                            *)
CountedAdds(origin) == origin = "add"

Counted(origin) == origin \in {"sweep", "add"}

(* go func() { ... s.scanOne(...) }, after s.wg.Add(1) where it is counted. *)
Spawn(t, origin) ==
    \E j \in Jobs : /\ job[j] = NoJob
                    /\ job' = [job EXCEPT ![j] = NewJob(t, origin)]
                    /\ wg' = IF Counted(origin) THEN wg + 1 ELSE wg

-----------------------------------------------------------------------------
(* Start, Stop and the end of Start's parent context (a signal).            *)

Start ==
    /\ ~started
    /\ started' = TRUE
    /\ loop' = [loop EXCEPT !.pc = "begin"]
    /\ wg' = wg + 1
    /\ UNCHANGED <<cancelled, stopper, targets, job, sem, gate, callers>>

Signal ==
    /\ started /\ ~cancelled
    /\ cancelled' = TRUE
    /\ UNCHANGED <<started, stopper, targets, loop, job, sem, wg, gate, callers>>

(* cmd/asm calls it once, after Start.                                      *)
Stop ==
    /\ started /\ stopper = "open"
    /\ stopper' = "waiting"
    /\ cancelled' = TRUE
    /\ UNCHANGED <<started, targets, loop, job, sem, wg, gate, callers>>

StopReturns ==
    /\ stopper = "waiting"
    /\ wg = 0
    /\ stopper' = "returned"
    /\ UNCHANGED <<started, cancelled, targets, loop, job, sem, wg, gate, callers>>

-----------------------------------------------------------------------------
(* moduleLoop.                                                              *)

(* The first sweep, and one each time the interval is over.                 *)
Sweep ==
    /\ loop.pc \in {"begin", "sleep"}
    /\ loop' = [pc |-> "sweep", todo |-> targets]
    /\ UNCHANGED <<life, targets, job, sem, wg, gate, callers>>

SweepScans(t) ==
    /\ loop.pc = "sweep" /\ t \in loop.todo
    /\ holdoff[t] = 0
    /\ Spawn(t, "sweep")
    /\ loop' = [loop EXCEPT !.todo = @ \ {t}]
    /\ UNCHANGED <<life, targets, sem, gate, callers>>

(* Still backing off this target.                                           *)
SweepSkips(t) ==
    /\ loop.pc = "sweep" /\ t \in loop.todo
    /\ holdoff[t] > 0
    /\ loop' = [loop EXCEPT !.todo = @ \ {t}]
    /\ UNCHANGED <<life, targets, job, sem, wg, gate, callers>>

SweepEnds ==
    /\ loop.pc = "sweep" /\ loop.todo = {}
    /\ loop' = [loop EXCEPT !.pc = "sleep"]
    /\ UNCHANGED <<life, targets, job, sem, wg, gate, callers>>

LoopEnds ==
    /\ loop.pc = "sleep" /\ cancelled
    /\ loop' = [loop EXCEPT !.pc = "ended"]
    /\ wg' = wg - 1
    /\ UNCHANGED <<life, targets, job, sem, gate, callers>>

Tick ==
    /\ \E t \in Targets : holdoff[t] > 0
    /\ holdoff' = [t \in Targets |-> IF holdoff[t] > 0 THEN holdoff[t] - 1 ELSE 0]
    /\ UNCHANGED <<life, targets, loop, job, sem, wg, failures, callers>>

-----------------------------------------------------------------------------
(* scanOne, and what the goroutine does with its result.                    *)

Moves(j, to, err) == job' = [job EXCEPT ![j] = [job[j] EXCEPT !.pc = to, !.err = err]]

(* select chooses either when both are ready: a free slot may be taken by a *)
(* scan whose context has ended.                                           *)
Acquire(j) ==
    /\ job[j].pc = "queued" /\ sem < Workers
    /\ sem' = sem + 1
    /\ Moves(j, "collect", "ok")
    /\ UNCHANGED <<life, targets, loop, wg, gate, callers>>

GiveUp(j) ==
    /\ job[j].pc = "queued" /\ Done(j)
    /\ Moves(j, "settle", "cancelled")
    /\ UNCHANGED <<life, targets, loop, sem, wg, gate, callers>>

(* Collect returns, at the latest when ScanTimeout ends its context.        *)
Collected(j) ==
    /\ job[j].pc = "collect"
    /\ Moves(j, "reconcile", "ok")
    /\ UNCHANGED <<life, targets, loop, sem, wg, gate, callers>>

(* Mutant: a scan keeps its slot.                                           *)
SlotsAfterNone == sem

SlotsAfter == sem - 1

CollectFails(j, err) ==
    /\ job[j].pc = "collect"
    /\ err = "cancelled" => Done(j)
    /\ Moves(j, "settle", err)
    /\ sem' = SlotsAfter
    /\ UNCHANGED <<life, targets, loop, wg, gate, callers>>

(* Engine.Reconcile: module Reconcile has its steps.                        *)
Reconciled(j) ==
    /\ job[j].pc = "reconcile"
    /\ Moves(j, "onresult", "ok")
    /\ UNCHANGED <<life, targets, loop, sem, wg, gate, callers>>

ReconcileFails(j) ==
    /\ job[j].pc = "reconcile"
    /\ Moves(j, "settle", "failed")
    /\ sem' = SlotsAfter
    /\ UNCHANGED <<life, targets, loop, wg, gate, callers>>

ResultDelivered(j) ==
    /\ job[j].pc = "onresult"
    /\ Moves(j, "settle", "ok")
    /\ sem' = SlotsAfter
    /\ UNCHANGED <<life, targets, loop, wg, gate, callers>>

(* Mutants: the scans of ScanNow call s.wg.Done as well; no scan does.      *)
ExitAlwaysDone(j) == job' = [job EXCEPT ![j] = NoJob] /\ wg' = wg - 1
ExitWithoutDone(j) == job' = [job EXCEPT ![j] = NoJob] /\ wg' = wg

Exit(j) == /\ job' = [job EXCEPT ![j] = NoJob]
           /\ wg' = IF Counted(job[j].origin) THEN wg - 1 ELSE wg

(* A failure of a sweep's scan: the target is held back, and OnError is     *)
(* called.  failMu is held from here to there: who waits for it comes later.*)
Penalise(j) ==
    LET t == job[j].target
        n == IF failures[t] < MaxFailures THEN failures[t] + 1 ELSE MaxFailures
    IN /\ job[j].pc = "settle" /\ job[j].origin = "sweep" /\ job[j].err = "failed"
       /\ failures' = [failures EXCEPT ![t] = n]
       /\ holdoff' = [holdoff EXCEPT ![t] = BackoffFor(n)]
       /\ Moves(j, "onerror", "failed")
       /\ UNCHANGED <<life, targets, loop, sem, wg, callers>>

ErrorDelivered(j) ==
    /\ job[j].pc = "onerror"
    /\ Exit(j)
    /\ UNCHANGED <<life, targets, loop, sem, gate, callers>>

Forgive(j) ==
    /\ job[j].pc = "settle" /\ job[j].origin = "sweep" /\ job[j].err # "failed"
    /\ failures' = [failures EXCEPT ![job[j].target] = 0]
    /\ holdoff' = [holdoff EXCEPT ![job[j].target] = 0]
    /\ Exit(j)
    /\ UNCHANGED <<life, targets, loop, sem, callers>>

(* AddTarget and ScanNow drop the error of their scans.                     *)
Dropped(j) ==
    /\ job[j].pc = "settle" /\ job[j].origin # "sweep"
    /\ Exit(j)
    /\ UNCHANGED <<life, targets, loop, sem, gate, callers>>

-----------------------------------------------------------------------------
(* AddTarget, RemoveTarget and ScanNow.                                     *)

(* The target is in the map; s.started is read under the same lock.         *)
AddTarget(a, t) ==
    /\ adder[a].pc = "idle"
    /\ targets' = targets \cup {t}
    /\ adder' = [adder EXCEPT ![a] = IF started THEN [pc |-> "added", target |-> t] ELSE @]
    /\ UNCHANGED <<life, loop, job, sem, wg, gate, clicker>>

(* ctx.Err() is looked at after the lock, and before s.wg.Add.              *)
AddChecks(a) ==
    /\ adder[a].pc = "added"
    /\ adder' = [adder EXCEPT ![a] = IF cancelled THEN [pc |-> "idle", target |-> "none"]
                                     ELSE [adder[a] EXCEPT !.pc = "spawn"]]
    /\ UNCHANGED <<life, targets, loop, job, sem, wg, gate, clicker>>

AddScans(a) ==
    /\ adder[a].pc = "spawn"
    /\ Spawn(adder[a].target, "add")
    /\ adder' = [adder EXCEPT ![a] = [pc |-> "idle", target |-> "none"]]
    /\ UNCHANGED <<life, targets, loop, sem, gate, clicker>>

RemoveTarget(t) ==
    /\ t \in targets
    /\ targets' = targets \ {t}
    /\ UNCHANGED <<life, loop, job, sem, wg, gate, callers>>

ScanNow(c) ==
    /\ clicker[c].pc = "idle"
    /\ clicker' = [clicker EXCEPT ![c] = [pc |-> "scans", gone |-> FALSE, todo |-> targets]]
    /\ UNCHANGED <<life, targets, loop, job, sem, wg, gate, adder>>

ScanNowScans(c, t) ==
    /\ clicker[c].pc = "scans" /\ t \in clicker[c].todo
    /\ Spawn(t, c)
    /\ clicker' = [clicker EXCEPT ![c] = [clicker[c] EXCEPT !.todo = clicker[c].todo \ {t}]]
    /\ UNCHANGED <<life, targets, loop, sem, gate, adder>>

(* The HTTP request goes away.                                              *)
RequestGone(c) ==
    /\ clicker[c].pc = "scans" /\ ~clicker[c].gone
    /\ clicker' = [clicker EXCEPT ![c] = [clicker[c] EXCEPT !.gone = TRUE]]
    /\ UNCHANGED <<life, targets, loop, job, sem, wg, gate, adder>>

ScanNowReturns(c) ==
    /\ clicker[c].pc = "scans" /\ clicker[c].todo = {}
    /\ \A j \in Jobs : job[j].origin # c
    /\ clicker' = [clicker EXCEPT ![c] = [pc |-> "idle", gone |-> FALSE, todo |-> {}]]
    /\ UNCHANGED <<life, targets, loop, job, sem, wg, gate, adder>>

-----------------------------------------------------------------------------
SweepNext == \E t \in Targets : SweepScans(t) \/ SweepSkips(t)
LoopStep == Sweep \/ SweepNext \/ SweepEnds \/ LoopEnds

JobStep(j) == \/ GiveUp(j) \/ Collected(j) \/ (\E err \in {"failed", "cancelled"} : CollectFails(j, err))
              \/ Reconciled(j) \/ ReconcileFails(j) \/ ResultDelivered(j)
              \/ Penalise(j) \/ ErrorDelivered(j) \/ Forgive(j) \/ Dropped(j)

CallerStep == \/ \E a \in Adders : AddChecks(a) \/ AddScans(a)
              \/ \E c \in Clickers : (\E t \in Targets : ScanNowScans(c, t)) \/ ScanNowReturns(c)

UserStep == \/ \E a \in Adders, t \in Targets : AddTarget(a, t)
            \/ \E t \in Targets : RemoveTarget(t)
            \/ \E c \in Clickers : ScanNow(c) \/ RequestGone(c)

Next == \/ Start \/ Signal \/ Stop \/ StopReturns
        \/ LoopStep \/ Tick
        \/ \E j \in Jobs : Acquire(j) \/ JobStep(j)
        \/ CallerStep \/ UserStep

Spec == Init /\ [][Next]_vars

(* Goroutines run, and time passes.  A scan that waits for a slot gets one  *)
(* in its turn: senders wait on a channel in order.  And a loop whose      *)
(* context has ended does not find its interval over at the same moment    *)
(* for ever: select picks at random.                                       *)
Fairness == /\ WF_vars(StopReturns) /\ WF_vars(Sweep \/ SweepEnds) /\ WF_vars(Tick)
            /\ SF_vars(LoopEnds) /\ SF_vars(SweepNext)
            /\ \A j \in Jobs : SF_vars(Acquire(j)) /\ WF_vars(JobStep(j))

FairSpec == Spec /\ Fairness

-----------------------------------------------------------------------------
(* Properties.                                                              *)

(* The type of every variable.                                              *)
TypeOK == /\ started \in BOOLEAN /\ cancelled \in BOOLEAN
          /\ stopper \in {"open", "waiting", "returned"}
          /\ targets \in SUBSET Targets
          /\ loop \in [pc : {"off", "begin", "sweep", "sleep", "ended"}, todo : SUBSET Targets]
          /\ job \in [Jobs -> Job \cup {NoJob}]
          /\ sem \in Nat /\ wg \in Nat
          /\ failures \in [Targets -> 0..MaxFailures]
          /\ holdoff \in [Targets -> 0..RetryMax]
          /\ adder \in [Adders -> [pc : {"idle", "added", "spawn"}, target : Targets \cup {"none"}]]
          /\ clicker \in [Clickers -> [pc : {"idle", "scans"}, gone : BOOLEAN, todo : SUBSET Targets]]

(* s.sem is taken by the scans in progress and by nothing else, on every    *)
(* way out of scanOne; so no more than Workers of them run at once, sweeps,*)
(* new targets and ScanNow together.                                       *)
SlotsHeldByScans == sem = Cardinality(Scanning) /\ sem <= Workers

(* Stop returns when the loop and every scan it started have ended, and     *)
(* none is started later.                                                  *)
StopWaitsForSweeps ==
    stopper = "returned" => loop.pc = "ended" /\ \A j \in Alive : job[j].origin # "sweep"

(* Another failure in a row holds a target back for the doubled base, up to *)
(* the cap (scheduler.go:338, with the count of scheduler.go:275).          *)
Doubled(n) == RetryBase * 2^(n - 1)
BackoffDoubles ==
    [][\A t \in Targets : LET n == failures'[t] IN
           n > failures[t] => holdoff'[t] = IF Doubled(n) < RetryMax THEN Doubled(n) ELSE RetryMax]_vars

(* "Stop cancels all loops and waits for in-flight scans to finish"         *)
(* (scheduler.go:196).                                                     *)
NothingRunsAfterStop == stopper = "returned" => Scanning = {}

(* Stop comes back.                                                         *)
StopEnds == stopper = "waiting" ~> stopper = "returned"

(* A registered target is scanned sooner or later, and again, whatever      *)
(* failed before and however busy the pool is.                             *)
Rescanned ==
    \A t \in Targets : started /\ t \in targets
        ~> \/ \E j \in Scanning : job[j].target = t
           \/ cancelled \/ t \notin targets
=============================================================================
