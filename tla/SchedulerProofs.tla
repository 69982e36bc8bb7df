-------------------------- MODULE SchedulerProofs --------------------------
(***************************************************************************)
(* What holds of the scheduler for every set of targets, goroutines and    *)
(* callers and any number of workers: worker slots are held by scans in    *)
(* progress and by nothing else, the wait group counts exactly the loop    *)
(* and the scans that were added to it, and Stop returns after them.       *)
(***************************************************************************)
EXTENDS Scheduler, FiniteSetTheorems, TLAPS

USE WorkersAssumption, JobsAssumption, ClickersAssumption, MaxFailuresAssumption

(* Types, but for the delays: what DoubledCapped computes needs induction.  *)
(* And an AddTarget call under way has its target.                         *)
Typed ==
    /\ started \in BOOLEAN /\ cancelled \in BOOLEAN
    /\ stopper \in {"open", "waiting", "returned"}
    /\ targets \in SUBSET Targets
    /\ loop \in [pc : {"off", "begin", "sweep", "sleep", "ended"}, todo : SUBSET Targets]
    /\ job \in [Jobs -> Job \cup {NoJob}]
    /\ failures \in [Targets -> 0..MaxFailures]
    /\ adder \in [Adders -> [pc : {"idle", "added", "spawn"}, target : Targets \cup {"none"}]]
    /\ \A a \in Adders : adder[a].pc # "idle" => adder[a].target \in Targets
    /\ clicker \in [Clickers -> [pc : {"idle", "scans"}, gone : BOOLEAN, todo : SUBSET Targets]]

Holds(record) == record.pc \in {"collect", "reconcile", "onresult"}
Waits(record) == record.pc # "none" /\ record.origin \in {"sweep", "add"}
One(condition) == IF condition THEN 1 ELSE 0
LoopRuns == loop.pc \in {"begin", "sweep", "sleep"}

(* The counters of the code against what they are meant to count.           *)
SlotsExact == sem = Cardinality(Scanning) /\ sem <= Workers
GroupExact == wg = Cardinality(Waited) + One(LoopRuns)

(* The loop is off exactly before Start, Stop comes after Start.            *)
StopInv ==
    /\ loop.pc = "off" <=> ~started
    /\ stopper # "open" => started
    /\ StopWaitsForSweeps

Counters == SlotsExact /\ GroupExact

-----------------------------------------------------------------------------
(* Counting the scans.                                                      *)

(* There are finitely many scans.                                           *)
LEMMA CountsAreNumbers ==
    /\ IsFiniteSet(Scanning) /\ Cardinality(Scanning) \in Nat
    /\ IsFiniteSet(Waited) /\ Cardinality(Waited) \in Nat
<1>1. Scanning \in SUBSET Jobs /\ Waited \in SUBSET Jobs
  BY DEF Scanning, Waited, Alive
<1>2. IsFiniteSet(Scanning) /\ IsFiniteSet(Waited)
  BY <1>1, FS_Subset
<1> QED BY <1>2, FS_CardinalityType

(* When one scan goroutine changes, each count changes by what it was and   *)
(* what it has become.                                                     *)
LEMMA Recount ==
    ASSUME job \in [Jobs -> Job \cup {NoJob}], NEW j \in Jobs, NEW new,
           job' = [job EXCEPT ![j] = new]
    PROVE  /\ Cardinality(Scanning') = Cardinality(Scanning) + One(Holds(new)) - One(Holds(job[j]))
           /\ Cardinality(Waited') = Cardinality(Waited) + One(Waits(new)) - One(Waits(job[j]))
<1>1. \A k \in Jobs : job'[k] = IF k = j THEN new ELSE job[k]
  OBVIOUS
<1>2. /\ Scanning' = IF Holds(new) THEN Scanning \cup {j} ELSE Scanning \ {j}
      /\ j \in Scanning <=> Holds(job[j])
  BY <1>1 DEF Scanning, Holds
<1>3. /\ Waited' = IF Waits(new) THEN Waited \cup {j} ELSE Waited \ {j}
      /\ j \in Waited <=> Waits(job[j])
  BY <1>1 DEF Waited, Alive, Waits
<1>4. /\ Cardinality(Scanning \cup {j}) = IF j \in Scanning THEN Cardinality(Scanning) ELSE Cardinality(Scanning) + 1
      /\ Cardinality(Scanning \ {j}) = IF j \in Scanning THEN Cardinality(Scanning) - 1 ELSE Cardinality(Scanning)
      /\ Cardinality(Waited \cup {j}) = IF j \in Waited THEN Cardinality(Waited) ELSE Cardinality(Waited) + 1
      /\ Cardinality(Waited \ {j}) = IF j \in Waited THEN Cardinality(Waited) - 1 ELSE Cardinality(Waited)
  BY CountsAreNumbers, FS_AddElement, FS_RemoveElement
<1>5. Cardinality(Scanning') = Cardinality(Scanning) + One(Holds(new)) - One(Holds(job[j]))
  BY <1>2, <1>4, CountsAreNumbers DEF One
<1>6. Cardinality(Waited') = Cardinality(Waited) + One(Waits(new)) - One(Waits(job[j]))
  BY <1>3, <1>4, CountsAreNumbers DEF One
<1> QED BY <1>5, <1>6

(* A goroutine that is under way is a scan of some target.                  *)
LEMMA UnderWay ==
    ASSUME job \in [Jobs -> Job \cup {NoJob}], NEW j \in Jobs, job[j].pc # "none"
    PROVE  job[j] \in Job
BY DEF NoJob

(* A scan that moves on stays the scan it is.                               *)
LEMMA MovedJob ==
    ASSUME job \in [Jobs -> Job \cup {NoJob}], NEW j \in Jobs, job[j].pc # "none",
           NEW to \in {"collect", "reconcile", "onresult", "settle", "onerror"},
           NEW err \in {"ok", "failed", "cancelled"}, Moves(j, to, err)
    PROVE  \E new \in Job : /\ job' = [job EXCEPT ![j] = new]
                            /\ new.pc = to /\ new.err = err
                            /\ new.origin = job[j].origin /\ new.target = job[j].target
<1>1. job[j] \in Job
  BY UnderWay
<1> DEFINE new == [job[j] EXCEPT !.pc = to, !.err = err]
<1>2. new \in Job /\ new.pc = to /\ new.err = err /\ new.origin = job[j].origin /\ new.target = job[j].target
  BY <1>1 DEF Job
<1>3. job' = [job EXCEPT ![j] = new]
  BY DEF Moves
<1> QED BY <1>2, <1>3

(* Such a scan stays counted in the wait group as it was; in the slots it   *)
(* is counted by where it has come to.                                     *)
LEMMA MoveCounts ==
    ASSUME job \in [Jobs -> Job \cup {NoJob}], NEW j \in Jobs, job[j].pc # "none",
           NEW to \in {"collect", "reconcile", "onresult", "settle", "onerror"},
           NEW err \in {"ok", "failed", "cancelled"}, Moves(j, to, err)
    PROVE  /\ job' \in [Jobs -> Job \cup {NoJob}]
           /\ Cardinality(Scanning') = Cardinality(Scanning)
                 + One(to \in {"collect", "reconcile", "onresult"}) - One(Holds(job[j]))
           /\ Cardinality(Waited') = Cardinality(Waited)
<1>1. PICK new \in Job : /\ job' = [job EXCEPT ![j] = new]
                         /\ new.pc = to /\ new.err = err
                         /\ new.origin = job[j].origin /\ new.target = job[j].target
  BY MovedJob
<1>2. job' \in [Jobs -> Job \cup {NoJob}]
  BY <1>1
<1>3. Waits(new) <=> Waits(job[j])
  BY <1>1 DEF Waits
<1>4. Holds(new) <=> to \in {"collect", "reconcile", "onresult"}
  BY <1>1 DEF Holds
<1>5. One(Waits(new)) \in {0, 1} /\ One(Waits(job[j])) = One(Waits(new))
  BY <1>3 DEF One
<1>6. One(Holds(new)) = One(to \in {"collect", "reconcile", "onresult"})
  BY <1>4 DEF One
<1>7. /\ Cardinality(Scanning') = Cardinality(Scanning) + One(Holds(new)) - One(Holds(job[j]))
      /\ Cardinality(Waited') = Cardinality(Waited) + One(Waits(new)) - One(Waits(job[j]))
  BY <1>1, Recount
<1>8. Cardinality(Waited') = Cardinality(Waited)
  BY <1>5, <1>7, CountsAreNumbers
<1> QED BY <1>2, <1>6, <1>7, <1>8

(* A new scan holds no slot; it is in the wait group if it was added to it. *)
LEMMA SpawnCounts ==
    ASSUME job \in [Jobs -> Job \cup {NoJob}], NEW t \in Targets,
           NEW origin \in {"sweep", "add"} \cup Clickers, wg \in Nat, Spawn(t, origin)
    PROVE  /\ job' \in [Jobs -> Job \cup {NoJob}]
           /\ Cardinality(Scanning') = Cardinality(Scanning)
           /\ wg' \in Nat /\ Cardinality(Waited') \in Int
           /\ wg' - wg = Cardinality(Waited') - Cardinality(Waited)
<1>1. PICK j \in Jobs : /\ job[j] = NoJob
                        /\ job' = [job EXCEPT ![j] = NewJob(t, origin)]
                        /\ wg' = IF Counted(origin) THEN wg + 1 ELSE wg
  BY DEF Spawn
<1>2. NewJob(t, origin) \in Job
  BY DEF NewJob, Job
<1>3. ~Holds(job[j]) /\ ~Waits(job[j]) /\ ~Holds(NewJob(t, origin))
  BY <1>1 DEF Holds, Waits, NoJob, NewJob
<1>4. Waits(NewJob(t, origin)) <=> Counted(origin)
  BY DEF Waits, NewJob, Counted
<1>5. /\ Cardinality(Scanning') = Cardinality(Scanning) + One(Holds(NewJob(t, origin))) - One(Holds(job[j]))
      /\ Cardinality(Waited') = Cardinality(Waited) + One(Waits(NewJob(t, origin))) - One(Waits(job[j]))
  BY <1>1, Recount
<1>6. job' \in [Jobs -> Job \cup {NoJob}]
  BY <1>1, <1>2
<1>7. Cardinality(Scanning') = Cardinality(Scanning)
  BY <1>3, <1>5, CountsAreNumbers DEF One
<1>8. Cardinality(Waited') = Cardinality(Waited) + One(Counted(origin))
  BY <1>3, <1>4, <1>5, CountsAreNumbers DEF One
<1>9. /\ wg' \in Nat /\ Cardinality(Waited') \in Int
      /\ wg' - wg = Cardinality(Waited') - Cardinality(Waited)
  BY <1>1, <1>8, CountsAreNumbers DEF One
<1> QED BY <1>6, <1>7, <1>9

(* A scan that ends where it holds no slot leaves the wait group if it was  *)
(* in it.                                                                  *)
LEMMA ExitCounts ==
    ASSUME job \in [Jobs -> Job \cup {NoJob}], NEW j \in Jobs, job[j].pc \in {"settle", "onerror"},
           wg \in Int, Exit(j)
    PROVE  /\ job' \in [Jobs -> Job \cup {NoJob}]
           /\ Cardinality(Scanning') = Cardinality(Scanning)
           /\ wg' \in Int /\ Cardinality(Waited') \in Int
           /\ wg' - wg = Cardinality(Waited') - Cardinality(Waited)
<1>1. /\ job' = [job EXCEPT ![j] = NoJob]
      /\ wg' = IF Counted(job[j].origin) THEN wg - 1 ELSE wg
  BY DEF Exit
<1>2. ~Holds(NoJob) /\ ~Waits(NoJob) /\ ~Holds(job[j])
  BY DEF Holds, Waits, NoJob
<1>3. Waits(job[j]) <=> Counted(job[j].origin)
  BY DEF Waits, Counted
<1>4. /\ Cardinality(Scanning') = Cardinality(Scanning) + One(Holds(NoJob)) - One(Holds(job[j]))
      /\ Cardinality(Waited') = Cardinality(Waited) + One(Waits(NoJob)) - One(Waits(job[j]))
  BY <1>1, Recount
<1>5. job' \in [Jobs -> Job \cup {NoJob}]
  BY <1>1
<1>6. Cardinality(Scanning') = Cardinality(Scanning)
  BY <1>2, <1>4, CountsAreNumbers DEF One
<1>7. Cardinality(Waited') = Cardinality(Waited) - One(Counted(job[j].origin))
  BY <1>2, <1>3, <1>4, CountsAreNumbers DEF One
<1>8. /\ wg' \in Int /\ Cardinality(Waited') \in Int
      /\ wg' - wg = Cardinality(Waited') - Cardinality(Waited)
  BY <1>1, <1>7, CountsAreNumbers DEF One
<1> QED BY <1>5, <1>6, <1>8

-----------------------------------------------------------------------------
(* Types.                                                                   *)

(* Every scan stays a scan of a target; the count of its failures is below  *)
(* its bound.                                                              *)
LEMMA JobStepTyped ==
    ASSUME Typed, NEW j \in Jobs, Acquire(j) \/ JobStep(j)
    PROVE  /\ job' \in [Jobs -> Job \cup {NoJob}]
           /\ failures' \in [Targets -> 0..MaxFailures]
           /\ UNCHANGED <<life, targets, loop, callers>>
<1> USE DEF gate
<1>0. job \in [Jobs -> Job \cup {NoJob}] /\ failures \in [Targets -> 0..MaxFailures]
  BY DEF Typed
<1>1. CASE Acquire(j)
  <2>1. job' \in [Jobs -> Job \cup {NoJob}]
    BY <1>0, <1>1, MoveCounts DEF Acquire
  <2> QED BY <1>0, <1>1, <2>1 DEF Acquire
<1>2. CASE GiveUp(j)
  <2>1. job' \in [Jobs -> Job \cup {NoJob}]
    BY <1>0, <1>2, MoveCounts DEF GiveUp
  <2> QED BY <1>0, <1>2, <2>1 DEF GiveUp
<1>3. CASE Collected(j)
  <2>1. job' \in [Jobs -> Job \cup {NoJob}]
    BY <1>0, <1>3, MoveCounts DEF Collected
  <2> QED BY <1>0, <1>3, <2>1 DEF Collected
<1>4. ASSUME NEW err \in {"failed", "cancelled"}, CollectFails(j, err)
      PROVE  /\ job' \in [Jobs -> Job \cup {NoJob}]
             /\ failures' \in [Targets -> 0..MaxFailures]
             /\ UNCHANGED <<life, targets, loop, callers>>
  <2>1. job' \in [Jobs -> Job \cup {NoJob}]
    BY <1>0, <1>4, MoveCounts DEF CollectFails
  <2> QED BY <1>0, <1>4, <2>1 DEF CollectFails
<1>5. CASE Reconciled(j) \/ ReconcileFails(j) \/ ResultDelivered(j)
  <2>1. job' \in [Jobs -> Job \cup {NoJob}]
    BY <1>0, <1>5, MoveCounts DEF Reconciled, ReconcileFails, ResultDelivered
  <2> QED BY <1>0, <1>5, <2>1 DEF Reconciled, ReconcileFails, ResultDelivered
<1>6. CASE Penalise(j)
  <2>1. job' \in [Jobs -> Job \cup {NoJob}]
    BY <1>0, <1>6, MoveCounts DEF Penalise
  <2>2. job[j] \in Job
    BY <1>0, <1>6, UnderWay DEF Penalise
  <2>3. job[j].target \in Targets
    BY <2>2 DEF Job
  <2>4. failures' \in [Targets -> 0..MaxFailures]
    BY <1>0, <1>6, <2>3 DEF Penalise
  <2> QED BY <1>6, <2>1, <2>4 DEF Penalise
<1>7. CASE Forgive(j)
  <2>1. job' \in [Jobs -> Job \cup {NoJob}]
    BY <1>0, <1>7 DEF Forgive, Exit
  <2>2. failures' = [failures EXCEPT ![job[j].target] = 0] /\ 0 \in 0..MaxFailures
    BY <1>7 DEF Forgive
  <2>3. failures' \in [Targets -> 0..MaxFailures]
    BY <1>0, <2>2
  <2> QED BY <1>7, <2>1, <2>3 DEF Forgive
<1>8. CASE ErrorDelivered(j) \/ Dropped(j)
  <2>1. job' \in [Jobs -> Job \cup {NoJob}]
    BY <1>0, <1>8 DEF ErrorDelivered, Dropped, Exit
  <2> QED BY <1>0, <1>8, <2>1 DEF ErrorDelivered, Dropped
<1> QED BY <1>1, <1>2, <1>3, <1>4, <1>5, <1>6, <1>7, <1>8 DEF JobStep

(* A new scan of a target is typed.                                         *)
LEMMA SpawnTyped ==
    ASSUME job \in [Jobs -> Job \cup {NoJob}], NEW t \in Targets,
           NEW origin \in {"sweep", "add"} \cup Clickers, Spawn(t, origin)
    PROVE  job' \in [Jobs -> Job \cup {NoJob}]
BY DEF Spawn, NewJob, Job

(* The loop's snapshot is a set of targets, and a call under way keeps the  *)
(* target it was made with.                                                *)
LEMMA StepKeepsTypes == Typed /\ [Next]_vars => Typed'
<1> SUFFICES ASSUME Typed, [Next]_vars
             PROVE  Typed'
  OBVIOUS
<1> USE DEF life, gate, callers
<1>0. job \in [Jobs -> Job \cup {NoJob}]
  BY DEF Typed
<1>1. CASE Start \/ Signal \/ Stop \/ StopReturns
  BY <1>1 DEF Start, Signal, Stop, StopReturns, Typed
<1>2. CASE Sweep \/ SweepEnds \/ LoopEnds \/ Tick
  BY <1>2 DEF Sweep, SweepEnds, LoopEnds, Tick, Typed
<1>3. ASSUME NEW t \in Targets, SweepScans(t)
      PROVE  Typed'
  <2>1. job' \in [Jobs -> Job \cup {NoJob}]
    BY <1>0, <1>3, SpawnTyped DEF SweepScans
  <2> QED BY <1>3, <2>1 DEF SweepScans, Typed
<1>4. ASSUME NEW t \in Targets, SweepSkips(t)
      PROVE  Typed'
  BY <1>4 DEF SweepSkips, Typed
<1>5. ASSUME NEW j \in Jobs, Acquire(j) \/ JobStep(j)
      PROVE  Typed'
  <2>1. /\ job' \in [Jobs -> Job \cup {NoJob}]
        /\ failures' \in [Targets -> 0..MaxFailures]
        /\ UNCHANGED <<life, targets, loop, callers>>
    BY <1>5, JobStepTyped
  <2> QED BY <2>1 DEF Typed
<1>6. ASSUME NEW a \in Adders, AddChecks(a)
      PROVE  Typed'
  BY <1>6 DEF AddChecks, Typed
<1>7. ASSUME NEW a \in Adders, AddScans(a)
      PROVE  Typed'
  <2>1. adder[a].target \in Targets
    BY <1>7 DEF AddScans, Typed
  <2>2. job' \in [Jobs -> Job \cup {NoJob}]
    BY <1>0, <1>7, <2>1, SpawnTyped DEF AddScans
  <2> QED BY <1>7, <2>2 DEF AddScans, Typed
<1>8. ASSUME NEW c \in Clickers, NEW t \in Targets, ScanNowScans(c, t)
      PROVE  Typed'
  <2>1. job' \in [Jobs -> Job \cup {NoJob}]
    BY <1>0, <1>8, SpawnTyped DEF ScanNowScans
  <2>2. [clicker[c] EXCEPT !.todo = clicker[c].todo \ {t}]
            \in [pc : {"idle", "scans"}, gone : BOOLEAN, todo : SUBSET Targets]
    BY DEF Typed
  <2>3. clicker' \in [Clickers -> [pc : {"idle", "scans"}, gone : BOOLEAN, todo : SUBSET Targets]]
    BY <1>8, <2>2 DEF ScanNowScans, Typed
  <2> QED BY <1>8, <2>1, <2>3 DEF ScanNowScans, Typed
<1>9. ASSUME NEW c \in Clickers, ScanNowReturns(c) \/ ScanNow(c) \/ RequestGone(c)
      PROVE  Typed'
  <2>0. clicker[c] \in [pc : {"idle", "scans"}, gone : BOOLEAN, todo : SUBSET Targets]
    BY DEF Typed
  <2>1. [clicker[c] EXCEPT !.gone = TRUE]
            \in [pc : {"idle", "scans"}, gone : BOOLEAN, todo : SUBSET Targets]
    BY <2>0
  <2>2. /\ [pc |-> "scans", gone |-> FALSE, todo |-> targets]
                \in [pc : {"idle", "scans"}, gone : BOOLEAN, todo : SUBSET Targets]
        /\ [pc |-> "idle", gone |-> FALSE, todo |-> {}]
                \in [pc : {"idle", "scans"}, gone : BOOLEAN, todo : SUBSET Targets]
    BY DEF Typed
  <2>3. \E new \in [pc : {"idle", "scans"}, gone : BOOLEAN, todo : SUBSET Targets] :
            clicker' = [clicker EXCEPT ![c] = new]
    BY <1>9, <2>1, <2>2 DEF ScanNowReturns, ScanNow, RequestGone
  <2>4. clicker' \in [Clickers -> [pc : {"idle", "scans"}, gone : BOOLEAN, todo : SUBSET Targets]]
    BY <2>3 DEF Typed
  <2>5. UNCHANGED <<life, targets, loop, job, gate, adder>>
    BY <1>9 DEF ScanNowReturns, ScanNow, RequestGone
  <2> QED BY <2>4, <2>5 DEF Typed
<1>10. ASSUME NEW a \in Adders, NEW t \in Targets, AddTarget(a, t)
       PROVE  Typed'
  BY <1>10 DEF AddTarget, Typed
<1>11. ASSUME NEW t \in Targets, RemoveTarget(t)
       PROVE  Typed'
  BY <1>11 DEF RemoveTarget, Typed
<1>12. CASE UNCHANGED vars
  BY <1>12 DEF vars, Typed
<1> QED BY <1>1, <1>2, <1>3, <1>4, <1>5, <1>6, <1>7, <1>8, <1>9, <1>10, <1>11, <1>12
        DEF Next, LoopStep, SweepNext, CallerStep, UserStep

-----------------------------------------------------------------------------
(* The slots and the wait group.                                            *)

(* scanOne takes its slot before Collect and gives it back on each way out; *)
(* its caller leaves the wait group at the end.                            *)
LEMMA JobStepCounts ==
    ASSUME Typed, Counters, NEW j \in Jobs, Acquire(j) \/ JobStep(j)
    PROVE  Counters'
<1> USE DEF Counters, SlotsExact, GroupExact
<1>0. job \in [Jobs -> Job \cup {NoJob}]
  BY DEF Typed
<1>a. LoopRuns' <=> LoopRuns
  BY JobStepTyped DEF LoopRuns
<1>b. One(LoopRuns') = One(LoopRuns) /\ One(LoopRuns) \in Nat
  BY <1>a DEF One
<1>c. wg \in Nat /\ sem \in Nat
  BY <1>b, CountsAreNumbers
<1>1. CASE Acquire(j)
  <2>1. /\ Cardinality(Scanning') = Cardinality(Scanning)
              + One("collect" \in {"collect", "reconcile", "onresult"}) - One(Holds(job[j]))
        /\ Cardinality(Waited') = Cardinality(Waited)
    BY <1>0, <1>1, MoveCounts DEF Acquire
  <2>2. ~Holds(job[j])
    BY <1>1 DEF Acquire, Holds
  <2>3. Cardinality(Scanning') = Cardinality(Scanning) + 1
    BY <2>1, <2>2, CountsAreNumbers DEF One
  <2>4. wg' = wg /\ sem' = sem + 1 /\ sem < Workers
    BY <1>1 DEF Acquire
  <2> QED BY <1>b, <1>c, <2>1, <2>3, <2>4
<1>2. CASE GiveUp(j)
  <2>1. /\ Cardinality(Scanning') = Cardinality(Scanning)
              + One("settle" \in {"collect", "reconcile", "onresult"}) - One(Holds(job[j]))
        /\ Cardinality(Waited') = Cardinality(Waited)
    BY <1>0, <1>2, MoveCounts DEF GiveUp
  <2>2. ~Holds(job[j])
    BY <1>2 DEF GiveUp, Holds
  <2>3. Cardinality(Scanning') = Cardinality(Scanning)
    BY <2>1, <2>2, CountsAreNumbers DEF One
  <2> QED BY <1>b, <1>2, <2>1, <2>3 DEF GiveUp
<1>3. CASE Collected(j) \/ Reconciled(j)
  <2>1. PICK to \in {"reconcile", "onresult"} :
            /\ Cardinality(Scanning') = Cardinality(Scanning)
                  + One(to \in {"collect", "reconcile", "onresult"}) - One(Holds(job[j]))
            /\ Cardinality(Waited') = Cardinality(Waited)
    BY <1>0, <1>3, MoveCounts DEF Collected, Reconciled
  <2>2. Holds(job[j])
    BY <1>3 DEF Collected, Reconciled, Holds
  <2>3. Cardinality(Scanning') = Cardinality(Scanning)
    BY <2>1, <2>2, CountsAreNumbers DEF One
  <2>4. sem' = sem /\ wg' = wg
    BY <1>3 DEF Collected, Reconciled
  <2> QED BY <1>b, <2>1, <2>3, <2>4
<1>4. ASSUME \/ \E err \in {"failed", "cancelled"} : CollectFails(j, err)
             \/ ReconcileFails(j) \/ ResultDelivered(j)
      PROVE  Counters'
  <2>1. /\ Cardinality(Scanning') = Cardinality(Scanning)
              + One("settle" \in {"collect", "reconcile", "onresult"}) - One(Holds(job[j]))
        /\ Cardinality(Waited') = Cardinality(Waited)
    BY <1>0, <1>4, MoveCounts DEF CollectFails, ReconcileFails, ResultDelivered
  <2>2. Holds(job[j])
    BY <1>4 DEF CollectFails, ReconcileFails, ResultDelivered, Holds
  <2>3. Cardinality(Scanning') = Cardinality(Scanning) - 1
    BY <2>1, <2>2, CountsAreNumbers DEF One
  <2>4. sem' = sem - 1 /\ wg' = wg
    BY <1>4 DEF CollectFails, ReconcileFails, ResultDelivered, SlotsAfter
  <2> QED BY <1>b, <1>c, <2>1, <2>3, <2>4
<1>5. CASE Penalise(j)
  <2>1. /\ Cardinality(Scanning') = Cardinality(Scanning)
              + One("onerror" \in {"collect", "reconcile", "onresult"}) - One(Holds(job[j]))
        /\ Cardinality(Waited') = Cardinality(Waited)
    BY <1>0, <1>5, MoveCounts DEF Penalise
  <2>2. ~Holds(job[j])
    BY <1>5 DEF Penalise, Holds
  <2>3. Cardinality(Scanning') = Cardinality(Scanning)
    BY <2>1, <2>2, CountsAreNumbers DEF One
  <2> QED BY <1>b, <1>5, <2>1, <2>3 DEF Penalise
<1>6. CASE ErrorDelivered(j) \/ Forgive(j) \/ Dropped(j)
  <2>1. job[j].pc \in {"settle", "onerror"} /\ Exit(j) /\ sem' = sem
    BY <1>6 DEF ErrorDelivered, Forgive, Dropped
  <2>2. /\ Cardinality(Scanning') = Cardinality(Scanning)
        /\ wg' \in Int /\ Cardinality(Waited') \in Int
        /\ wg' - wg = Cardinality(Waited') - Cardinality(Waited)
    BY <1>0, <1>c, <2>1, ExitCounts
  <2> QED BY <1>b, <1>c, <2>1, <2>2, CountsAreNumbers
<1> QED BY <1>1, <1>2, <1>3, <1>4, <1>5, <1>6 DEF JobStep

(* A step that changes neither the scans nor whether the loop runs, and     *)
(* neither counter, keeps both exact.                                      *)
LEMMA SameCounts ==
    ASSUME Counters, UNCHANGED <<job, sem, wg>>, LoopRuns' <=> LoopRuns
    PROVE  Counters'
<1>1. Scanning' = Scanning /\ Waited' = Waited
  BY DEF Scanning, Waited, Alive
<1>2. One(LoopRuns') = One(LoopRuns)
  BY DEF One
<1> QED BY <1>1, <1>2 DEF Counters, SlotsExact, GroupExact

(* A step that starts a scan for a sweep, for AddTarget or for ScanNow.     *)
LEMMA SpawnKeepsCounts ==
    ASSUME Typed, Counters, NEW t \in Targets, NEW origin \in {"sweep", "add"} \cup Clickers,
           Spawn(t, origin), sem' = sem, LoopRuns' <=> LoopRuns
    PROVE  Counters'
<1>1. One(LoopRuns') = One(LoopRuns) /\ One(LoopRuns) \in Nat
  BY DEF One
<1>2. wg \in Nat /\ job \in [Jobs -> Job \cup {NoJob}]
  BY <1>1, CountsAreNumbers DEF Counters, GroupExact, Typed
<1>3. /\ Cardinality(Scanning') = Cardinality(Scanning)
      /\ wg' \in Nat /\ Cardinality(Waited') \in Int
      /\ wg' - wg = Cardinality(Waited') - Cardinality(Waited)
  BY <1>2, SpawnCounts
<1> QED BY <1>1, <1>2, <1>3, CountsAreNumbers DEF Counters, SlotsExact, GroupExact

(* The loop is counted from Start to its end.                               *)
LEMMA StepKeepsCounts ==
    ASSUME Typed, Counters, loop.pc = "off" <=> ~started, [Next]_vars
    PROVE  Counters'
<1> USE DEF life, gate, callers
<1>1. CASE Start
  <2>1. ~LoopRuns /\ LoopRuns'
    BY <1>1 DEF Start, LoopRuns, Typed
  <2>2. One(LoopRuns) = 0 /\ One(LoopRuns') = 1
    BY <2>1 DEF One
  <2>3. Scanning' = Scanning /\ Waited' = Waited
    BY <1>1 DEF Start, Scanning, Waited, Alive
  <2> QED BY <1>1, <2>2, <2>3, CountsAreNumbers DEF Start, Counters, SlotsExact, GroupExact
<1>2. CASE Signal \/ Stop \/ StopReturns \/ Tick
  BY <1>2, SameCounts DEF Signal, Stop, StopReturns, Tick, LoopRuns
<1>3. CASE Sweep \/ SweepEnds
  <2>1. LoopRuns' <=> LoopRuns
    BY <1>3 DEF Sweep, SweepEnds, LoopRuns, Typed
  <2> QED BY <1>3, <2>1, SameCounts DEF Sweep, SweepEnds
<1>4. CASE LoopEnds
  <2>1. LoopRuns /\ ~LoopRuns'
    BY <1>4 DEF LoopEnds, LoopRuns, Typed
  <2>2. One(LoopRuns) = 1 /\ One(LoopRuns') = 0
    BY <2>1 DEF One
  <2>3. Scanning' = Scanning /\ Waited' = Waited
    BY <1>4 DEF LoopEnds, Scanning, Waited, Alive
  <2> QED BY <1>4, <2>2, <2>3, CountsAreNumbers DEF LoopEnds, Counters, SlotsExact, GroupExact
<1>5. ASSUME NEW t \in Targets, SweepScans(t)
      PROVE  Counters'
  <2>1. LoopRuns' <=> LoopRuns
    BY <1>5 DEF SweepScans, LoopRuns, Typed
  <2> QED BY <1>5, <2>1, SpawnKeepsCounts DEF SweepScans
<1>6. ASSUME NEW t \in Targets, SweepSkips(t)
      PROVE  Counters'
  <2>1. LoopRuns' <=> LoopRuns
    BY <1>6 DEF SweepSkips, LoopRuns, Typed
  <2> QED BY <1>6, <2>1, SameCounts DEF SweepSkips
<1>7. ASSUME NEW j \in Jobs, Acquire(j) \/ JobStep(j)
      PROVE  Counters'
  BY <1>7, JobStepCounts
<1>8. ASSUME NEW a \in Adders, AddScans(a)
      PROVE  Counters'
  <2>1. adder[a].target \in Targets /\ (LoopRuns' <=> LoopRuns)
    BY <1>8 DEF AddScans, LoopRuns, Typed
  <2> QED BY <1>8, <2>1, SpawnKeepsCounts DEF AddScans
<1>9. ASSUME NEW c \in Clickers, NEW t \in Targets, ScanNowScans(c, t)
      PROVE  Counters'
  <2>1. LoopRuns' <=> LoopRuns
    BY <1>9 DEF ScanNowScans, LoopRuns
  <2> QED BY <1>9, <2>1, SpawnKeepsCounts DEF ScanNowScans
<1>10. CASE \/ \E a \in Adders : AddChecks(a) \/ \E t \in Targets : AddTarget(a, t)
            \/ \E t \in Targets : RemoveTarget(t)
            \/ \E c \in Clickers : ScanNowReturns(c) \/ ScanNow(c) \/ RequestGone(c)
            \/ UNCHANGED vars
  BY <1>10, SameCounts
     DEF AddChecks, AddTarget, RemoveTarget, ScanNowReturns, ScanNow, RequestGone, LoopRuns, vars
<1> QED BY <1>1, <1>2, <1>3, <1>4, <1>5, <1>6, <1>7, <1>8, <1>9, <1>10
        DEF Next, LoopStep, SweepNext, CallerStep, UserStep

-----------------------------------------------------------------------------
(* Stop.                                                                    *)

(* A step of a scan neither starts a scan nor changes whose scan it is.     *)
LEMMA JobStepStartsNothing ==
    ASSUME Typed, NEW j \in Jobs, Acquire(j) \/ JobStep(j)
    PROVE  \A k \in Alive' : k \in Alive /\ job'[k].origin = job[k].origin
<1>0. job \in [Jobs -> Job \cup {NoJob}]
  BY DEF Typed
<1>1. CASE Exit(j)
  BY <1>0, <1>1 DEF Exit, Alive, NoJob
<1>2. ASSUME job[j].pc # "none",
             \E to \in {"collect", "reconcile", "onresult", "settle", "onerror"},
                err \in {"ok", "failed", "cancelled"} : Moves(j, to, err)
      PROVE  \A k \in Alive' : k \in Alive /\ job'[k].origin = job[k].origin
  <2>1. PICK new \in Job : job' = [job EXCEPT ![j] = new] /\ new.origin = job[j].origin
    BY <1>0, <1>2, MovedJob
  <2> QED BY <1>0, <1>2, <2>1 DEF Alive
<1> QED BY <1>1, <1>2
        DEF Acquire, JobStep, GiveUp, Collected, CollectFails, Reconciled, ReconcileFails,
            ResultDelivered, Penalise, ErrorDelivered, Forgive, Dropped

(* A new scan is the only one there was not before.                         *)
LEMMA SpawnStartsOne ==
    ASSUME Typed, NEW t \in Targets, NEW origin, Spawn(t, origin)
    PROVE  \A k \in Alive' : job'[k].origin = origin \/ (k \in Alive /\ job'[k].origin = job[k].origin)
BY DEF Spawn, NewJob, Alive, Typed

(* Stop waits for a counter that is exact; once it has returned the loop    *)
(* has ended, and only the loop starts the scans of a sweep.               *)
LEMMA StepKeepsStop ==
    ASSUME Typed, Counters, StopInv, [Next]_vars
    PROVE  StopInv'
<1> USE DEF life, gate, callers
<1>1. CASE Start
  BY <1>1 DEF Start, StopInv, StopWaitsForSweeps, Alive, Typed
<1>2. CASE Signal \/ Stop \/ Tick
  BY <1>2 DEF Signal, Stop, Tick, StopInv, StopWaitsForSweeps, Alive
<1>3. CASE StopReturns
  <2>1. One(LoopRuns) \in Nat /\ Cardinality(Waited) + One(LoopRuns) = 0
    BY <1>3 DEF StopReturns, Counters, GroupExact, One
  <2>2. Cardinality(Waited) = 0 /\ One(LoopRuns) = 0
    BY <2>1, CountsAreNumbers
  <2>3. Waited = {} /\ ~LoopRuns
    BY <2>2, CountsAreNumbers, FS_EmptySet DEF One
  <2>4. loop.pc = "ended"
    BY <1>3, <2>3 DEF StopReturns, StopInv, LoopRuns, Typed
  <2>5. \A j \in Alive : job[j].origin # "sweep"
    BY <2>3 DEF Waited
  <2> QED BY <1>3, <2>4, <2>5 DEF StopReturns, StopInv, StopWaitsForSweeps, Alive
<1>4. CASE Sweep \/ SweepEnds \/ LoopEnds
  BY <1>4 DEF Sweep, SweepEnds, LoopEnds, StopInv, StopWaitsForSweeps, Alive, Typed
<1>5. ASSUME NEW t \in Targets, SweepScans(t) \/ SweepSkips(t)
      PROVE  StopInv'
  BY <1>5 DEF SweepScans, SweepSkips, StopInv, StopWaitsForSweeps, Typed
<1>6. ASSUME NEW j \in Jobs, Acquire(j) \/ JobStep(j)
      PROVE  StopInv'
  <2>1. UNCHANGED <<life, loop>>
    BY <1>6, JobStepTyped
  <2>2. \A k \in Alive' : k \in Alive /\ job'[k].origin = job[k].origin
    BY <1>6, JobStepStartsNothing
  <2> QED BY <2>1, <2>2 DEF StopInv, StopWaitsForSweeps
<1>7. ASSUME NEW a \in Adders, AddScans(a)
      PROVE  StopInv'
  <2>1. adder[a].target \in Targets /\ Spawn(adder[a].target, "add") /\ UNCHANGED <<life, loop>>
    BY <1>7 DEF AddScans, Typed
  <2>2. \A k \in Alive' : job'[k].origin = "add" \/ (k \in Alive /\ job'[k].origin = job[k].origin)
    BY <2>1, SpawnStartsOne
  <2> QED BY <2>1, <2>2 DEF StopInv, StopWaitsForSweeps
<1>8. ASSUME NEW c \in Clickers, NEW t \in Targets, ScanNowScans(c, t)
      PROVE  StopInv'
  <2>1. Spawn(t, c) /\ c # "sweep" /\ UNCHANGED <<life, loop>>
    BY <1>8 DEF ScanNowScans
  <2>2. \A k \in Alive' : job'[k].origin = c \/ (k \in Alive /\ job'[k].origin = job[k].origin)
    BY <2>1, SpawnStartsOne
  <2> QED BY <2>1, <2>2 DEF StopInv, StopWaitsForSweeps
<1>9. CASE \/ \E a \in Adders : AddChecks(a) \/ \E t \in Targets : AddTarget(a, t)
           \/ \E t \in Targets : RemoveTarget(t)
           \/ \E c \in Clickers : ScanNowReturns(c) \/ ScanNow(c) \/ RequestGone(c)
           \/ UNCHANGED vars
  BY <1>9 DEF AddChecks, AddTarget, RemoveTarget, ScanNowReturns, ScanNow, RequestGone, vars,
              StopInv, StopWaitsForSweeps, Alive
<1> QED BY <1>1, <1>2, <1>3, <1>4, <1>5, <1>6, <1>7, <1>8, <1>9
        DEF Next, LoopStep, SweepNext, CallerStep, UserStep

-----------------------------------------------------------------------------
(* The theorems.                                                            *)

SchedInv == Typed /\ Counters /\ StopInv

(* The types, the counters and Stop's promise, together inductive.          *)
LEMMA SchedInvHolds == Spec => []SchedInv
<1>1. Init => SchedInv
  <2> SUFFICES ASSUME Init
               PROVE  SchedInv
    OBVIOUS
  <2>0. 0 \in 0..MaxFailures
    OBVIOUS
  <2>1. Typed
    BY <2>0, Zenon DEF Init, Typed
  <2>2. Scanning = {} /\ Waited = {} /\ ~LoopRuns
    BY DEF Init, Scanning, Waited, Alive, NoJob, LoopRuns
  <2>3. Counters
    BY <2>2, FS_EmptySet DEF Init, Counters, SlotsExact, GroupExact, One
  <2>4. StopInv
    BY DEF Init, StopInv, StopWaitsForSweeps
  <2> QED BY <2>1, <2>3, <2>4 DEF SchedInv
<1>2. SchedInv /\ [Next]_vars => SchedInv'
  <2> SUFFICES ASSUME SchedInv, [Next]_vars
               PROVE  SchedInv'
    OBVIOUS
  <2>1. Typed'
    BY StepKeepsTypes DEF SchedInv
  <2>2. Counters'
    BY StepKeepsCounts DEF SchedInv, StopInv
  <2>3. StopInv'
    BY StepKeepsStop DEF SchedInv
  <2> QED BY <2>1, <2>2, <2>3 DEF SchedInv
<1> QED BY <1>1, <1>2, PTL DEF Spec

(* s.sem is held by the scans between its send and its receive in scanOne   *)
(* and by nothing else, so that never more than Workers of them run,        *)
(* whoever started them and however they end.                              *)
THEOREM SlotsAlwaysHeldByScans == Spec => []SlotsHeldByScans
<1>1. SchedInv => SlotsHeldByScans
  BY DEF SchedInv, Counters, SlotsExact, SlotsHeldByScans
<1> QED BY <1>1, SchedInvHolds, PTL

(* Stop's wg.Wait comes back only after the loop and each scan of a sweep   *)
(* have ended, and none begins later, although AddTarget may add to the     *)
(* wait group at any moment, before, during and after the wait.            *)
THEOREM StopAlwaysWaitsForSweeps == Spec => []StopWaitsForSweeps
<1>1. SchedInv => StopWaitsForSweeps
  BY DEF SchedInv, StopInv
<1> QED BY <1>1, SchedInvHolds, PTL

(* s.wg counts the loop and the scans added to it, exactly: Done is never   *)
(* called more often than Add, which would panic, nor less often, which     *)
(* would leave Stop waiting for ever.                                      *)
THEOREM WaitGroupAlwaysExact == Spec => []GroupExact
<1>1. SchedInv => GroupExact
  BY DEF SchedInv, Counters
<1> QED BY <1>1, SchedInvHolds, PTL
=============================================================================
