# Attack Surface Monitor: specification, model checking and proofs

TLA+ models of the program in `src/`, the TLC instances that check them, and
theorems about them that TLAPS proves. Paths below are relative to `src/`.

## 1. The system

One process (`cmd/asm`) watches domains. A scheduler calls a collector for each
configured domain again and again; the collector, once it has seen a proof of
ownership, lists the domain's hosts and open ports as *findings*; the reconcile
engine folds each scan into a table and reports what opened and what closed;
a dispatcher batches that news into digests for chat, mail or syslog; a
dashboard lets the user add targets, change statuses, paste a licence key and
ask a language model beside the program to explain a finding.

### Components, their state and their operations

| Component | State | Operations that change it | Module |
|---|---|---|---|
| finding contract (`core/`) | none | fingerprint, ingest validation, resolve threshold | used in `Reconcile`, `Collector` |
| reconcile engine (`store/reconcile.go`, `store.go`) | locals of a call: snapshot, seen, result | `Reconcile` | `Reconcile`, `Lifecycle` |
| persistence (`store/sqlite.go`, `verify_sqlite.go`, `targets.go`, `memory.go`, `ulid.go`) | findings, challenges, targets | `Upsert`, `Put`, `SaveTarget`, `DeleteTarget` | inside its users |
| scheduler (`sched/scheduler.go`) | targets, loop, scans, worker slots, wait group, failures | `Start`, loop, `AddTarget`, `RemoveTarget`, `ScanNow`, `Stop` | `Scheduler` |
| verification (`verify/`) | none of its own (the challenge row) | `NewChallenge`, `Satisfied` | `Collector` |
| collector (`asm/`) | locals of a scan | `ValidateTarget`, `Collect`, `Discover`, `Probe` | `Collector` |
| dispatcher (`notify/notify.go`) | pending, seen, timer, closed, sends | `Enqueue`, timer, `Flush`, `Close`, retried sends | `Dispatcher`, `Outbox` |
| channels (`notify/channels.go`, `hfs.go`, `format.go`, `bridge.go`, `cmd/asm/channels.go`) | none | `Send`, `BindScheduler` | what a send leaves behind in `Dispatcher`, the bridge in `Program` |
| dashboard (`web/server.go`) | activation | add/remove target, set licence, set status, scan now | `Dashboard`, `Reconcile`, `Scheduler` |
| AI assist (`web/ai.go`) | the client, fixed at boot | `explain` request | `Explain` |
| AI client (`internal/aiclient/`) | locals of a call | attempts, pauses, `SanitizeEvidence`, severity guard | `Explain`, `Evidence` |
| licence (`license/`) | none | `Activate` | `Dashboard` |
| TLS probe (`internal/tlsprobe/`) | none | `Probe`: seven grades of a handshake at an instant | `Certificate` |
| HFS bridge (`hfsbridge/`) | none | pure conversion | not modelled |
| program (`cmd/asm/main.go`) | which goroutine has come how far | boot, signal, shutdown, death | `Program`, `Dashboard.Restart`, `Scheduler.Signal`, `Reconcile.Crash` |

### How they interact

* Scheduler to collector to engine is a call chain in one goroutine per scan,
  `scanOne`: take a worker slot, `Collect` under `ScanTimeout`, `Reconcile`,
  `OnResult`. Nothing serialises two scans of one target: a sweep, the first
  scan of `AddTarget` and `ScanNow` may overlap.
* The store is shared by scans, dashboard handlers and the boot sequence. Each
  SQL statement is atomic, no transaction spans two.
* `OnResult` enqueues into the dispatcher under its lock; each send is a
  goroutine of its own.
* Handlers run one goroutine per request and take `s.mu` only around the
  activation.
* A signal lets three goroutines race: the scans still running, the one that
  shuts the HTTP server and then the scheduler down, and `main`, whose
  `ListenAndServe` returns as soon as the shutdown begins and whose deferred
  `disp.Close` is the last thing the process does.
* TLS grades reach the table through the collector with a fingerprint of
  domain, check, host and discriminator: neither the port nor the certificate
  is part of it.

### What is hard

Read-modify-write over a store with no transaction (engine, status handler,
`ValidateTarget`); a check in one step and the act in another (target limit,
`AddTarget` against `Stop`); a report that is cut and looks complete; news lost
in a call that fails half way; a timer that fires while its window is flushed
for another reason; news recorded while the program ends; a file that is emptied
before it is written; grades that hand a
certificate from one finding to another as time passes; a licence or a finding
that changes while a request waits; what a restart finds. `PROJECT.json` lists
each at its line.

### What makes each component correct

* Engine: nothing opens or closes without news of it; a finding closes after
  exactly the module's number of absences in a row; a row keeps its identity;
  the user's decision stands.
* Collector: nothing is probed without a seen proof; a report says all and only
  what was open; its entries are distinct findings; scans end; a proof that
  stays in place is found.
* Scheduler: a slot is held by a scan in progress and by nothing else; `Stop`
  waits and returns; a registered target is scanned again and again.
* Dispatcher: an accepted event goes out once, in the window it was accepted
  in, to every channel that takes it; no window is stranded; `Close` is final.
* Program: what the dispatcher took has left when `main` returns; an open
  finding was announced after it was last recorded as opened, unless the call that
  recorded it failed; a signal ends the program.
* Certificate: from 31 days before its end a certificate keeps a finding until
  it is replaced; its severity only rises; the table agrees with the servers
  once they are calm.
* AI assist: secrets and oversized evidence stay on the machine; an attempt
  follows only a failure that may pass; the edition in force decides; the
  explanation does not contradict the severity the model was given, as far as
  the guard's patterns go; every request is answered.
* Dashboard: what is scanned and in force now is what a restart restores, unless
  a write failed half way; no unsigned key is ever in force.

## 2. Modules

All goroutines of a kind are a constant set, their locals a function of that
set with a `pc`; one action is the code between two points where another
goroutine may come in (a store call, a lock released, a network call).
Histories (news told, tokens seen in place, ports open all along) are variables
no guard reads. Operators marked "Mutant" are faulty variants of the definition
below them; they are used by nothing and serve to see that a property notices.

**`Lifecycle`** — the abstract life of a finding: statuses, streaks, the three
events (sighting, absence, decision). What `store/reconcile.go:9-22` promises.

**`Reconcile`** — `Engine.Reconcile`, one action per store call and branch:
`Begin`, `List`, `Insert`/`Refresh`/`Reject` for the next fresh finding (the
guard `AtFresh` is the validation and the duplicate check), `TurnToAbsent`,
`Miss`, `Deliver`; `StoreError` at any call; `GetForEdit`/`PutEdit`/`EditError`
are `handleFindingStatus`; `Crash` ends every call. `told` is what `OnResult`
was given. A row has status, first, last, streak and resolvedAt; titles,
severities and evidence never decide a branch.

**`Collector`** — `ValidateTarget` (`Validate`, `PutChallenge`), the gate of
`Collect` (`Get`, `CheckPasses`, `PutVerified`), `Discover` with budget, CT and
lookups, `Probe` dial by dial, the TLS grades, the report. `Expire` ends a
scan's context at any moment. The owner's records and the ports are a world
that changes at most `MaxChanges` times.

**`Scheduler`** — one registered module, as the program has: the loop (`Sweep`,
`SweepScans`, `SweepSkips`, `Tick`, `LoopEnds`), a scan (`Acquire`, `GiveUp`,
`Collected`, ..., `Exit`, `Penalise`, `Forgive`), the callers `AddTarget`,
`RemoveTarget`, `ScanNow` in the steps between their locks, `Stop` and the
signal. `DoubledCapped` is the loop of `backoffFor`.

**`Outbox`** — what a notifier owes: an accepted event waits for every channel
until it arrived or was given up on.

**`Dispatcher`** — `Enqueue` with severity filter, dedup set, window and
`MaxBatch`; `TimerFires` and a `Flush` that waits for the lock (`late` counts
them); `Close`, sends with retries. A channel that writes line by line
(`LineChannels`: syslog) may have written any prefix of the digest when it
fails, one that posts all of it or nothing. `Box` maps the state to `Outbox`.

**`Dashboard`** — the add, remove and licence handlers, each in the steps
between the scheduler, the table, the file and the activation; the boot
sequence as `Restart`, at any moment; days that pass. `os.WriteFile` is three
steps: `OpenKeyFile` empties the file, `WriteKey` fills it, and in between the
program may end; `OpenFails` leaves it as it was, `WriteFails` leaves it as it
was (another write has filled it), empty or with the whole new key, while the
old activation stays in force. Two writers at a time leave one of the keys or a
mixture that verifies as nothing (`Written`). `calm` and `torn` are histories:
no two requests have met and no store call has failed so far; a write has
failed since a key was last taken.

**`Program`** extends `Dispatcher` with what calls it. A scan lists the rows
(`List`), writes them one at a time (`Opens`, `Keeps`, `Closes`) and may fail
after any of them (`RecordFails`: what is written stays, `OnResult` is not
called); it hands its news over one event at a time (`Tell`, `TellAgain` when
the window has it already, `TellNobody` when the dispatcher is closed). Whether
an absence closes a row is left open here, as are the user's decisions: both
are in `Reconcile`. Then the signal, `ShutdownBegins`, `ShutdownEnds`,
`StopEnds`, `MainCloses`, `MainReturns`, and `MainExits`, the way out by
`fatal` when the server fails, which skips `disp.Close`. Scans of the loop are
those `Stop` waits for, scans of `ScanNow` are not. After `MainReturns` and
`MainExits` nothing moves: the process is gone. A kill is in `Reconcile` and
`Dashboard`. `dropped` (news of calls that failed after the row was written) and
`sent` (how many events had left when a finding was last recorded as opened)
are histories.

**`Evidence`** — `SanitizeEvidence` as a recursive operator on JSON values;
**`Explain`** — the `explain` handler (`Ask`, `Get`, `Gate`) and
`Client.Explain` (`Send`, its outcomes, `PauseEnds`, `PauseCancelled`), while
the licence, the finding and the person change. Every `NewAIAssist` option that
does not refuse to start is an initial state, its language among them. The
client is modelled as it is written, with its retries; the program's only
client is built with none (`web/ai.go:72`, `WithMaxRetries(0)`), so there the
pauses never come. The sanitiser and what is said of
it are constant operators of `Explain` (`Sanitized`, `IsClean`), which the
configurations fill with those of `Evidence`: so the request can be reasoned
about without the recursion. A narration is two sets of sentences, the explanation
and what is to be verified. A sentence states a severity, or none, in words
`beside` "severity", "risk" or "priority", in words `apart` from them, or in
Indonesian: `dropConflictingSeverity` knows the first kind only and is applied
to the explanation only. The order of sentences decides nothing.

**`Certificate`** — each `gradeX` of `tlsprobe.go` as an operator of a
deployment (certificate and connection parameters) and an instant, `Probe`
their union; `DialSucceeds`/`DialFails` per port in any order (the ports are
the keys of a Go map; `Appended` is how the later of two equal fingerprints
wins), `ScanFails` before the first row is written, `Reconcile` on the rows of
the TLS checks and `ReconcileFails` after some of them; `TimePasses`, `Replace`
and `Decide` around them. Scans follow each other; `Reconcile` has the
overlapping ones. `origins` (the ports and deployments that gave a row its
severity), `patience` and `calm` are histories; a `Reconcile` that fails counts
as a miss of every port once it has begun to count absences, and ends a calm.

**`MC*`** give TLC its constants; **`*Proofs`** hold the theorems.

## 3. What TLC checks

| Run | Instance | What it shows |
|---|---|---|
| `reconcile_overlap` | 2 calls and 1 handler at the same time, 1 finding, threshold 2, 4 calls | However calls and handlers interleave: types, no silent opening, no silent closing, id and first_seen stay |
| `reconcile_serial` | 2 findings (and a malformed one, duplicates), failing store calls, crashes, one call or handler at a time | The engine implements `Lifecycle`; closing takes the threshold of absences in a row; a reopening is announced |
| `dispatcher` | 2 modules, a line channel, batches of 2, 2 attempts, 3 events, fair | Types, no stranded window, every event in one digest, `Close` final; `Outbox` is implemented; every event settles without a later one; `Close` returns |
| `collector_gate` | 2 scans, 2 validators, 2 tokens, failing store and lookups, contexts that end | Nothing is verified or probed without a token seen in place |
| `collector_report` | 2 hosts, 2 ports (one HTTPS), a wildcard, CT and store failing, contexts that end, 3 changes of the world, fair | A report that was not cut is complete, none invents; scans end; a token in place verifies the domain |
| `scheduler_safety` | 3 scan goroutines, 2 workers, `AddTarget`, `ScanNow`, `RemoveTarget`, `Stop`, signal, a base delay above the cap | Slots are held by scans alone; `Stop` returns after the loop and its scans, none starts later; the delay is cut to the cap |
| `scheduler_liveness` | 1 worker contended by a sweep and `ScanNow`, scans that may always fail, fair | `Stop` returns; a registered target is scanned again and again; the backoff doubles to its cap |
| `dashboard` | 2 handlers, 3 targets, 3 signed keys (one of an unknown tier) and a forged one, limits 1/2/unlimited, failing store and file, restarts, 3 days | No bad key in file or in force; while calm: a restart restores the targets; and, unless a write failed half way since, the file is in force |
| `program` | 2 scans at a time (of the loop or of a request), 3 in all, that may fail after any row, 1 finding, a posting channel, one attempt, 3 pieces of news, fair | `main` returns only when all accepted news has left; while it serves, an open finding was announced since it was last recorded as opened, or the news is in hand, or the recording call failed; a signal ends the program although scans need not end |
| `explain` | evidence nested two levels too deep with secret keys, long lists and long strings; 2 retries; every outcome of an attempt; one change of licence or finding, fair | Only clean evidence leaves; retries are justified; the edition decides; in the guard's words the explanation does not contradict the severity that was sent; every request is answered |
| `certificate` | 2 HTTPS ports (symmetric), 3 deployments that differ in every grade, instants on the inside of every step of the ladder, 2 of replacements, decisions and failures of dials, scans and `Reconcile` after any row, threshold 2 | A certificate near its end keeps a finding across the hand-over of checks; the severity it gave a finding only rises, through misses and reopening; after 2 scans with the same faults the table shows exactly these |
| `stop_scannow` | `ScanNow` and `Stop` | violated: `Stop` returns while the scans of `ScanNow` run |

`CHECK_DEADLOCK FALSE` stands where the modelled activity really ends: the
engine after `MaxCalls` calls, the dispatcher after `MaxEvents` and `Close`,
the scheduler once stopped, the program once `main` has returned, the request
once it is answered, and the certificate's clock at its last instant.

### Bounds, and why they are enough

* Two of each goroutine: every race in this code is between two parties (a
  reader and a writer of one row, a stale and a fresh window, two requests);
  a third repeats the second's part. The scheduler gets three scans for two
  workers, so that one has to wait.
* A threshold of 2 and 4 calls: a finding can open, be missed, be seen, be
  missed twice, close; 3 calls would not reach a closing after a reset streak.
* Batches of 2 and 3 events: one window ends full, another by its timer, and a
  stale flush falls into the next one.
* The program gets one finding and one channel: what races there are the
  scans, the shutdown and `main`; findings and channels meet in `dispatcher`.
  3 scans are an opening, a closing and a reopening.
  `main` passes an empty `notify.Config`, so no event is below the minimum.
* One request in `explain`: requests share nothing they write. `MaxRetries` is
  the client's default of 2; the handler builds its client with 0, which is
  the case without a pause.
* In `certificate` time is counted in half days, because whole days left are
  cut off: 31 days left give nothing, 30 and a half, 7 and a half, 1 and a
  half and the last instant give each severity, the next one is expired. Two
  events are enough to miss a certificate as often as the threshold, to
  replace both, or to decide and then replace. `AtFirst` and `Deployments`
  are the servers.
* Two hosts and two ports: what is dropped with a cut probe differs from what
  was reported before it. `Budget` covers both names, because the code promises
  nothing of names beyond its budget. One HTTPS port: see `tls_collision` below.
* `TypeOK` of `Scheduler`, `Dashboard`, `Explain` and `Certificate` (and
  `ProgTypeOK`, `BatchBelowMax`, `SeenIsPending`, `SnapshotsSound`, which are
  theorems) hold on the same instances when added to the configuration; the
  runs leave them out in favour of properties that say more.
* `MaxChanges`, `MaxTokens`, `MaxDay`, `MaxCalls`, `MaxEvents`, `MaxFailures`,
  `MaxScans` cap counters that only grow.

### Fairness

* Dispatcher: the runtime fires an armed timer, a `Flush` gets the mutex, a
  send with its own timeout returns. Nothing is assumed of channels (they may
  always fail) or of events arriving.
* Collector: every wait inside `Collect` has a timeout, so a scan goes on; the
  scheduler calls it again; a record that stays in place is not missed by
  every lookup for ever, and the store does not fail every `Get` and every
  `Put` of a verified challenge for ever (strong fairness of `CheckPasses`,
  `Get` and `PutVerified`; each may still fail any number of times).
* Scheduler: goroutines run and time passes; waiting senders on a channel are
  served in order (strong fairness of `Acquire`); `select` with two ready
  cases picks at random, so a cancelled loop does not take the ticker for ever.
* Program: its goroutines run, sends end by their timeouts, `Shutdown` ends by
  its own. Nobody need send a signal and a scan need not end.
* Explain: the store returns, an attempt ends by its timeout, a pause ends.

### Where the code and its words disagree

The run that expects a violation is the finding of `PROJECT.json`. The
following configurations are kept beside them; each makes TLC produce the
behaviour when run by hand (`tlc -config X.cfg M`; `tlc -continue` goes on to
the other properties of a configuration that has several).

| Configuration | Module | Property | Behaviour |
|---|---|---|---|
| `decision_lost` | `MCReconcile` | `DecisionKept` | a suppression set while a call runs is overwritten with its snapshot |
| `silent_reopen` | `MCReconcile` | `NoSilentReopen` | of two overlapping calls the older refreshes a finding the other closed: open again, no news |
| `sighting_lost` | `MCReconcile` | `StreakFollowsSighting` | the older call counts an absence over a newer sighting |
| `silent_open` | `MCReconcile` | `NoSilentOpen` | a store call fails half way: what was inserted before is never announced |
| `report_cut` | `MCCollector` | `CompleteReport` | a probe that is cut leaves a report without error that lacks open ports |
| `report_rootonly` | `MCCollector` | `CompleteReport` | CT does not answer: the root alone, no error |
| `token_gone` | `MCCollector` | `PausesWhenTokenGone` | a removed token does not pause a verified domain (`verify/verify.go:10`) |
| `challenge_store` | `MCCollector` | `ChallengeKept` | a failing `Get` replaces an issued challenge; without faults a second request does (`Validators = {v1, v2}`) |
| `tls_collision` | `MCCollector` | `DistinctProblems` | one TLS problem on two ports of a host is one finding |
| `stop_addtarget` | `MCScheduler` | `NothingRunsAfterStop` | `AddTarget` slips a scan past `Stop` |
| `limit_race` | `MCDashboard` | `LimitKept` | two requests pass the limit together |
| `removed_restored` | `MCDashboard` | `RestartRestores` | removed between scheduling and saving, a target comes back at restart |
| `licence_gaps` | `MCDashboard` | `FileAlwaysInForce` | a write of the licence file that fails after the open leaves it empty under an activation that only lives until a restart (`web/server.go:360`) |
| | | `NewestKeyWins` | an older key pasted later wins (`license/license.go:86`) |
| `expiry_unnoticed` | `MCDashboard` | `ExpiredReturnsToFree` | an expired key stays in force until a restart (`README.md:58`) |
| `program_gaps` | `MCProgram` | `NoNewsLost` | a scan that ends while the program does records news that the closed dispatcher refuses; after a restart it is no news any more (`cmd/asm/main.go:141`) |
| | | `NoNewsDropped` | a store call fails after a row was opened or closed: `scanOne` returns without `OnResult` (`sched/scheduler.go:325`) |
| | | `NewsOutlivesFatal` | the server fails and `fatal` exits: what the window holds is gone (`cmd/asm/main.go:141`) |
| | | `ReturnsStopped` | `main` returns while `scheduler.Stop` still waits |
| | | `ResolvedAfterOpened` | two scans of one target: the resolution is told before the opening |
| | | `LastNewsIsTrue` | a finding that closes and reopens within a window is told as resolved last |
| `narration_stale` | `MCExplain` | `NarratesWhatIs` | a scan refreshes the finding while the sidecar answers |
| | | `NoForeignSeverity` | an Indonesian sentence, one whose words stand apart, or one in `what_to_verify` states another severity (`guard.go:22`, `client.go:375`) |
| `port_order` | `MCCertificate` | `HostSeverityOnlyRises` | two ports near expiry share a finding, and a Go map decides which severity it keeps |
| `certificate_gaps` | `MCCertificate` | `SuppressionEndsWithFault` | suppressed for one certificate, a finding stays suppressed for the next |
| | | `ChainBlamedFairly` | an expired certificate of a good chain also reads "chain is not trusted" |

The passing runs state what is left: `CompleteUnlessCut` of the scans that were
not cut, `StopWaitsForSweeps` of the scans `Stop` knows, `Calm...` of requests
that do not meet, `LifeSpec` of calls that do not meet.

## 4. What TLAPS proves

For every value of the constants under the modules' named assumptions (a
threshold is an integer, `MaxBatch` and `Retries` at least 1, the root is a
host, ...), without any bound on calls, events, hosts or channels.

* `ReconcileProofs`
  - `TypeCorrect`. `TypeOK` is inductive by itself; `UpsertType`,
    `WrittenRowsType` and `AdvanceType` say what the operators return.
  - `SnapshotsAlwaysSound`: `TypeOK /\ SnapshotsSound`, because rows are never
    deleted: `StepKeepsRows` (what is on record stays) and
    `StepKeepsSnapshots`.
  - `IdentityAlwaysKept`: `UpsertEffect` needs the soundness above, since an
    upsert of a row that is on record keeps its identity by the conflict
    clause, and a snapshot only ever names such rows.
  - `NothingGoesSilent`: with `Faults = {}`, no opening and no closing is
    without news, told or in a running call's result. Inductive together with
    the types and the snapshots; `NewsKept` shows that news is not lost,
    `WriteIsAnnounced` and `StepIsAnnounced` that each write adds its own. That
    it holds under overlap is not obvious: a call may write over another's
    closing, and the theorem says it then still was announced.
    `NoClosingIsSilent` is its half about closings.
  - One call or handler at a time (`Overlap = FALSE`), with failing stores and
    crashes: `SerialCallsAreCurrent` is the inductive invariant `SerialInv`.
    Nobody else is between two store calls (`Alone`); what a call has in its
    snapshot is the row, but for those it has written (`CallCurrent`); and the
    absences counted since the last sighting fit between it and now, with one
    to spare for what a call has still to write (`CallCounts`, `RowsCount`).
    From it `ClosedOnlyAfterAbsences`, which is not inductive without what is
    said of the snapshots: a stale one counts an absence over a sighting, which
    `sighting_lost.cfg` shows of overlapping calls.
  - `EngineImplementsLifecycle`: under the same hypothesis `Spec => LifeSpec`.
    The engine has one store call per step and `Lifecycle` one event per life,
    so a step maps to `Life!Next` or, where the row stays as it was, to a
    stutter; `StepIsALifeStep` goes through the actions.
* `DispatcherProofs`: `TypeCorrect`; `FlushAlwaysComing`, from `Window`: the
  timer is set exactly while events are pending, and one that has fired left a
  `Flush` waiting. The property alone is not inductive, since a stale flush
  clears the timer of a window it did not belong to. `BatchAlwaysBelowMax`,
  `SeenAlwaysPending` and `CloseAlwaysFinal` follow with `Window`.
  `DispatcherIsAnOutbox`: `Spec => BoxSpec`, with `TypeCorrect`, `OnceInv` and
  `SendsInOrder` (two sends of a channel hold different digests, none an empty
  one, and nothing arrived that was not accepted): a flush is a stutter of the
  outbox, since its events were accepted before and stay owed; a send that
  succeeds is an arrival of each line, one that fails of the lines written
  before, and the last failure settles the rest. `EachEventAlwaysOnce`: an
  accepted event is in exactly one digest of a channel or still pending,
  because events are numbered by `accepted` and a flush moves the whole window
  (`FlushKeepsOnce`, `SendStepKeepsDigests`).
* `ProgramProofs`, on top of them: `DispatcherUsedAsIs` — every step of the
  program is one of the dispatcher or leaves it alone, so what is proved of
  `Dispatcher` holds in `Program`; `ProgramTypeCorrect`;
  `NewsAlwaysLeavesFirst`, from `CloseAlwaysFinal` and `EachEventAlwaysOnce`;
  `OpenAlwaysAnnounced`. A duplicate is dropped only while the first of its
  kind is in the window (`SeenAlwaysPending`), and what is in the window has
  not left yet, while all that had left when the finding was recorded has a
  smaller number (`QueueInOrder`, `TakenIsKept`): so an announcement of an
  earlier opening never stands for a later one. What a running call holds in
  its snapshot has been announced as well (`OnRecord`), since it may write it
  back over a closing.
* `CollectorProofs`: `TypeCorrect`, and `GateAlwaysHolds`. The latter is
  inductive on typed states: `proved` only grows, and both the copy a scan
  writes back and the token it acts on were checked by that scan or read from a
  verified row. `NothingIsInvented`, from `Seen`: all a scan has in hand was
  open at some moment since its `Get`, whatever step it takes.
  `ReportIsComplete`, under `Thorough` (the budget covers the hosts, lookups do
  not flap, and CT answers or there is a wildcard, whose entry shows whether it
  did), from `Complete`: what was open all along is in the report or among what
  this scan has still to ask (`StillToCome`) as long as its context has not
  ended. `report_cut.cfg` and `report_rootonly.cfg` show that the hypotheses are
  needed.
* `SchedulerProofs`: `SlotsAlwaysHeldByScans`, `WaitGroupAlwaysExact` and
  `StopAlwaysWaitsForSweeps`, from one inductive invariant `SchedInv`: types,
  slots and wait group equal to the cardinalities they stand for (`SlotsExact`,
  `GroupExact`), and `StopInv`, which relates them to the loop and the stopper.
  That `Stop` waits needs the count of the wait group, because `Wait` returns
  at zero whatever the reason. `Recount` says by how much a scan's step changes
  each cardinality, `MoveCounts`, `SpawnCounts` and `ExitCounts` say it of the
  actions.
* `CertificateProofs`, for every set of instants, servers and ports:
  `TypeCorrect`; `AlwaysWatchedToTheEnd`, from `Watched` (the finding that
  watches a certificate can be missed as often as its port may still be) and
  `ScanSound` (the report has exactly the faults of the ports reached);
  `AlwaysAgreesWhenCalm`, from `Settling` (as many scans in a row as found the
  same faults have missed any other); `SeverityAlwaysOnlyRises`, from `Graded`
  (a row's severity is one its origins have given it in a handshake that has
  taken place; `OriginsAfterScan` and `WrittenSeverity` say so of the rows a
  scan, whole or half-done, has written) and from lemmas on
  the ladder itself: `gradeExpiry` has a fault at every instant from 31 days
  on, and of one deployment a later severity is not below an earlier one.
* `ExplainProofs`, for every set of findings and narrations and every number of
  retries: `TypeCorrect`; `RetriesAlwaysJustified`; `EditionAlwaysDecides`,
  from `EditionInv` (the tier the gate read is among those of the request's
  time, and the call goes on with what the gate decided);
  `OnePacketLeaves`: whatever becomes of the row, all attempts send the packet
  of the copy that `Get` returned; and from it, with `DropConflictingKeepsOne`,
  `SeverityAlwaysTheEngines`, within the patterns the guard knows. A guard that
  went by the row as it is when the answer comes would break it.
* `DashboardProofs`: `TypeCorrect`; `NoBadKey`, from `GenuineInv`: the property
  says nothing of the keys requests still carry, so it is not inductive without
  them, nor without `ActivateKey` and `AcceptedKey` on what `Activate` returns;
  `CalmRestores` and `CalmFileInForce`, from `CalmStaysSettled`: while it is
  calm one request at most is under way, and at each of its points the table
  and the map, the file and the activation, differ by exactly what it has left
  to do, unless a write failed half way (`torn`), after which the next key
  taken, or a restart, brings file and activation together again.
  `NextDayKeepsInForce`: an expiry takes a key from the file's claim but never
  gives one.

Model-checked only:

* Liveness: `EverythingSettles`, `CloseEnds`, `ScansEnd`, `VerifiedInTheEnd`,
  `StopEnds`, `Rescanned`, `SignalEnds`, `EveryRequestAnswered` (the prover has
  no fairness). These, `BackoffDoubles`, `NoSilentReopen` and
  `OnlyCleanEvidenceLeaves` are the only properties of the passing runs that no
  theorem states. `NoSilentReopen` is about one call at a time.
* `BackoffDoubles`: the loop of `backoffFor` is a recursive function of the
  number of failures; what it computes for every number needs induction over
  it. For the same reason `TypeOK` of `Scheduler`, which types the delays.
* What `SanitizeEvidence` does with evidence of any depth: recursion over data.

## 5. Not modelled, and why

* Wording, rendering, HTTP decoding, static pages, deployment scripts.
* Channels' wire formats and the flags that build them.
* `MemStore` and the verify memstore: tests only. `Vacuum` and
  `PruneResolvedBefore` have no caller in the program.
* The wording of the prompt, the sidecar's health probe, and the branches of the
  sanitiser for types that evidence read from the store never has.
* `probeLegacy`: the product leaves `Options.ProbeLegacy` off. Overlapping
  chains of trust (an intermediate that expires before its leaf) are part of
  the external `Verifies`.
* HFS conversion: a pure function of a finding.
* The severity order of the news and the jitter of ticks: no property depends
  on them.

## 6. Plan

Done, in this order: `Lifecycle` and `Reconcile` with proofs; `Outbox` and
`Dispatcher` with proofs; `Collector` with proofs; `Scheduler`; `Dashboard`
with proofs; `Program` with proofs; `Evidence` and `Explain`; `Certificate`;
the refinements of `Lifecycle` and `Outbox`; the reports of `Collector`;
proofs of `Scheduler`, `Certificate` and `Explain`.

Next, models:

1. `Collector`'s reports as the input of `Lifecycle`: how many cut scans close
   a finding that never closed.
2. Pure parts against reference definitions: `sortBySeverity`, ULID order.

Next, proofs:

1. `Scheduler`: an abstract pool of slots that it implements, with
   `SlotsAlwaysHeldByScans` as the invariant of the mapping.
2. What a scan that was cut may lack, as a theorem beside `ReportIsComplete`.
3. The theorems that runs once checked and no longer do (`DistinctProblems`,
   `DecisionKept` of calls that do not meet, `CalmLimitKept`).
