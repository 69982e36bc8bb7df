------------------------------- MODULE Program -------------------------------
(***************************************************************************)
(* The program around the dispatcher (cmd/asm/main.go): scans record what  *)
(* they find, a row at a time, and hand the news over, an event at a time  *)
(* (notify/bridge.go), until a signal ends it all.  Then three goroutines  *)
(* race: the scans, the one that shuts the HTTP server and the scheduler   *)
(* down, and main, whose ListenAndServe returns as soon as the shutdown    *)
(* begins and which closes the dispatcher and ends the process.  If the    *)
(* server fails main exits at once.  A kill at any moment is               *)
(* Reconcile.Crash and Dashboard.Restart.                                  *)
(***************************************************************************)
EXTENDS Dispatcher

CONSTANTS Scans,          \* goroutines in scanOne at one time
          MaxScans        \* bound on the scans of a behaviour

(* main passes notify.Config{}: no event is below the minimum.              *)
ASSUME MainConfigAssumption == MinSeverity = 0

ASSUME MaxScansAssumption == MaxScans \in Nat

(* Without a channel there is no dispatcher.                                *)
ASSUME ChannelsAssumption == Channels # {}

VARIABLES table,          \* findings that are open on record
          scan,           \* locals of each scan: rows it has still to write, news it has still to hand over
          signalled,      \* the context of signal.NotifyContext has ended
          main,           \* serving, in disp.Close, returned; exited by fatal
          stopper,        \* the goroutine that shuts down: server first, then scheduler
          begun,          \* scans begun so far (bounded by MaxScans)
          dropped,        \* news of calls that failed after they had written its row (history)
          sent            \* for each finding, how many events had left when it was last recorded open (history)

progVars == <<vars, table, scan, signalled, main, stopper, begun, dropped, sent>>
process == <<signalled, main, stopper>>
ledger == <<table, begun, dropped, sent>>
rest == <<scan, process, ledger>>

Idle == [pc |-> "idle", origin |-> "none", fresh |-> {}, existing |-> {}, opened |-> {}, resolved |-> {}]
ScanLocals == [pc : {"collect", "record", "tell"}, origin : {"sweep", "request"},
               fresh : SUBSET Findings, existing : SUBSET Findings,
               opened : SUBSET Findings, resolved : SUBSET Findings]
News == [kind : Kinds, finding : Findings]

Alive == main \notin {"returned", "exited"}
Running(origin) == {s \in Scans : scan[s].origin = origin}

ProgInit == /\ Init
            /\ table = {} /\ begun = 0 /\ dropped = {} /\ sent = [f \in Findings |-> 0]
            /\ scan = [s \in Scans |-> Idle]
            /\ signalled = FALSE /\ main = "serving" /\ stopper = "waits"

-----------------------------------------------------------------------------
(* Scans.                                                                   *)

(* The loop, its select picking at random, may sweep until Stop returns; a  *)
(* request that was accepted may call ScanNow at any time.                 *)
MayBegin(origin) == origin = "sweep" => stopper # "stopped"

Begin(s, origin) ==
    /\ scan[s] = Idle /\ MayBegin(origin)
    /\ begun < MaxScans /\ begun' = begun + 1
    /\ scan' = [scan EXCEPT ![s] = [Idle EXCEPT !.pc = "collect", !.origin = origin]]
    /\ UNCHANGED <<vars, process, table, dropped, sent>>

CollectFails(s) ==
    /\ scan[s].pc = "collect"
    /\ scan' = [scan EXCEPT ![s] = Idle]
    /\ UNCHANGED <<vars, process, ledger>>

(* Reconcile: List takes the rows as they are; a context that has ended     *)
(* does not keep it from that.                                             *)
List(s, found) ==
    /\ scan[s].pc = "collect"
    /\ scan' = [scan EXCEPT ![s] = [scan[s] EXCEPT !.pc = "record", !.fresh = found, !.existing = table]]
    /\ UNCHANGED <<vars, process, ledger>>

HasLeft == accepted - Len(pending)

(* Upsert of a finding that was not open when the rows were listed: it is   *)
(* inserted or opened again, and that is news.                             *)
Opens(s, f) ==
    /\ scan[s].pc = "record" /\ f \in scan[s].fresh \ scan[s].existing
    /\ table' = table \cup {f}
    /\ scan' = [scan EXCEPT ![s] = [scan[s] EXCEPT !.fresh = scan[s].fresh \ {f}, !.opened = scan[s].opened \cup {f}]]
    /\ dropped' = dropped \ {[kind |-> "opened", finding |-> f]}
    /\ sent' = [sent EXCEPT ![f] = HasLeft]
    /\ UNCHANGED <<vars, process, begun>>

(* The rows of the snapshot: first those that were found again, then those  *)
(* that were not.                                                          *)
InTurn(s, f) ==
    /\ scan[s].pc = "record" /\ f \in scan[s].existing
    /\ f \in scan[s].fresh \/ scan[s].fresh = {}

Handled(s, f) == [scan[s] EXCEPT !.fresh = scan[s].fresh \ {f}, !.existing = scan[s].existing \ {f}]

(* The row is written back open, as the snapshot had it: refreshed, or with *)
(* its streak raised.                                                      *)
Keeps(s, f) ==
    /\ InTurn(s, f)
    /\ table' = table \cup {f}
    /\ scan' = [scan EXCEPT ![s] = Handled(s, f)]
    /\ UNCHANGED <<vars, process, begun, dropped, sent>>

(* Absent once too often.                                                   *)
Closes(s, f) ==
    /\ InTurn(s, f) /\ f \notin scan[s].fresh
    /\ table' = table \ {f}
    /\ scan' = [scan EXCEPT ![s] = [Handled(s, f) EXCEPT !.resolved = scan[s].resolved \cup {f}]]
    /\ UNCHANGED <<vars, process, begun, dropped, sent>>

(* All rows are written.                                                    *)
Recorded(s) ==
    /\ scan[s].pc = "record" /\ scan[s].fresh = {} /\ scan[s].existing = {}
    /\ scan' = [scan EXCEPT ![s] = [scan[s] EXCEPT !.pc = "tell"]]
    /\ UNCHANGED <<vars, process, ledger>>

NewsOf(locals) == [kind : {"opened"}, finding : locals.opened] \cup [kind : {"resolved"}, finding : locals.resolved]

(* A store call fails, be it for a row of the user's own status, which is   *)
(* no news and not looked at here: what is written stays written, and      *)
(* scanOne returns without OnResult.                                       *)
RecordFails(s) ==
    /\ scan[s].pc = "record"
    /\ dropped' = dropped \cup NewsOf(scan[s])
    /\ scan' = [scan EXCEPT ![s] = Idle]
    /\ UNCHANGED <<vars, process, table, begun, sent>>

(* OnResult: what opened, then what was resolved.                           *)
InHand(s, kind, f) ==
    /\ scan[s].pc = "tell"
    /\ IF kind = "opened" THEN f \in scan[s].opened ELSE scan[s].opened = {} /\ f \in scan[s].resolved

HandedOver(s, f) ==
    scan' = [scan EXCEPT ![s] = [scan[s] EXCEPT !.opened = scan[s].opened \ {f},
                                                !.resolved = IF scan[s].opened = {} THEN scan[s].resolved \ {f}
                                                             ELSE scan[s].resolved]]

Tell(s, kind, m, f, sev) ==
    /\ InHand(s, kind, f)
    /\ Enqueue(kind, m, f, sev)
    /\ HandedOver(s, f)
    /\ UNCHANGED <<process, ledger>>

(* Mutant: once an event of a finding is in the window, so are all.         *)
IsInWindowAlike(kind, m, f) == \E key \in seen : key[3] = f

(* The window has it already.                                               *)
IsInWindow(kind, m, f) == <<kind, m, f>> \in seen

TellAgain(s, kind, m, f) ==
    /\ InHand(s, kind, f)
    /\ ~closed /\ IsInWindow(kind, m, f)
    /\ HandedOver(s, f)
    /\ UNCHANGED <<vars, process, ledger>>

(* The dispatcher is closed: Enqueue returns, and the table has what nobody *)
(* will be told.                                                           *)
TellNobody(s, kind, f) ==
    /\ InHand(s, kind, f)
    /\ closed
    /\ HandedOver(s, f)
    /\ UNCHANGED <<vars, process, ledger>>

Finish(s) ==
    /\ scan[s].pc = "tell" /\ scan[s].opened = {} /\ scan[s].resolved = {}
    /\ scan' = [scan EXCEPT ![s] = Idle]
    /\ UNCHANGED <<vars, process, ledger>>

-----------------------------------------------------------------------------
(* The end of the process.                                                  *)

Signal ==
    /\ ~signalled
    /\ signalled' = TRUE
    /\ UNCHANGED <<vars, scan, main, stopper, ledger>>

(* httpSrv.Shutdown closes the listeners and waits for requests, ...        *)
ShutdownBegins ==
    /\ stopper = "waits" /\ signalled
    /\ stopper' = "drains"
    /\ UNCHANGED <<vars, scan, signalled, main, ledger>>

(* ... until they are done or five seconds are over.                        *)
ShutdownEnds ==
    /\ stopper = "drains"
    /\ stopper' = "stops"
    /\ UNCHANGED <<vars, scan, signalled, main, ledger>>

(* scheduler.Stop waits for the scans of its sweeps.                        *)
StopEnds ==
    /\ stopper = "stops" /\ Running("sweep") = {}
    /\ stopper' = "stopped"
    /\ UNCHANGED <<vars, scan, signalled, main, ledger>>

(* ListenAndServe returns ErrServerClosed, and main the deferred disp.Close.*)
MainCloses ==
    /\ main = "serving" /\ stopper # "waits"
    /\ Close
    /\ main' = "closing"
    /\ UNCHANGED <<scan, signalled, stopper, ledger>>

InHands == UNION {NewsOf(scan[s]) : s \in Scans}

(* Mutant: main does not wait for Close.                                    *)
MayReturnAtOnce == main = "closing"

(* Mutant: it waits for the scheduler to stop, too.                         *)
MayReturnWhenStopped == main = "closing" /\ closer = "done" /\ stopper = "stopped"

MayReturn == main = "closing" /\ closer = "done"

(* The process is gone, whatever its goroutines were doing.                 *)
MainReturns ==
    /\ MayReturn
    /\ main' = "returned"
    /\ scan' = [s \in Scans |-> Idle]
    /\ UNCHANGED <<vars, signalled, stopper, ledger>>

(* ListenAndServe fails, and fatal exits: no deferred Close, and the window *)
(* is gone with the scans.                                                 *)
MainExits ==
    /\ main = "serving" /\ stopper = "waits"
    /\ main' = "exited"
    /\ scan' = [s \in Scans |-> Idle]
    /\ UNCHANGED <<vars, signalled, stopper, ledger>>

-----------------------------------------------------------------------------
ScanStep(s) ==
    \/ CollectFails(s) \/ Recorded(s) \/ RecordFails(s) \/ Finish(s)
    \/ \E found \in SUBSET Findings : List(s, found)
    \/ \E f \in Findings :
        \/ Opens(s, f) \/ Keeps(s, f) \/ Closes(s, f)
        \/ \E kind \in Kinds :
               \/ TellNobody(s, kind, f)
               \/ \E m \in Modules : TellAgain(s, kind, m, f) \/ \E sev \in Severities : Tell(s, kind, m, f, sev)

ProgNext ==
    /\ Alive
    /\ \/ \E s \in Scans : ScanStep(s) \/ \E origin \in {"sweep", "request"} : Begin(s, origin)
       \/ (TimerFires \/ Flush \/ CloseReturns) /\ UNCHANGED rest
       \/ (\E ch \in Channels : SendStep(ch)) /\ UNCHANGED rest
       \/ Signal \/ ShutdownBegins \/ ShutdownEnds \/ StopEnds \/ MainCloses \/ MainReturns \/ MainExits

ProgSpec == ProgInit /\ [][ProgNext]_progVars

(* Goroutines run and sends time out.  Nobody has to send a signal, and a   *)
(* scan need not end.                                                      *)
ProgFairSpec ==
    /\ ProgSpec
    /\ WF_progVars(Alive /\ ShutdownBegins) /\ WF_progVars(Alive /\ MainCloses) /\ WF_progVars(Alive /\ MainReturns)
    /\ WF_progVars(Alive /\ CloseReturns /\ UNCHANGED rest)
    /\ \A ch \in Channels : WF_progVars(Alive /\ SendStep(ch) /\ UNCHANGED rest)

-----------------------------------------------------------------------------
(* Properties.                                                              *)

(* The type of every variable of this module.                               *)
ProgTypeOK ==
    /\ table \subseteq Findings
    /\ scan \in [Scans -> {Idle} \cup ScanLocals]
    /\ signalled \in BOOLEAN
    /\ main \in {"serving", "closing", "returned", "exited"}
    /\ stopper \in {"waits", "drains", "stops", "stopped"}
    /\ begun \in 0..MaxScans
    /\ dropped \subseteq News
    /\ sent \in [Findings -> 0..MaxEvents]

(* main returns only when every event the dispatcher took has been          *)
(* delivered or given up on, on every channel, whatever scans, timers and   *)
(* retries were in progress when the signal came (main.go:121, notify.go:151).*)
NewsLeavesFirst == main = "returned" => \A n \in 1..accepted : Settled(n)

(* Every event the dispatcher has taken.                                    *)
Taken == {pending[i] : i \in 1..Len(pending)} \cup UNION {UNION {EventsOf(d) : d \in Dispatched(ch)} : ch \in Channels}

AnnouncedSince(f, n) == \E e \in Taken : e.kind = "opened" /\ e.finding = f /\ e.n > n

(* While the program serves, every finding that is open on record was       *)
(* announced after it was last recorded as opened: that is in the hands of  *)
(* a scan, or in the window, or left since then, unless the call that       *)
(* recorded it failed (scheduler.go:325).  No interleaving of scans,        *)
(* windows and what a window drops as a duplicate loses it                  *)
(* (bridge.go:18-23, notify.go:122-125).                                    *)
OpenIsAnnounced ==
    main = "serving" =>
        \A f \in table : \/ \E s \in Scans : f \in scan[s].opened
                        \/ AnnouncedSince(f, sent[f])
                        \/ [kind |-> "opened", finding |-> f] \in dropped

(* The program only ever does to the dispatcher what its interface allows,  *)
(* so what holds of Dispatcher holds here.                                 *)
UsesDispatcher == Spec

(* A signal ends the program: neither a scan that never ends nor a channel  *)
(* that never answers keeps it up.                                         *)
SignalEnds == signalled ~> ~Alive

(* "Every finding Attack Surface Monitor opens or resolves can leave as one *)
(* ... event" (README.md:93); a signal is no reason to keep it back.    *)
NoNewsLost == closed => InHands = {}

(* Nor is a store call that fails after it (scheduler.go:325).              *)
NoNewsDropped == dropped = {}

(* Nor is the way out by fatal, which defers nothing (main.go:141-143).     *)
NewsOutlivesFatal == main = "exited" => \A n \in 1..accepted : Settled(n)

(* "Stop cancels all loops and waits for in-flight scans to finish"         *)
(* (scheduler.go:196), and main calls it on its way out.                   *)
ReturnsStopped == main = "returned" => stopper = "stopped"

(* A receiver hears of a resolution after it heard of the opening           *)
(* (scheduler.go:329: each scan hands over its own news, in its own time).  *)
ResolvedAfterOpened ==
    \A e \in Taken : e.kind = "resolved" =>
        \E d \in Taken : d.kind = "opened" /\ d.finding = e.finding /\ d.n < e.n

(* The last news of an open finding, once all is handed over, is that it    *)
(* opened (notify.go:123 drops an opening that follows a resolution in the  *)
(* window of the first opening).                                           *)
LastNewsIsTrue ==
    (main = "serving" /\ dropped = {} /\ \A s \in Scans : scan[s] = Idle) =>
        \A f \in table : \E e \in Taken : /\ e.kind = "opened" /\ e.finding = f
                                          /\ \A d \in Taken : d.finding = f => d.n <= e.n
=============================================================================
