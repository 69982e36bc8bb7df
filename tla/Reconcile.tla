------------------------------ MODULE Reconcile ------------------------------
(***************************************************************************)
(* The reconcile engine (store/reconcile.go) over the SQLite findings      *)
(* table, and the dashboard's status handler that writes the same rows     *)
(* (web/server.go, handleFindingStatus).                                   *)
(*                                                                         *)
(* Every store call is one SQL statement, hence one atomic step; between   *)
(* two of them any other goroutine may run.  The rows of one (module,      *)
(* target) are modelled; other targets never share a row.  Time is the     *)
(* number of Reconcile calls begun, so "now" of a call is its number.      *)
(***************************************************************************)
EXTENDS Integers, Sequences

CONSTANTS Findings,       \* fingerprints
          Malformed,      \* stands for a finding ValidateForIngest rejects
          Calls,          \* goroutines that may be inside Engine.Reconcile
          Handlers,       \* goroutines that may be inside handleFindingStatus
          FreshLists,     \* what a collector may return: sequences, duplicates allowed
          ResolveAfter,   \* ModuleInfo.ResolveAfter, as configured
          Overlap,        \* may calls and handlers run at the same time?
          Faults,         \* subset of {"store", "crash"} that may happen
          MaxCalls        \* bound on the number of Reconcile calls

ASSUME MalformedAssumption == Malformed \notin Findings
ASSUME FreshAssumption == FreshLists \subseteq Seq(Findings \cup {Malformed})
ASSUME ResolveAfterAssumption == ResolveAfter \in Int
ASSUME MaxCallsAssumption == MaxCalls \in Nat

VARIABLES clock,          \* calls begun so far
          rows,           \* the findings table
          call,           \* locals of each Reconcile call
          edits,          \* writes a status handler has prepared but not issued
          told            \* changes handed to Scheduler.OnResult (history)

vars == <<clock, rows, call, edits, told>>

UserStatuses == {"open", "acknowledged", "suppressed"}
Statuses == UserStatuses \cup {"resolved", "none"}

(* A row: 0 in resolvedAt is SQL NULL.  id and first_seen are written by    *)
(* the same INSERT and by nothing else, so "first" stands for both.        *)
Row == [status : Statuses, first : Nat, last : Nat, streak : Nat, resolvedAt : Nat]

NoRow == [status |-> "none", first |-> 0, last |-> 0, streak |-> 0, resolvedAt |-> 0]
Stored(table, f) == table[f].status # "none"

Threshold == IF ResolveAfter < 1 THEN 1 ELSE ResolveAfter

(* A call not in Reconcile; its locals hold nothing.                        *)
IdleCall == [pc |-> "idle", now |-> 0, fresh |-> <<>>, seen |-> {}, todo |-> {},
             existing |-> [f \in Findings |-> NoRow], opened |-> {}, resolved |-> {}]

Quiet == edits = {} /\ \A c \in Calls : call[c].pc = "idle"

Init == /\ clock = 0
        /\ rows = [f \in Findings |-> NoRow]
        /\ call = [c \in Calls |-> IdleCall]
        /\ edits = {}
        /\ told = {}

-----------------------------------------------------------------------------
(* The table.                                                               *)

(* Mutant: the row is replaced whole, as MemStore.Upsert does.              *)
UpsertReplacing(f, row) == rows' = [rows EXCEPT ![f] = row]

(* INSERT ... ON CONFLICT(module, fingerprint) DO UPDATE: the update clause *)
(* lists neither id nor first_seen, so the identity of a row is kept.      *)
Upsert(f, row) ==
    rows' = [rows EXCEPT ![f] = IF Stored(rows, f) THEN [row EXCEPT !.first = rows[f].first] ELSE row]

(* Mutant: the streak of a new row starts one short.                        *)
NewRowShort(now) ==
    [status |-> "open", first |-> now, last |-> now, streak |-> -1, resolvedAt |-> 0]

(* The row Reconcile writes for a fingerprint its snapshot did not have.    *)
NewRow(now) ==
    [status |-> "open", first |-> now, last |-> now, streak |-> 0, resolvedAt |-> 0]

(* Mutant: only a reopening resets the streak.                              *)
MergedKeepsStreak(prev, now) ==
    IF prev.status = "resolved"
    THEN [prev EXCEPT !.last = now, !.streak = 0, !.status = "open", !.resolvedAt = 0]
    ELSE [prev EXCEPT !.last = now]

(* The row it writes for one it had: refreshed, and reopened if resolved.   *)
Merged(prev, now) ==
    IF prev.status = "resolved"
    THEN [prev EXCEPT !.last = now, !.streak = 0, !.status = "open", !.resolvedAt = 0]
    ELSE [prev EXCEPT !.last = now, !.streak = 0]

(* Mutant: > for >= at the threshold.                                       *)
MissedOneMore(prev, now) ==
    IF prev.streak + 1 > Threshold
    THEN [prev EXCEPT !.streak = @ + 1, !.status = "resolved", !.resolvedAt = now]
    ELSE [prev EXCEPT !.streak = @ + 1]

(* The row it writes for one the fresh list lacks.                          *)
Missed(prev, now) ==
    IF prev.streak + 1 >= Threshold
    THEN [prev EXCEPT !.streak = @ + 1, !.status = "resolved", !.resolvedAt = now]
    ELSE [prev EXCEPT !.streak = @ + 1]

-----------------------------------------------------------------------------
(* Engine.Reconcile.                                                        *)

(* now := e.now()                                                           *)
Begin(c, fresh) ==
    /\ call[c].pc = "idle"
    /\ clock < MaxCalls
    /\ Overlap \/ Quiet
    /\ clock' = clock + 1
    /\ call' = [call EXCEPT ![c] = [IdleCall EXCEPT !.pc = "list", !.now = clock + 1, !.fresh = fresh]]
    /\ UNCHANGED <<rows, edits, told>>

(* existing := ListByTarget(...), the snapshot every later decision reads.  *)
List(c) ==
    /\ call[c].pc = "list"
    /\ call' = [call EXCEPT ![c] = [call[c] EXCEPT !.pc = "fresh", !.existing = rows]]
    /\ UNCHANGED <<clock, rows, edits, told>>

AtFresh(c, g) == call[c].pc = "fresh" /\ call[c].fresh # <<>> /\ g = Head(call[c].fresh)

(* On to the next fresh finding.                                            *)
Advance(c, seen, opened) ==
    call' = [call EXCEPT ![c] = [call[c] EXCEPT !.fresh = Tail(call[c].fresh),
                                                !.seen = seen, !.opened = opened]]

(* A malformed finding goes to res.Rejected and touches no row.             *)
Reject(c) ==
    /\ AtFresh(c, Malformed)
    /\ Advance(c, call[c].seen, call[c].opened)
    /\ UNCHANGED <<clock, rows, edits, told>>

(* Mutant: the append to res.NewlyOpen is lost.                             *)
InsertQuietly(c, f) ==
    /\ AtFresh(c, f)
    /\ ~Stored(call[c].existing, f)
    /\ Upsert(f, NewRow(call[c].now))
    /\ Advance(c, call[c].seen \cup {f}, call[c].opened)
    /\ UNCHANGED <<clock, edits, told>>

(* A fingerprint the snapshot lacks: insert as open, announce.              *)
Insert(c, f) ==
    /\ AtFresh(c, f)
    /\ ~Stored(call[c].existing, f)
    /\ Upsert(f, NewRow(call[c].now))
    /\ Advance(c, call[c].seen \cup {f}, call[c].opened \cup {f})
    /\ UNCHANGED <<clock, edits, told>>

(* Mutant: "reopened" is read off the merged record, never resolved.        *)
RefreshQuietly(c, f) ==
    /\ AtFresh(c, f)
    /\ Stored(call[c].existing, f)
    /\ Upsert(f, Merged(call[c].existing[f], call[c].now))
    /\ Advance(c, call[c].seen \cup {f}, call[c].opened)
    /\ UNCHANGED <<clock, edits, told>>

(* A fingerprint the snapshot has: refresh, and announce if it reopens.     *)
Refresh(c, f) ==
    LET prev == call[c].existing[f]
    IN /\ AtFresh(c, f)
       /\ Stored(call[c].existing, f)
       /\ Upsert(f, Merged(prev, call[c].now))
       /\ Advance(c, call[c].seen \cup {f},
                  IF prev.status = "resolved" THEN call[c].opened \cup {f} ELSE call[c].opened)
       /\ UNCHANGED <<clock, edits, told>>

(* The fresh list is done: what is left are the unseen findings that the    *)
(* snapshot shows neither resolved nor suppressed.                         *)
TurnToAbsent(c) ==
    /\ call[c].pc = "fresh"
    /\ call[c].fresh = <<>>
    /\ call' = [call EXCEPT ![c] = [call[c] EXCEPT !.pc = "absent",
                   !.todo = {f \in Findings \ call[c].seen :
                                call[c].existing[f].status \in {"open", "acknowledged"}}]]
    /\ UNCHANGED <<clock, rows, edits, told>>

(* Mutant: the closing is reported only when the streak hits the threshold. *)
MissAtThreshold(c, f) ==
    LET row == Missed(call[c].existing[f], call[c].now)
    IN /\ call[c].pc = "absent"
       /\ f \in call[c].todo
       /\ Upsert(f, row)
       /\ call' = [call EXCEPT ![c] = [call[c] EXCEPT !.todo = call[c].todo \ {f},
              !.resolved = IF row.streak = Threshold THEN call[c].resolved \cup {f} ELSE call[c].resolved]]
       /\ UNCHANGED <<clock, edits, told>>

(* One absent finding, in any order (ListByTarget returns none).            *)
Miss(c, f) ==
    LET row == Missed(call[c].existing[f], call[c].now)
    IN /\ call[c].pc = "absent"
       /\ f \in call[c].todo
       /\ Upsert(f, row)
       /\ call' = [call EXCEPT ![c] = [call[c] EXCEPT !.todo = call[c].todo \ {f},
              !.resolved = IF row.status = "resolved" THEN call[c].resolved \cup {f} ELSE call[c].resolved]]
       /\ UNCHANGED <<clock, edits, told>>

News(kind, fs, now) == {[kind |-> kind, finding |-> f, at |-> now] : f \in fs}

(* Reconcile returns without error and scanOne hands the result on.         *)
Deliver(c) ==
    /\ call[c].pc = "absent"
    /\ call[c].todo = {}
    /\ told' = told \cup News("opened", call[c].opened, call[c].now)
                    \cup News("resolved", call[c].resolved, call[c].now)
    /\ call' = [call EXCEPT ![c] = IdleCall]
    /\ UNCHANGED <<clock, rows, edits>>

(* ListByTarget, newID or Upsert fails: Reconcile returns the error, the    *)
(* rows already written stay, and scanOne skips OnResult.                  *)
StoreError(c) ==
    /\ "store" \in Faults
    /\ \/ call[c].pc = "list"
       \/ \E f \in Findings : AtFresh(c, f)
       \/ call[c].pc = "absent" /\ call[c].todo # {}
    /\ call' = [call EXCEPT ![c] = IdleCall]
    /\ UNCHANGED <<clock, rows, edits, told>>

-----------------------------------------------------------------------------
(* handleFindingStatus: Get, set the status, Upsert the whole record.       *)

GetForEdit(h, f, choice) ==
    /\ \A e \in edits : e.by # h
    /\ Overlap \/ Quiet
    /\ Stored(rows, f)
    /\ edits' = edits \cup {[by |-> h, finding |-> f, row |-> [rows[f] EXCEPT !.status = choice]]}
    /\ UNCHANGED <<clock, rows, call, told>>

PutEdit(e) ==
    /\ Upsert(e.finding, e.row)
    /\ edits' = edits \ {e}
    /\ UNCHANGED <<clock, call, told>>

(* The handler's Upsert fails: 500 to the user, nothing written.            *)
EditError(e) ==
    /\ "store" \in Faults
    /\ edits' = edits \ {e}
    /\ UNCHANGED <<clock, rows, call, told>>

(* The process dies: every goroutine is gone, the table survives.           *)
Crash ==
    /\ "crash" \in Faults
    /\ ~Quiet
    /\ call' = [c \in Calls |-> IdleCall]
    /\ edits' = {}
    /\ UNCHANGED <<clock, rows, told>>

-----------------------------------------------------------------------------
CallStep(c) ==
    \/ List(c) \/ Reject(c) \/ TurnToAbsent(c) \/ Deliver(c) \/ StoreError(c)
    \/ \E fresh \in FreshLists : Begin(c, fresh)
    \/ \E f \in Findings : Insert(c, f) \/ Refresh(c, f) \/ Miss(c, f)

UserStep ==
    \/ \E h \in Handlers, f \in Findings, choice \in UserStatuses : GetForEdit(h, f, choice)
    \/ \E e \in edits : PutEdit(e) \/ EditError(e)

Next == (\E c \in Calls : CallStep(c)) \/ UserStep \/ Crash

Spec == Init /\ [][Next]_vars

-----------------------------------------------------------------------------
(* Type correctness of the table, the locals of the calls and the history.  *)
CallLocals ==
    [pc : {"idle", "list", "fresh", "absent"}, now : Nat, fresh : Seq(Findings \cup {Malformed}),
     seen : SUBSET Findings, todo : SUBSET Findings, existing : [Findings -> Row],
     opened : SUBSET Findings, resolved : SUBSET Findings]

TypeOK ==
    /\ clock \in 0..MaxCalls
    /\ rows \in [Findings -> Row]
    /\ call \in [Calls -> CallLocals]
    /\ edits \subseteq [by : Handlers, finding : Findings, row : Row]
    /\ told \subseteq [kind : {"opened", "resolved"}, finding : Findings, at : Nat]

(* A row on record stays on record, so what a call has in its snapshot or a  *)
(* handler is about to write back is never the row of a finding that is    *)
(* gone; a call outside Reconcile holds no result.                         *)
SnapshotsSound ==
    /\ \A c \in Calls :
          /\ \A f \in Findings : Stored(call[c].existing, f) => Stored(rows, f)
          /\ \A f \in call[c].todo : call[c].existing[f].status \in {"open", "acknowledged"}
          /\ call[c].pc \in {"idle", "list"} => call[c].todo = {}
          /\ call[c].pc = "idle" => call[c].opened = {} /\ call[c].resolved = {}
    /\ \A e \in edits : Stored(rows, e.finding) /\ e.row.status \in UserStatuses

(* A change is announced if OnResult was given it, or a call still running  *)
(* holds it in its result.                                                 *)
AnnouncedOpen(news, running, f, at) ==
    \/ [kind |-> "opened", finding |-> f, at |-> at] \in news
    \/ \E c \in Calls : running[c].now = at /\ f \in running[c].opened

AnnouncedResolved(news, running, f, at) ==
    \/ [kind |-> "resolved", finding |-> f, at |-> at] \in news
    \/ \E c \in Calls : running[c].now = at /\ f \in running[c].resolved

(* "new fingerprint -> insert as open (notify)": no row is on record whose  *)
(* first sighting was not, or is not about to be, handed to the notifier,  *)
(* however calls overlap.                                                  *)
NoSilentOpen ==
    \A f \in Findings : Stored(rows, f) => AnnouncedOpen(told, call, f, rows[f].first)

(* A row reads resolved only if the closing at its resolved_at is news that *)
(* was, or is about to be, handed on.                                      *)
NoSilentResolve ==
    \A f \in Findings :
        rows[f].status = "resolved" => AnnouncedResolved(told, call, f, rows[f].resolvedAt)

(* The id and first_seen of a row survive every write, also the INSERT of a *)
(* call that raced another one to the same new fingerprint.                *)
IdentityKept ==
    [][\A f \in Findings :
          Stored(rows, f) => Stored(rows', f) /\ rows'[f].first = rows[f].first]_vars

(* "previously resolved -> reopen (notify)": a closed finding opens again   *)
(* by the user's hand or in the result of the call that writes it.         *)
NoSilentReopen ==
    [][\A f \in Findings :
          rows[f].status = "resolved" /\ rows'[f].status = "open"
            => \/ \E e \in edits : PutEdit(e)
               \/ \E c \in Calls : f \in call'[c].opened]_vars

(* "suppressed is the user's call", and an acknowledged finding keeps its   *)
(* status while it is seen: only the user takes a decision back, only a    *)
(* resolution ends an acknowledgement.                                     *)
DecisionKept ==
    [][(\E e \in edits : PutEdit(e)) \/
       \A f \in Findings :
          /\ rows[f].status = "suppressed" => rows'[f].status = "suppressed"
          /\ rows[f].status = "acknowledged" => rows'[f].status \in {"acknowledged", "resolved"}]_vars

(* AbsentStreak counts consecutive scans without the finding and is reset   *)
(* whenever it reappears: a closed finding was last seen at least Threshold*)
(* calls before the call that closed it.                                   *)
ClosedAfterAbsences ==
    \A f \in Findings :
        rows[f].status = "resolved" => rows[f].resolvedAt - rows[f].last >= Threshold

(* An absence is counted against the sighting on record, one at a time: it  *)
(* never follows from a snapshot that a later sighting has overtaken.      *)
StreakFollowsSighting ==
    [][\A f \in Findings :
          rows'[f].streak > rows[f].streak
            => rows'[f].last = rows[f].last /\ rows'[f].streak = rows[f].streak + 1]_vars

(* Without overlap every write acts on the current row: the engine and the  *)
(* handler together implement the life of a finding, also when a store     *)
(* call fails half way or the process dies.                                *)
Life == INSTANCE Lifecycle WITH
            status <- [f \in Findings |-> rows[f].status],
            streak <- [f \in Findings |-> rows[f].streak]
LifeSpec == Life!Spec
=============================================================================
