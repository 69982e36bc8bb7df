-------------------------- MODULE ReconcileProofs --------------------------
(***************************************************************************)
(* What holds of the reconcile engine for every set of findings, calls and *)
(* handlers, every overlap and every threshold: its types, the identity of *)
(* a row, and, as long as no store call fails and the process lives, that  *)
(* no opening and no closing goes unannounced.  And what holds, with any   *)
(* failures, when calls do not overlap: a closing takes the threshold of   *)
(* absences, a reopening is told, and the engine implements Lifecycle.     *)
(***************************************************************************)
EXTENDS Reconcile, TLAPS

(* Upsert with a well-typed row keeps the table well typed.                 *)
LEMMA UpsertType ==
    ASSUME rows \in [Findings -> Row], NEW f \in Findings, NEW row \in Row, Upsert(f, row)
    PROVE  rows' \in [Findings -> Row]
BY DEF Upsert, Row, Stored

(* The three rows a call writes are rows.                                   *)
LEMMA WrittenRowsType ==
    ASSUME NEW prev \in Row, NEW now \in Nat
    PROVE  NewRow(now) \in Row /\ Merged(prev, now) \in Row /\ Missed(prev, now) \in Row
<1>1. NewRow(now) \in Row
  BY DEF NewRow, Row, Statuses, UserStatuses
<1>2. Merged(prev, now) \in Row
  BY DEF Merged, Row, Statuses, UserStatuses
<1>3. Threshold \in Int
  BY ResolveAfterAssumption DEF Threshold
<1>4. prev.streak + 1 \in Nat
  BY DEF Row
<1>5. /\ [prev EXCEPT !.streak = prev.streak + 1] \in Row
      /\ [prev EXCEPT !.streak = prev.streak + 1, !.status = "resolved", !.resolvedAt = now] \in Row
  BY <1>4 DEF Row, Statuses
<1>6. Missed(prev, now) \in Row
  BY <1>3, <1>4, <1>5 DEF Missed
<1> QED BY <1>1, <1>2, <1>6

(* A call that goes on to the next fresh finding keeps its locals typed.    *)
LEMMA AdvanceType ==
    ASSUME call \in [Calls -> CallLocals], NEW c \in Calls, call[c].fresh # <<>>,
           NEW seen \in SUBSET Findings, NEW opened \in SUBSET Findings, Advance(c, seen, opened)
    PROVE  call' \in [Calls -> CallLocals]
<1>1. Tail(call[c].fresh) \in Seq(Findings \cup {Malformed})
  BY DEF CallLocals
<1>2. [call[c] EXCEPT !.fresh = Tail(call[c].fresh), !.seen = seen, !.opened = opened] \in CallLocals
  BY <1>1 DEF CallLocals
<1> QED BY <1>2 DEF Advance

(* The locals of a call that has not begun are locals.                      *)
LEMMA IdleCallType == IdleCall \in CallLocals
<1>1. NoRow \in Row
  BY DEF NoRow, Row, Statuses
<1>2. <<>> \in Seq(Findings \cup {Malformed})
  OBVIOUS
<1> QED BY <1>1, <1>2 DEF IdleCall, CallLocals

(* The state is well typed: Engine.Reconcile and handleFindingStatus write  *)
(* rows and locals of the right shape only.                                *)
THEOREM TypeCorrect == Spec => []TypeOK
<1> USE MalformedAssumption, FreshAssumption, MaxCallsAssumption
<1>1. Init => TypeOK
  <2> SUFFICES ASSUME Init PROVE TypeOK OBVIOUS
  <2>1. NoRow \in Row
    BY DEF NoRow, Row, Statuses
  <2> QED BY <2>1, IdleCallType DEF Init, TypeOK
<1>2. TypeOK /\ [Next]_vars => TypeOK'
  <2> SUFFICES ASSUME TypeOK, [Next]_vars PROVE TypeOK'
    OBVIOUS
  <2> USE DEF TypeOK
  <2>1. ASSUME NEW c \in Calls, NEW fresh \in FreshLists, Begin(c, fresh) PROVE TypeOK'
    <3>1. fresh \in Seq(Findings \cup {Malformed}) /\ clock + 1 \in Nat /\ clock + 1 \in 0..MaxCalls
      BY <2>1 DEF Begin
    <3>2. [IdleCall EXCEPT !.pc = "list", !.now = clock + 1, !.fresh = fresh] \in CallLocals
      BY <3>1, IdleCallType DEF CallLocals, IdleCall
    <3> QED BY <2>1, <3>1, <3>2 DEF Begin
  <2>2. ASSUME NEW c \in Calls, List(c) PROVE TypeOK'
    <3>1. [call[c] EXCEPT !.pc = "fresh", !.existing = rows] \in CallLocals
      BY DEF CallLocals
    <3> QED BY <2>2, <3>1 DEF List
  <2>3. ASSUME NEW c \in Calls, Reject(c) PROVE TypeOK'
    <3>1. call[c].fresh # <<>> /\ Advance(c, call[c].seen, call[c].opened)
      BY <2>3 DEF Reject, AtFresh
    <3>2. call[c].seen \in SUBSET Findings /\ call[c].opened \in SUBSET Findings
      BY DEF CallLocals
    <3>3. call' \in [Calls -> CallLocals]
      BY <3>1, <3>2, AdvanceType
    <3> QED BY <2>3, <3>3 DEF Reject
  <2>4. ASSUME NEW c \in Calls, NEW f \in Findings, Insert(c, f) PROVE TypeOK'
    <3>1. NewRow(call[c].now) \in Row
      BY <2>4, WrittenRowsType DEF CallLocals
    <3>2. rows' \in [Findings -> Row]
      BY <2>4, <3>1, UpsertType DEF Insert
    <3>3. call[c].fresh # <<>> /\ Advance(c, call[c].seen \cup {f}, call[c].opened \cup {f})
      BY <2>4 DEF Insert, AtFresh
    <3>4. call[c].seen \cup {f} \in SUBSET Findings /\ call[c].opened \cup {f} \in SUBSET Findings
      BY DEF CallLocals
    <3>5. call' \in [Calls -> CallLocals]
      BY <3>3, <3>4, AdvanceType
    <3> QED BY <2>4, <3>2, <3>5 DEF Insert
  <2>5. ASSUME NEW c \in Calls, NEW f \in Findings, Refresh(c, f) PROVE TypeOK'
    <3>1. Merged(call[c].existing[f], call[c].now) \in Row
      BY <2>5, WrittenRowsType DEF CallLocals
    <3>2. rows' \in [Findings -> Row]
      BY <2>5, <3>1, UpsertType DEF Refresh
    <3> DEFINE opened == IF call[c].existing[f].status = "resolved"
                         THEN call[c].opened \cup {f} ELSE call[c].opened
    <3>3. call[c].fresh # <<>> /\ Advance(c, call[c].seen \cup {f}, opened)
      BY <2>5 DEF Refresh, AtFresh
    <3>4. call[c].seen \cup {f} \in SUBSET Findings /\ opened \in SUBSET Findings
      BY DEF CallLocals
    <3> HIDE DEF opened
    <3>5. call' \in [Calls -> CallLocals]
      BY <3>3, <3>4, AdvanceType
    <3> QED BY <2>5, <3>2, <3>5 DEF Refresh
  <2>6. ASSUME NEW c \in Calls, TurnToAbsent(c) PROVE TypeOK'
    <3> DEFINE todo == {f \in Findings \ call[c].seen :
                           call[c].existing[f].status \in {"open", "acknowledged"}}
    <3>1. [call[c] EXCEPT !.pc = "absent", !.todo = todo] \in CallLocals
      BY DEF CallLocals
    <3> QED BY <2>6, <3>1 DEF TurnToAbsent
  <2>7. ASSUME NEW c \in Calls, NEW f \in Findings, Miss(c, f) PROVE TypeOK'
    <3>1. Missed(call[c].existing[f], call[c].now) \in Row
      BY <2>7, WrittenRowsType DEF CallLocals
    <3>2. rows' \in [Findings -> Row]
      BY <2>7, <3>1, UpsertType DEF Miss
    <3> DEFINE resolved == IF Missed(call[c].existing[f], call[c].now).status = "resolved"
                           THEN call[c].resolved \cup {f} ELSE call[c].resolved
    <3>3. call' = [call EXCEPT ![c] = [call[c] EXCEPT !.todo = call[c].todo \ {f}, !.resolved = resolved]]
      BY <2>7 DEF Miss
    <3>4. resolved \in SUBSET Findings
      BY DEF CallLocals
    <3> HIDE DEF resolved
    <3>5. [call[c] EXCEPT !.todo = call[c].todo \ {f}, !.resolved = resolved] \in CallLocals
      BY <3>4 DEF CallLocals
    <3>6. call' \in [Calls -> CallLocals]
      BY <3>3, <3>5
    <3> QED BY <2>7, <3>2, <3>6 DEF Miss
  <2>8. ASSUME NEW c \in Calls, Deliver(c) PROVE TypeOK'
    BY <2>8, IdleCallType DEF Deliver, CallLocals, News
  <2>9. ASSUME NEW c \in Calls, StoreError(c) PROVE TypeOK'
    BY <2>9, IdleCallType DEF StoreError
  <2>10. ASSUME NEW h \in Handlers, NEW f \in Findings, NEW choice \in UserStatuses,
                GetForEdit(h, f, choice)
         PROVE  TypeOK'
    <3>1. [rows[f] EXCEPT !.status = choice] \in Row
      BY DEF Row, Statuses
    <3> QED BY <2>10, <3>1 DEF GetForEdit
  <2>11. ASSUME NEW e \in edits, PutEdit(e) PROVE TypeOK'
    <3>1. e.finding \in Findings /\ e.row \in Row
      OBVIOUS
    <3>2. rows' \in [Findings -> Row]
      BY <2>11, <3>1, UpsertType DEF PutEdit
    <3> QED BY <2>11, <3>2 DEF PutEdit
  <2>12. ASSUME NEW e \in edits, EditError(e) PROVE TypeOK'
    BY <2>12 DEF EditError
  <2>13. CASE Crash
    BY <2>13, IdleCallType DEF Crash
  <2>14. CASE UNCHANGED vars
    BY <2>14 DEF vars
  <2> QED BY <2>1, <2>2, <2>3, <2>4, <2>5, <2>6, <2>7, <2>8, <2>9, <2>10, <2>11, <2>12, <2>13, <2>14
          DEF Next, CallStep, UserStep
<1> QED BY <1>1, <1>2, PTL DEF Spec

-----------------------------------------------------------------------------
(* What one Upsert changes: only its row, of which it keeps the identity.   *)
LEMMA UpsertEffect ==
    ASSUME rows \in [Findings -> Row], NEW f \in Findings, NEW row \in Row,
           row.status # "none", Upsert(f, row)
    PROVE  /\ \A g \in Findings : g # f => rows'[g] = rows[g]
           /\ rows'[f].status = row.status
           /\ rows'[f].resolvedAt = row.resolvedAt
           /\ rows'[f].first = IF Stored(rows, f) THEN rows[f].first ELSE row.first
           /\ \A g \in Findings : Stored(rows, g) => /\ Stored(rows', g)
                                                   /\ rows'[g].first = rows[g].first
<1>1. rows' = [rows EXCEPT ![f] = IF Stored(rows, f) THEN [row EXCEPT !.first = rows[f].first] ELSE row]
  BY DEF Upsert
<1>2. CASE Stored(rows, f)
  <2>1. rows' = [rows EXCEPT ![f] = [row EXCEPT !.first = rows[f].first]]
    BY <1>1, <1>2
  <2> QED BY <1>2, <2>1 DEF Stored, Row
<1>3. CASE ~Stored(rows, f)
  <2>1. rows' = [rows EXCEPT ![f] = row]
    BY <1>1, <1>3
  <2> QED BY <1>3, <2>1 DEF Stored, Row
<1> QED BY <1>2, <1>3

(* Statuses and dates of the rows a call writes.                            *)
LEMMA WrittenRows ==
    ASSUME NEW prev \in Row, NEW now \in Nat, prev.status # "none"
    PROVE  /\ Merged(prev, now).status \in UserStatuses
           /\ Missed(prev, now).status # "none"
           /\ Missed(prev, now).status = "resolved" =>
                 Missed(prev, now).resolvedAt = now \/ prev.status = "resolved"
<1>1. Merged(prev, now).status \in UserStatuses
  BY DEF Merged, Row, Statuses, UserStatuses
<1>2. CASE prev.streak + 1 >= Threshold
  BY <1>1, <1>2 DEF Missed, Row
<1>3. CASE ~(prev.streak + 1 >= Threshold)
  BY <1>1, <1>3 DEF Missed, Row
<1> QED BY <1>2, <1>3

-----------------------------------------------------------------------------
RowsKept ==
    \A f \in Findings : Stored(rows, f) => Stored(rows', f) /\ rows'[f].first = rows[f].first

(* What the rows of a step's snapshots and edits are, for the two facts     *)
(* below: every step keeps the rows and keeps the snapshots sound.         *)
LEMMA StepKeepsRows ==
    ASSUME TypeOK, SnapshotsSound, [Next]_vars
    PROVE  RowsKept
<1> USE DEF TypeOK
<1>1. ASSUME NEW f \in Findings, NEW row \in Row, row.status # "none", Upsert(f, row)
      PROVE  RowsKept
  BY <1>1, UpsertEffect DEF RowsKept
<1>2. ASSUME NEW c \in Calls, NEW f \in Findings, Insert(c, f) PROVE RowsKept
  <2>1. NewRow(call[c].now) \in Row /\ NewRow(call[c].now).status # "none"
    BY <1>2 DEF NewRow, Row, Statuses, UserStatuses, CallLocals
  <2> QED BY <1>1, <1>2, <2>1 DEF Insert
<1>3. ASSUME NEW c \in Calls, NEW f \in Findings, Refresh(c, f) PROVE RowsKept
  <2>1. call[c].existing[f] \in Row /\ call[c].existing[f].status # "none" /\ call[c].now \in Nat
    BY <1>3 DEF Refresh, Stored, CallLocals
  <2>2. Merged(call[c].existing[f], call[c].now) \in Row
    BY <2>1, WrittenRowsType
  <2>3. Merged(call[c].existing[f], call[c].now).status # "none"
    BY <2>1, WrittenRows DEF UserStatuses
  <2> QED BY <1>1, <1>3, <2>2, <2>3 DEF Refresh
<1>4. ASSUME NEW c \in Calls, NEW f \in Findings, Miss(c, f) PROVE RowsKept
  <2>0. f \in call[c].todo
    BY <1>4 DEF Miss
  <2>1. call[c].existing[f] \in Row /\ call[c].existing[f].status # "none" /\ call[c].now \in Nat
    BY <2>0 DEF CallLocals, SnapshotsSound
  <2>2. Missed(call[c].existing[f], call[c].now) \in Row
    BY <2>1, WrittenRowsType
  <2>3. Missed(call[c].existing[f], call[c].now).status # "none"
    BY <2>1, WrittenRows
  <2> QED BY <1>1, <1>4, <2>2, <2>3 DEF Miss
<1>5. ASSUME NEW e \in edits, PutEdit(e) PROVE RowsKept
  <2>1. e.finding \in Findings /\ e.row \in Row /\ e.row.status # "none"
    BY <1>5 DEF SnapshotsSound, UserStatuses
  <2> QED BY <1>1, <1>5, <2>1 DEF PutEdit
<1>6. ASSUME rows' = rows PROVE RowsKept
  BY <1>6 DEF RowsKept, Stored
<1> QED BY <1>2, <1>3, <1>4, <1>5, <1>6
        DEF Next, CallStep, UserStep, Begin, List, Reject, TurnToAbsent, Deliver, StoreError,
            GetForEdit, EditError, Crash, vars

(* A snapshot names rows on record, and these stay.                         *)
LEMMA StepKeepsSnapshots ==
    ASSUME TypeOK, TypeOK', SnapshotsSound, [Next]_vars
    PROVE  SnapshotsSound'
<1> DEFINE Kept == \A f \in Findings : Stored(rows, f) => Stored(rows', f)
<1>0. Kept
  BY StepKeepsRows DEF RowsKept
<1> USE DEF TypeOK
<1>1. ASSUME edits' = edits,
             NEW c \in Calls, \A d \in Calls : d # c => call'[d] = call[d],
             \A f \in Findings : Stored(call'[c].existing, f) => Stored(rows, f),
             \A f \in call'[c].todo : call'[c].existing[f].status \in {"open", "acknowledged"},
             call'[c].pc \in {"idle", "list"} => call'[c].todo = {},
             call'[c].pc = "idle" => call'[c].opened = {} /\ call'[c].resolved = {}
      PROVE  SnapshotsSound'
  <2>1. \A e \in edits : Stored(rows', e.finding) /\ e.row.status \in UserStatuses
    BY <1>0 DEF SnapshotsSound
  <2>2. ASSUME NEW d \in Calls
        PROVE  /\ \A f \in Findings : Stored(call'[d].existing, f) => Stored(rows', f)
               /\ \A f \in call'[d].todo : call'[d].existing[f].status \in {"open", "acknowledged"}
               /\ call'[d].pc \in {"idle", "list"} => call'[d].todo = {}
               /\ call'[d].pc = "idle" => call'[d].opened = {} /\ call'[d].resolved = {}
    <3>1. CASE d = c
      BY <1>0, <1>1, <3>1
    <3>2. CASE d # c
      <4>1. call'[d] = call[d]
        BY <1>1, <3>2
      <4> QED BY <1>0, <4>1 DEF SnapshotsSound
    <3> QED BY <3>1, <3>2
  <2> QED BY <1>1, <2>1, <2>2 DEF SnapshotsSound
<1>2. \A f \in Findings : ~Stored(IdleCall.existing, f)
  BY DEF IdleCall, Stored, NoRow
<1>3. ASSUME NEW c \in Calls, NEW fresh \in FreshLists, Begin(c, fresh) PROVE SnapshotsSound'
  <2>1. /\ call'[c].existing = IdleCall.existing /\ call'[c].todo = {} /\ call'[c].pc = "list"
        /\ \A d \in Calls : d # c => call'[d] = call[d]
    BY <1>3 DEF Begin, IdleCall
  <2> QED BY <1>1, <1>2, <1>3, <2>1 DEF Begin
<1>4. ASSUME NEW c \in Calls, List(c) PROVE SnapshotsSound'
  <2>1. /\ call'[c].existing = rows /\ call'[c].todo = call[c].todo /\ call'[c].pc = "fresh"
        /\ \A d \in Calls : d # c => call'[d] = call[d]
    BY <1>4 DEF List, CallLocals
  <2>2. call[c].todo = {}
    BY <1>4 DEF List, SnapshotsSound
  <2> QED BY <1>1, <1>4, <2>1, <2>2 DEF List
<1>5. ASSUME NEW c \in Calls, NEW seen, NEW opened, Advance(c, seen, opened),
             call[c].pc = "fresh", edits' = edits
      PROVE  SnapshotsSound'
  <2>1. /\ call'[c].existing = call[c].existing /\ call'[c].todo = call[c].todo
        /\ call'[c].pc = "fresh" /\ \A d \in Calls : d # c => call'[d] = call[d]
    BY <1>5 DEF Advance, CallLocals
  <2> QED BY <1>1, <1>5, <2>1 DEF SnapshotsSound
<1>6. ASSUME NEW c \in Calls, TurnToAbsent(c) PROVE SnapshotsSound'
  <2>1. /\ call'[c].existing = call[c].existing /\ call'[c].pc = "absent"
        /\ call'[c].todo = {f \in Findings \ call[c].seen :
                                call[c].existing[f].status \in {"open", "acknowledged"}}
        /\ \A d \in Calls : d # c => call'[d] = call[d]
    BY <1>6 DEF TurnToAbsent, CallLocals
  <2>2. \A f \in call'[c].todo : call'[c].existing[f].status \in {"open", "acknowledged"}
    BY <2>1
  <2> QED BY <1>1, <1>6, <2>1, <2>2 DEF SnapshotsSound, TurnToAbsent
<1>7. ASSUME NEW c \in Calls, NEW f \in Findings, Miss(c, f) PROVE SnapshotsSound'
  <2>1. /\ call'[c].existing = call[c].existing /\ call'[c].pc = "absent"
        /\ call'[c].todo = call[c].todo \ {f}
        /\ \A d \in Calls : d # c => call'[d] = call[d]
    BY <1>7 DEF Miss, CallLocals
  <2> QED BY <1>1, <1>7, <2>1 DEF SnapshotsSound, Miss
<1>8. ASSUME NEW c \in Calls, call' = [call EXCEPT ![c] = IdleCall], edits' = edits
      PROVE  SnapshotsSound'
  <2>1. /\ call'[c].existing = IdleCall.existing /\ call'[c].todo = {}
        /\ call'[c].opened = {} /\ call'[c].resolved = {}
        /\ \A d \in Calls : d # c => call'[d] = call[d]
    BY <1>8 DEF IdleCall
  <2> QED BY <1>1, <1>2, <1>8, <2>1
<1>9. ASSUME call' = call, NEW e, \A d \in edits' : d \in edits \/ d = e,
             e \in edits' => e.finding \in Findings /\ Stored(rows, e.finding) /\ e.row.status \in UserStatuses
      PROVE  SnapshotsSound'
  <2>1. \A d \in edits' : Stored(rows', d.finding) /\ d.row.status \in UserStatuses
    BY <1>0, <1>9 DEF SnapshotsSound
  <2>2. \A c \in Calls : \A f \in Findings : Stored(call'[c].existing, f) => Stored(rows', f)
    BY <1>0, <1>9 DEF SnapshotsSound
  <2> QED BY <1>9, <2>1, <2>2 DEF SnapshotsSound
<1>10. ASSUME NEW h \in Handlers, NEW f \in Findings, NEW choice \in UserStatuses,
              GetForEdit(h, f, choice)
       PROVE  SnapshotsSound'
  <2> DEFINE e == [by |-> h, finding |-> f, row |-> [rows[f] EXCEPT !.status = choice]]
  <2>1. e.finding \in Findings /\ Stored(rows, e.finding) /\ e.row.status \in UserStatuses
    BY <1>10 DEF GetForEdit, Row
  <2>2. call' = call /\ edits' = edits \cup {e}
    BY <1>10 DEF GetForEdit
  <2> HIDE DEF e
  <2> QED BY <1>9, <2>1, <2>2
<1>11. ASSUME NEW e \in edits, call' = call, edits' = edits \ {e} PROVE SnapshotsSound'
  BY <1>9, <1>11
<1>12. CASE Crash
  <2>1. \A c \in Calls : call'[c] = IdleCall
    BY <1>12 DEF Crash
  <2>2. \A c \in Calls : call'[c].existing = IdleCall.existing /\ call'[c].todo = {}
                        /\ call'[c].opened = {} /\ call'[c].resolved = {}
    BY <2>1 DEF IdleCall
  <2> QED BY <1>2, <1>12, <2>2 DEF Crash, SnapshotsSound
<1>13. CASE UNCHANGED vars
  BY <1>13 DEF vars, SnapshotsSound, Stored
<1>14. ASSUME NEW c \in Calls, CallStep(c) PROVE SnapshotsSound'
  <2>1. CASE \E fresh \in FreshLists : Begin(c, fresh)
    BY <1>3, <2>1
  <2>2. CASE List(c)
    BY <1>4, <2>2
  <2>3. CASE Reject(c) \/ \E f \in Findings : Insert(c, f) \/ Refresh(c, f)
    BY <1>5, <2>3 DEF Reject, Insert, Refresh, AtFresh
  <2>4. CASE TurnToAbsent(c)
    BY <1>6, <2>4
  <2>5. CASE \E f \in Findings : Miss(c, f)
    BY <1>7, <2>5
  <2>6. CASE Deliver(c) \/ StoreError(c)
    BY <1>8, <2>6 DEF Deliver, StoreError
  <2> QED BY <1>14, <2>1, <2>2, <2>3, <2>4, <2>5, <2>6 DEF CallStep
<1> QED BY <1>10, <1>11, <1>12, <1>13, <1>14 DEF Next, UserStep, PutEdit, EditError

(* No call and no handler ever acts on the row of a finding that is gone.   *)
THEOREM SnapshotsAlwaysSound == Spec => []SnapshotsSound
<1>1. Init => SnapshotsSound
  BY DEF Init, IdleCall, SnapshotsSound, Stored, NoRow
<1>2. TypeOK /\ TypeOK' /\ SnapshotsSound /\ [Next]_vars => SnapshotsSound'
  BY StepKeepsSnapshots
<1> QED BY <1>1, <1>2, TypeCorrect, PTL DEF Spec

(* Racing calls, half-done calls, crashes and stale edits included, a row   *)
(* once inserted keeps its id and its first_seen.                          *)
THEOREM IdentityAlwaysKept == Spec => IdentityKept
<1>1. TypeOK /\ SnapshotsSound /\ [Next]_vars => [RowsKept]_vars
  BY StepKeepsRows
<1>2. [RowsKept]_vars => [\A f \in Findings :
          Stored(rows, f) => Stored(rows', f) /\ rows'[f].first = rows[f].first]_vars
  BY DEF RowsKept
<1> QED BY <1>1, <1>2, TypeCorrect, SnapshotsAlwaysSound, PTL DEF Spec, IdentityKept

-----------------------------------------------------------------------------
(* What was announced before a step is announced after it.                  *)
NewsStays(f, at) ==
    /\ AnnouncedOpen(told, call, f, at) => AnnouncedOpen(told', call', f, at)
    /\ AnnouncedResolved(told, call, f, at) => AnnouncedResolved(told', call', f, at)

(* With no failing store call and no crash, news in a running call's result *)
(* stays there until OnResult has it, and news handed on stays handed on.  *)
LEMMA NewsKept ==
    ASSUME TypeOK, SnapshotsSound, [Next]_vars, Faults = {}, NEW f \in Findings, NEW at
    PROVE  NewsStays(f, at)
<1> USE DEF TypeOK
<1>1. ASSUME told' = told, NEW c \in Calls, \A d \in Calls : d # c => call'[d] = call[d],
             call'[c].now = call[c].now,
             call[c].opened \subseteq call'[c].opened, call[c].resolved \subseteq call'[c].resolved
      PROVE  NewsStays(f, at)
  BY <1>1 DEF NewsStays, AnnouncedOpen, AnnouncedResolved
<1>2. ASSUME told' = told, call' = call
      PROVE  NewsStays(f, at)
  BY <1>2 DEF NewsStays, AnnouncedOpen, AnnouncedResolved
<1>3. ASSUME NEW c \in Calls, NEW fresh \in FreshLists, Begin(c, fresh)
      PROVE  NewsStays(f, at)
  <2>1. call[c].opened = {} /\ call[c].resolved = {} /\ told' = told
    BY <1>3 DEF Begin, SnapshotsSound
  <2>2. \A d \in Calls : d # c => call'[d] = call[d]
    BY <1>3 DEF Begin
  <2> QED BY <2>1, <2>2 DEF NewsStays, AnnouncedOpen, AnnouncedResolved
<1>4. ASSUME NEW c \in Calls, List(c)
      PROVE  NewsStays(f, at)
  BY <1>1, <1>4 DEF List, CallLocals
<1>5. ASSUME NEW c \in Calls, NEW seen, NEW opened, Advance(c, seen, opened),
             call[c].opened \subseteq opened, told' = told
      PROVE  NewsStays(f, at)
  <2>1. /\ call'[c].now = call[c].now /\ call'[c].opened = opened
        /\ call'[c].resolved = call[c].resolved /\ \A d \in Calls : d # c => call'[d] = call[d]
    BY <1>5 DEF Advance, CallLocals
  <2> QED BY <1>1, <1>5, <2>1
<1>6. ASSUME NEW c \in Calls, TurnToAbsent(c)
      PROVE  NewsStays(f, at)
  BY <1>1, <1>6 DEF TurnToAbsent, CallLocals
<1>7. ASSUME NEW c \in Calls, NEW g \in Findings, Miss(c, g)
      PROVE  NewsStays(f, at)
  <2>1. /\ call'[c].now = call[c].now /\ call'[c].opened = call[c].opened
        /\ call[c].resolved \subseteq call'[c].resolved
        /\ \A d \in Calls : d # c => call'[d] = call[d]
    BY <1>7 DEF Miss, CallLocals
  <2> QED BY <1>1, <1>7, <2>1 DEF Miss
<1>8. ASSUME NEW c \in Calls, Deliver(c)
      PROVE  NewsStays(f, at)
  <2>1. \A d \in Calls : d # c => call'[d] = call[d]
    BY <1>8 DEF Deliver
  <2>2. f \in call[c].opened /\ call[c].now = at
           => [kind |-> "opened", finding |-> f, at |-> at] \in told'
    BY <1>8 DEF Deliver, News
  <2>3. f \in call[c].resolved /\ call[c].now = at
           => [kind |-> "resolved", finding |-> f, at |-> at] \in told'
    BY <1>8 DEF Deliver, News
  <2>4. told \subseteq told'
    BY <1>8 DEF Deliver
  <2> QED BY <2>1, <2>2, <2>3, <2>4 DEF NewsStays, AnnouncedOpen, AnnouncedResolved
<1>9. ASSUME NEW c \in Calls, CallStep(c)
      PROVE  NewsStays(f, at)
  <2>1. CASE Reject(c) \/ \E g \in Findings : Insert(c, g) \/ Refresh(c, g)
    BY <1>5, <2>1 DEF Reject, Insert, Refresh
  <2> QED BY <1>3, <1>4, <1>6, <1>7, <1>8, <1>9, <2>1 DEF CallStep, StoreError
<1> QED BY <1>2, <1>9 DEF Next, UserStep, GetForEdit, PutEdit, EditError, Crash, vars

NothingSilent == NoSilentOpen /\ NoSilentResolve

(* A step that writes row for f: nothing is silent afterwards if a new row  *)
(* is announced as opened, and a row it closes as resolved.                *)
LEMMA WriteIsAnnounced ==
    ASSUME TypeOK, SnapshotsSound, NothingSilent, [Next]_vars, Faults = {},
           NEW f \in Findings, NEW row \in Row, row.status # "none", Upsert(f, row),
           ~Stored(rows, f) => AnnouncedOpen(told', call', f, row.first),
           row.status = "resolved" => AnnouncedResolved(told', call', f, row.resolvedAt)
    PROVE  NothingSilent'
<1> USE DEF TypeOK
<1>1. /\ \A g \in Findings : g # f => rows'[g] = rows[g]
      /\ rows'[f].status = row.status /\ rows'[f].resolvedAt = row.resolvedAt
      /\ rows'[f].first = IF Stored(rows, f) THEN rows[f].first ELSE row.first
  BY UpsertEffect
<1>2. ASSUME NEW g \in Findings, Stored(rows', g) PROVE AnnouncedOpen(told', call', g, rows'[g].first)
  <2>1. CASE Stored(rows, g) /\ rows'[g].first = rows[g].first
    <3>1. AnnouncedOpen(told, call, g, rows[g].first)
      BY <2>1 DEF NothingSilent, NoSilentOpen
    <3>2. AnnouncedOpen(told, call, g, rows[g].first) => AnnouncedOpen(told', call', g, rows'[g].first)
      BY <2>1, NewsKept DEF NewsStays
    <3> QED BY <3>1, <3>2
  <2>2. CASE g = f /\ ~Stored(rows, f)
    BY <1>1, <2>2 DEF AnnouncedOpen
  <2> QED BY <1>1, <1>2, <2>1, <2>2 DEF Stored
<1>3. ASSUME NEW g \in Findings, rows'[g].status = "resolved"
      PROVE  AnnouncedResolved(told', call', g, rows'[g].resolvedAt)
  <2>1. CASE g # f
    <3>1. rows[g].status = "resolved" /\ rows'[g].resolvedAt = rows[g].resolvedAt
      BY <1>1, <1>3, <2>1
    <3>2. AnnouncedResolved(told, call, g, rows[g].resolvedAt)
      BY <3>1 DEF NothingSilent, NoSilentResolve
    <3>3. AnnouncedResolved(told, call, g, rows[g].resolvedAt) => AnnouncedResolved(told', call', g, rows'[g].resolvedAt)
      BY <3>1, NewsKept DEF NewsStays
    <3> QED BY <3>2, <3>3
  <2>2. CASE g = f
    BY <1>1, <1>3, <2>2 DEF AnnouncedResolved
  <2> QED BY <2>1, <2>2
<1> QED BY <1>2, <1>3 DEF NothingSilent, NoSilentOpen, NoSilentResolve

(* The rows of the three writes of a call and of a handler are announced.   *)
LEMMA StepIsAnnounced ==
    ASSUME TypeOK, SnapshotsSound, NothingSilent, [Next]_vars, Faults = {}
    PROVE  NothingSilent'
<1> USE DEF TypeOK
<1>1. ASSUME NEW c \in Calls, NEW f \in Findings, Insert(c, f) PROVE NothingSilent'
  <2> DEFINE row == NewRow(call[c].now)
  <2>1. /\ row \in Row /\ row.status = "open" /\ row.first = call[c].now
    BY <1>1 DEF NewRow, Row, Statuses, UserStatuses, CallLocals
  <2>2. call'[c].now = call[c].now /\ f \in call'[c].opened
    BY <1>1 DEF Insert, Advance, CallLocals
  <2>3. AnnouncedOpen(told', call', f, row.first)
    BY <2>1, <2>2 DEF AnnouncedOpen
  <2>4. Upsert(f, row)
    BY <1>1 DEF Insert
  <2> HIDE DEF row
  <2> QED BY <2>1, <2>3, <2>4, WriteIsAnnounced
<1>2. ASSUME NEW c \in Calls, NEW f \in Findings, Refresh(c, f) PROVE NothingSilent'
  <2> DEFINE row == Merged(call[c].existing[f], call[c].now)
  <2>1. call[c].existing[f] \in Row /\ call[c].existing[f].status # "none" /\ call[c].now \in Nat
    BY <1>2 DEF Refresh, Stored, CallLocals
  <2>2. row \in Row /\ row.status \in UserStatuses
    BY <2>1, WrittenRowsType, WrittenRows
  <2>3. Stored(rows, f) /\ Upsert(f, row)
    BY <1>2 DEF Refresh, SnapshotsSound
  <2> HIDE DEF row
  <2> QED BY <2>2, <2>3, WriteIsAnnounced DEF UserStatuses
<1>3. ASSUME NEW c \in Calls, NEW f \in Findings, Miss(c, f) PROVE NothingSilent'
  <2> DEFINE row == Missed(call[c].existing[f], call[c].now)
  <2>1. /\ call[c].existing[f] \in Row /\ call[c].now \in Nat
        /\ call[c].existing[f].status \in {"open", "acknowledged"}
    BY <1>3 DEF Miss, CallLocals, SnapshotsSound
  <2>7. Stored(rows, f)
    BY <2>1 DEF SnapshotsSound, Stored
  <2>2. row \in Row /\ row.status # "none"
    BY <2>1, WrittenRowsType, WrittenRows
  <2>3. Upsert(f, row)
    BY <1>3 DEF Miss
  <2>4. row.status = "resolved" => row.resolvedAt = call[c].now
    BY <2>1, WrittenRows
  <2>5. call'[c].now = call[c].now /\ (row.status = "resolved" => f \in call'[c].resolved)
    BY <1>3 DEF Miss, CallLocals
  <2>6. row.status = "resolved" => AnnouncedResolved(told', call', f, row.resolvedAt)
    BY <2>4, <2>5 DEF AnnouncedResolved
  <2> HIDE DEF row
  <2> QED BY <2>2, <2>3, <2>6, <2>7, WriteIsAnnounced
<1>4. ASSUME NEW e \in edits, PutEdit(e) PROVE NothingSilent'
  <2>1. /\ e.finding \in Findings /\ e.row \in Row /\ e.row.status \in UserStatuses
        /\ Stored(rows, e.finding) /\ Upsert(e.finding, e.row)
    BY <1>4 DEF PutEdit, SnapshotsSound
  <2> QED BY <2>1, WriteIsAnnounced DEF UserStatuses
<1>5. ASSUME rows' = rows PROVE NothingSilent'
  <2>1. ASSUME NEW f \in Findings, Stored(rows', f) PROVE AnnouncedOpen(told', call', f, rows'[f].first)
    BY <1>5, <2>1, NewsKept DEF NewsStays, NothingSilent, NoSilentOpen
  <2>2. ASSUME NEW f \in Findings, rows'[f].status = "resolved"
        PROVE  AnnouncedResolved(told', call', f, rows'[f].resolvedAt)
    BY <1>5, <2>2, NewsKept DEF NewsStays, NothingSilent, NoSilentResolve
  <2> QED BY <2>1, <2>2 DEF NothingSilent, NoSilentOpen, NoSilentResolve
<1> QED BY <1>1, <1>2, <1>3, <1>4, <1>5
        DEF Next, CallStep, UserStep, Begin, List, Reject, TurnToAbsent, Deliver, StoreError,
            GetForEdit, EditError, Crash, vars

(* While no store call fails and the process lives, no finding is ever on   *)
(* record, and none ever reads resolved, without its opening or closing    *)
(* having been handed to OnResult or being held by a running call.         *)
THEOREM NothingGoesSilent ==
    ASSUME Faults = {}
    PROVE  Spec => []NoSilentOpen /\ []NoSilentResolve
<1>1. Init => NothingSilent
  BY DEF Init, NothingSilent, NoSilentOpen, NoSilentResolve, Stored, NoRow
<1>2. TypeOK /\ SnapshotsSound /\ NothingSilent /\ [Next]_vars => NothingSilent'
  BY StepIsAnnounced
<1>3. NothingSilent => NoSilentOpen /\ NoSilentResolve
  BY DEF NothingSilent
<1> QED BY <1>1, <1>2, <1>3, TypeCorrect, SnapshotsAlwaysSound, PTL DEF Spec

(* Of the two, the closing alone: a finding that reads resolved was handed  *)
(* to OnResult as resolved, or is in the result of a running call, although*)
(* overlapping calls write over each other's rows.                         *)
THEOREM NoClosingIsSilent ==
    ASSUME Faults = {}
    PROVE  Spec => []NoSilentResolve
<1>1. Spec => []NoSilentOpen /\ []NoSilentResolve
  BY NothingGoesSilent
<1> QED BY <1>1, PTL
-----------------------------------------------------------------------------
(* Without overlap: one call or one status change at a time, with failing   *)
(* store calls and crashes at any moment.                                   *)

Alone ==
    /\ \A c, d \in Calls : call[c].pc # "idle" /\ call[d].pc # "idle" => c = d
    /\ edits # {} => \A c \in Calls : call[c].pc = "idle"
    /\ \A d, e \in edits : d = e

StatusSeen(prev) == IF prev.status \in {"none", "resolved"} THEN "open" ELSE prev.status

(* The snapshot of the one call is what the table has, but for the findings *)
(* the call has already written.                                           *)
CallCurrent(c) ==
    /\ call[c].pc # "idle" => call[c].now = clock
    /\ call[c].pc = "list" => call[c].seen = {}
    /\ call[c].pc \in {"list", "fresh"} => call[c].todo = {}
    /\ call[c].pc = "fresh" => \A f \in Findings :
          IF f \in call[c].seen
          THEN rows[f].status = StatusSeen(call[c].existing[f]) /\ rows[f].streak = 0
          ELSE rows[f] = call[c].existing[f]
    /\ \A f \in call[c].todo : rows[f] = call[c].existing[f]

EditCurrent(e) == e.row = [rows[e.finding] EXCEPT !.status = e.row.status]

(* Findings the one call has not written yet.                               *)
Awaits(c, f) == \/ call[c].pc = "list"
                \/ call[c].pc = "fresh" /\ f \notin call[c].seen
                \/ f \in call[c].todo

(* The absences counted since the last sighting fit between it and now, and *)
(* leave room for the call that has yet to count.                          *)
Absences(f) == rows[f].last + rows[f].streak
CallCounts(c) == \A f \in Findings : Awaits(c, f) => Absences(f) < clock
RowsCount == \A f \in Findings :
    /\ Absences(f) <= clock
    /\ rows[f].status = "resolved" => rows[f].resolvedAt - rows[f].last >= Threshold

SerialInv == /\ Alone /\ RowsCount
             /\ \A c \in Calls : CallCurrent(c) /\ CallCounts(c)
             /\ \A e \in edits : EditCurrent(e)

(* What Upsert leaves in its row, besides the identity.                     *)
LEMMA UpsertValues ==
    ASSUME rows \in [Findings -> Row], NEW f \in Findings, NEW row \in Row, Upsert(f, row)
    PROVE  /\ rows'[f].status = row.status /\ rows'[f].resolvedAt = row.resolvedAt
           /\ rows'[f].last = row.last /\ rows'[f].streak = row.streak
           /\ \A g \in Findings : g # f => rows'[g] = rows[g]
<1>1. rows' = [rows EXCEPT ![f] = IF Stored(rows, f) THEN [row EXCEPT !.first = rows[f].first] ELSE row]
  BY DEF Upsert
<1>2. CASE Stored(rows, f)
  <2>1. rows' = [rows EXCEPT ![f] = [row EXCEPT !.first = rows[f].first]]
    BY <1>1, <1>2
  <2> QED BY <2>1 DEF Row
<1>3. CASE ~Stored(rows, f)
  <2>1. rows' = [rows EXCEPT ![f] = row]
    BY <1>1, <1>3
  <2> QED BY <2>1
<1> QED BY <1>2, <1>3

(* The values of the rows a call writes.                                    *)
LEMMA WrittenValues ==
    ASSUME NEW prev \in Row, NEW now \in Nat
    PROVE  /\ NewRow(now).status = "open" /\ NewRow(now).last = now /\ NewRow(now).streak = 0
           /\ prev.status # "none" => Merged(prev, now).status = StatusSeen(prev)
           /\ Merged(prev, now).last = now /\ Merged(prev, now).streak = 0
           /\ Missed(prev, now).last = prev.last /\ Missed(prev, now).streak = prev.streak + 1
           /\ Missed(prev, now).status = IF prev.streak + 1 >= Threshold THEN "resolved" ELSE prev.status
           /\ prev.streak + 1 >= Threshold => Missed(prev, now).resolvedAt = now
<1>1. NewRow(now).status = "open" /\ NewRow(now).last = now /\ NewRow(now).streak = 0
  BY DEF NewRow
<1>2. /\ prev.status # "none" => Merged(prev, now).status = StatusSeen(prev)
      /\ Merged(prev, now).last = now /\ Merged(prev, now).streak = 0
  BY DEF Merged, StatusSeen, Row
<1>3. CASE prev.streak + 1 >= Threshold
  BY <1>1, <1>2, <1>3 DEF Missed, Row
<1>4. CASE ~(prev.streak + 1 >= Threshold)
  BY <1>1, <1>2, <1>4 DEF Missed, Row
<1> QED BY <1>3, <1>4

(* A step of the one call: no other call and no handler is under way.       *)
LEMMA CallIsAlone ==
    ASSUME TypeOK, SnapshotsSound, SerialInv, NEW c \in Calls, call[c].pc # "idle"
    PROVE  /\ edits = {}
           /\ \A d \in Calls : d # c => call[d].pc = "idle" /\ call[d].todo = {}
BY DEF SerialInv, Alone, SnapshotsSound

(* What is left to show of such a step: the call itself, and the counts.    *)
LEMMA OneCallTells ==
    ASSUME NEW c \in Calls, edits' = {},
           \A d \in Calls : d # c => call'[d].pc = "idle" /\ call'[d].todo = {},
           RowsCount', CallCurrent(c)', CallCounts(c)'
    PROVE  SerialInv'
<1>1. Alone'
  BY DEF Alone
<1>2. ASSUME NEW d \in Calls, d # c PROVE CallCurrent(d)' /\ CallCounts(d)'
  BY <1>2 DEF CallCurrent, CallCounts, Awaits
<1> QED BY <1>1, <1>2 DEF SerialInv

(* A call writes its row for f: the other rows stay as they are.            *)
LEMMA WriteCounts ==
    ASSUME TypeOK, RowsCount, clock' = clock, NEW f \in Findings, NEW row \in Row, Upsert(f, row),
           row.last + row.streak <= clock,
           row.status = "resolved" => row.resolvedAt - row.last >= Threshold
    PROVE  RowsCount'
<1>1. /\ rows'[f].status = row.status /\ rows'[f].resolvedAt = row.resolvedAt
      /\ rows'[f].last = row.last /\ rows'[f].streak = row.streak
      /\ \A g \in Findings : g # f => rows'[g] = rows[g]
  BY UpsertValues DEF TypeOK
<1>2. ASSUME NEW g \in Findings
      PROVE  /\ rows'[g].last + rows'[g].streak <= clock'
             /\ rows'[g].status = "resolved" => rows'[g].resolvedAt - rows'[g].last >= Threshold
  <2>1. CASE g = f
    BY <1>1, <2>1
  <2>2. CASE g # f
    BY <1>1, <2>2 DEF RowsCount, Absences
  <2> QED BY <2>1, <2>2
<1> QED BY <1>2 DEF RowsCount, Absences

(* Insert and Refresh: the finding is seen, what is not seen is untouched.  *)
LEMMA SightingKeepsSerial ==
    ASSUME TypeOK, SnapshotsSound, SerialInv, NEW c \in Calls, NEW f \in Findings,
           NEW row \in Row, NEW opened \in SUBSET Findings,
           call[c].pc = "fresh", Upsert(f, row), Advance(c, call[c].seen \cup {f}, opened),
           row.status = StatusSeen(call[c].existing[f]), row.last = call[c].now, row.streak = 0,
           UNCHANGED <<clock, edits>>
    PROVE  SerialInv'
<1>0. /\ clock \in Nat /\ call[c] \in CallLocals /\ rows \in [Findings -> Row]
      /\ call[c].existing \in [Findings -> Row]
  BY MaxCallsAssumption DEF TypeOK, CallLocals
<1>1. edits' = {} /\ \A d \in Calls : d # c => call'[d].pc = "idle" /\ call'[d].todo = {}
  BY CallIsAlone DEF Advance, TypeOK
<1>2. /\ call'[c].pc = "fresh" /\ call'[c].seen = call[c].seen \cup {f} /\ call'[c].now = call[c].now
      /\ call'[c].existing = call[c].existing /\ call'[c].todo = call[c].todo
  BY <1>0 DEF Advance, TypeOK, CallLocals
<1>3. /\ rows'[f].status = row.status /\ rows'[f].resolvedAt = row.resolvedAt
      /\ rows'[f].last = row.last /\ rows'[f].streak = row.streak
      /\ \A g \in Findings : g # f => rows'[g] = rows[g]
  BY <1>0, UpsertValues
<1>4. /\ call[c].now = clock
      /\ \A g \in Findings : IF g \in call[c].seen
            THEN rows[g].status = StatusSeen(call[c].existing[g]) /\ rows[g].streak = 0
            ELSE rows[g] = call[c].existing[g]
  BY DEF SerialInv, CallCurrent
<1>5. row.status # "resolved"
  BY DEF StatusSeen
<1>6. RowsCount'
  BY <1>0, <1>4, <1>5, WriteCounts DEF SerialInv
<1>7. call[c].todo = {}
  BY DEF SerialInv, CallCurrent
<1>8. CallCurrent(c)'
  <2>1. ASSUME NEW g \in Findings
        PROVE  IF g \in call'[c].seen
               THEN rows'[g].status = StatusSeen(call'[c].existing[g]) /\ rows'[g].streak = 0
               ELSE rows'[g] = call'[c].existing[g]
    <3>1. CASE g = f
      BY <1>2, <1>3, <3>1 DEF StatusSeen
    <3>2. CASE g # f
      BY <1>2, <1>3, <1>4, <3>2 DEF StatusSeen
    <3> QED BY <3>1, <3>2
  <2> QED BY <1>2, <1>4, <1>7, <2>1 DEF CallCurrent, StatusSeen
<1>9. CallCounts(c)'
  <2>1. ASSUME NEW g \in Findings, g # f, g \notin call[c].seen
        PROVE  rows'[g].last + rows'[g].streak < clock'
    BY <1>2, <1>3, <2>1 DEF SerialInv, CallCounts, Awaits, Absences
  <2> QED BY <1>2, <1>7, <2>1 DEF CallCounts, Awaits, Absences
<1> QED BY <1>1, <1>6, <1>8, <1>9, OneCallTells

(* Insert and Refresh both write the status a sighting leaves.              *)
LEMMA SightingRow ==
    ASSUME TypeOK, NEW c \in Calls, NEW f \in Findings, Insert(c, f) \/ Refresh(c, f)
    PROVE  \E row \in Row, opened \in SUBSET Findings :
              /\ call[c].pc = "fresh" /\ Upsert(f, row)
              /\ Advance(c, call[c].seen \cup {f}, opened)
              /\ row.status = StatusSeen(call[c].existing[f])
              /\ row.last = call[c].now /\ row.streak = 0
              /\ UNCHANGED <<clock, edits>>
              /\ call[c].existing[f].status = "resolved" => f \in opened
<1>0. /\ call[c].now \in Nat /\ call[c].existing[f] \in Row /\ call[c].existing[f].status \in Statuses
      /\ call[c].opened \in SUBSET Findings
  BY DEF TypeOK, CallLocals, Row
<1> DEFINE prev == call[c].existing[f]
           now  == call[c].now
<1>1. CASE Insert(c, f)
  <2>1. NewRow(now) \in Row /\ NewRow(now).status = "open" /\ NewRow(now).last = now /\ NewRow(now).streak = 0
    BY <1>0, WrittenRowsType, WrittenValues
  <2>2. prev.status = "none" /\ StatusSeen(prev) = "open"
    BY <1>1 DEF Insert, Stored, StatusSeen
  <2>3. call[c].opened \cup {f} \in SUBSET Findings
    BY <1>0
  <2> QED BY <1>1, <2>1, <2>2, <2>3 DEF Insert, AtFresh
<1>2. CASE Refresh(c, f)
  <2> DEFINE opened == IF prev.status = "resolved" THEN call[c].opened \cup {f} ELSE call[c].opened
  <2>1. prev.status # "none"
    BY <1>2 DEF Refresh, Stored
  <2>2. /\ Merged(prev, now) \in Row /\ Merged(prev, now).status = StatusSeen(prev)
        /\ Merged(prev, now).last = now /\ Merged(prev, now).streak = 0
    BY <1>0, <2>1, WrittenRowsType, WrittenValues
  <2>3. opened \in SUBSET Findings /\ (prev.status = "resolved" => f \in opened)
    BY <1>0
  <2>4. /\ call[c].pc = "fresh" /\ Upsert(f, Merged(prev, now))
        /\ Advance(c, call[c].seen \cup {f}, opened) /\ UNCHANGED <<clock, edits>>
    BY <1>2 DEF Refresh, AtFresh
  <2> QED BY <2>2, <2>3, <2>4
<1> QED BY <1>1, <1>2

(* An absence is counted on the row as it stands.                           *)
LEMMA AbsenceRow ==
    ASSUME TypeOK, SnapshotsSound, SerialInv, NEW c \in Calls, NEW f \in Findings, Miss(c, f)
    PROVE  /\ rows[f].status \in {"open", "acknowledged"}
           /\ rows'[f].last = rows[f].last /\ rows'[f].streak = rows[f].streak + 1
           /\ rows'[f].status = IF rows[f].streak + 1 >= Threshold THEN "resolved" ELSE rows[f].status
           /\ rows'[f].streak >= Threshold => rows'[f].resolvedAt = clock
           /\ \A g \in Findings : g # f => rows'[g] = rows[g]
           /\ call[c].pc = "absent" /\ f \in call[c].todo /\ edits = {}
<1>1. /\ call[c].pc = "absent" /\ f \in call[c].todo
      /\ Upsert(f, Missed(call[c].existing[f], call[c].now))
  BY DEF Miss
<1>2. edits = {} /\ call[c].now = clock /\ call[c].existing[f] = rows[f]
  BY <1>1, CallIsAlone DEF SerialInv, CallCurrent
<1>3. rows[f] \in Row /\ clock \in Nat /\ rows[f].streak \in Nat
  BY MaxCallsAssumption DEF TypeOK, Row
<1>4. Upsert(f, Missed(rows[f], clock)) /\ Missed(rows[f], clock) \in Row
  BY <1>1, <1>2, <1>3, WrittenRowsType
<1>5. /\ rows'[f].status = Missed(rows[f], clock).status
      /\ rows'[f].resolvedAt = Missed(rows[f], clock).resolvedAt
      /\ rows'[f].last = Missed(rows[f], clock).last /\ rows'[f].streak = Missed(rows[f], clock).streak
      /\ \A g \in Findings : g # f => rows'[g] = rows[g]
  BY <1>4, UpsertValues DEF TypeOK
<1>6. rows[f].status \in {"open", "acknowledged"}
  BY <1>1, <1>2 DEF SnapshotsSound
<1>7. /\ Missed(rows[f], clock).last = rows[f].last /\ Missed(rows[f], clock).streak = rows[f].streak + 1
      /\ Missed(rows[f], clock).status = IF rows[f].streak + 1 >= Threshold THEN "resolved" ELSE rows[f].status
      /\ rows[f].streak + 1 >= Threshold => Missed(rows[f], clock).resolvedAt = clock
  BY <1>3, WrittenValues
<1> QED BY <1>1, <1>2, <1>5, <1>6, <1>7

(* Counting an absence keeps the serial invariant.                          *)
LEMMA AbsenceKeepsSerial ==
    ASSUME TypeOK, SnapshotsSound, SerialInv, NEW c \in Calls, NEW f \in Findings, Miss(c, f)
    PROVE  SerialInv'
<1>0. clock \in Nat /\ call[c] \in CallLocals /\ rows \in [Findings -> Row] /\ Threshold \in Int
  BY MaxCallsAssumption, ResolveAfterAssumption DEF TypeOK, Threshold
<1>1. clock' = clock /\ edits' = edits
  BY DEF Miss
<1>2. edits' = {} /\ \A d \in Calls : d # c => call'[d].pc = "idle" /\ call'[d].todo = {}
  <2>1. call[c].pc # "idle" /\ \A d \in Calls : d # c => call'[d] = call[d]
    BY DEF Miss, TypeOK
  <2>2. edits = {} /\ \A d \in Calls : d # c => call[d].pc = "idle" /\ call[d].todo = {}
    BY <2>1, CallIsAlone
  <2> QED BY <1>1, <2>1, <2>2
<1>3. /\ call'[c].pc = "absent" /\ call'[c].now = call[c].now
      /\ call'[c].existing = call[c].existing /\ call'[c].todo = call[c].todo \ {f}
  BY <1>0 DEF Miss, TypeOK, CallLocals
<1>4. /\ call[c].now = clock /\ \A g \in call[c].todo : rows[g] = call[c].existing[g]
      /\ Absences(f) < clock
  BY AbsenceRow DEF SerialInv, CallCurrent, CallCounts, Awaits
<1>5. RowsCount'
  <2>1. ASSUME NEW g \in Findings
        PROVE  /\ rows'[g].last + rows'[g].streak <= clock'
               /\ rows'[g].status = "resolved" => rows'[g].resolvedAt - rows'[g].last >= Threshold
    <3>1. CASE g = f
      <4>1. rows[f].last \in Nat /\ rows[f].streak \in Nat /\ rows[f].last + rows[f].streak < clock
        BY <1>0, <1>4 DEF Row, Absences
      <4>2. rows'[f].last = rows[f].last /\ rows'[f].streak = rows[f].streak + 1
        BY AbsenceRow
      <4>3. rows'[f].status = "resolved" => rows[f].streak + 1 >= Threshold /\ rows'[f].resolvedAt = clock
        BY AbsenceRow
      <4> QED BY <1>0, <1>1, <3>1, <4>1, <4>2, <4>3
    <3>2. CASE g # f
      <4>1. rows'[g] = rows[g]
        BY <3>2, AbsenceRow
      <4> QED BY <1>1, <4>1 DEF SerialInv, RowsCount, Absences
    <3> QED BY <3>1, <3>2
  <2> QED BY <2>1 DEF RowsCount, Absences
<1>6. CallCurrent(c)'
  <2>1. \A g \in call'[c].todo : rows'[g] = call'[c].existing[g]
    <3>1. \A g \in call'[c].todo : g \in Findings /\ g # f /\ g \in call[c].todo
      BY <1>0, <1>3 DEF CallLocals
    <3> QED BY <1>3, <1>4, <3>1, AbsenceRow
  <2> QED BY <1>1, <1>3, <1>4, <2>1 DEF CallCurrent
<1>7. CallCounts(c)'
  <2>1. ASSUME NEW g \in Findings, g \in call'[c].todo PROVE rows'[g].last + rows'[g].streak < clock'
    <3>1. g # f /\ g \in call[c].todo /\ rows'[g] = rows[g]
      BY <1>3, <2>1, AbsenceRow
    <3> QED BY <1>1, <3>1 DEF SerialInv, CallCounts, Awaits, Absences
  <2> QED BY <1>3, <2>1 DEF CallCounts, Awaits, Absences
<1> QED BY <1>2, <1>5, <1>6, <1>7, OneCallTells

(* The steps of a call that write no row.                                   *)
LEMMA CallKeepsSerial ==
    ASSUME TypeOK, SnapshotsSound, SerialInv, NEW c \in Calls, UNCHANGED <<clock, rows, edits>>,
           List(c) \/ Reject(c) \/ TurnToAbsent(c)
    PROVE  SerialInv'
<1>0. call[c] \in CallLocals /\ rows \in [Findings -> Row]
  BY DEF TypeOK
<1>1. call[c].pc # "idle" /\ \A d \in Calls : d # c => call'[d] = call[d]
  BY DEF List, Reject, AtFresh, Advance, TurnToAbsent, TypeOK
<1>2. edits' = {} /\ \A d \in Calls : d # c => call'[d].pc = "idle" /\ call'[d].todo = {}
  BY <1>1, CallIsAlone
<1>3. RowsCount'
  BY DEF SerialInv, RowsCount, Absences
<1>4. /\ call[c].now = clock /\ (call[c].pc = "list" => call[c].seen = {})
      /\ call[c].pc \in {"list", "fresh"} => call[c].todo = {}
      /\ call[c].pc = "fresh" => \A f \in Findings :
            IF f \in call[c].seen
            THEN rows[f].status = StatusSeen(call[c].existing[f]) /\ rows[f].streak = 0
            ELSE rows[f] = call[c].existing[f]
  BY <1>1 DEF SerialInv, CallCurrent
<1>5. \A f \in Findings : Awaits(c, f) => rows[f].last + rows[f].streak < clock
  BY DEF SerialInv, CallCounts, Absences
<1>6. CASE List(c)
  <2>1. /\ call[c].pc = "list" /\ call'[c].pc = "fresh" /\ call'[c].existing = rows
        /\ call'[c].now = call[c].now /\ call'[c].seen = call[c].seen /\ call'[c].todo = call[c].todo
    BY <1>0, <1>6 DEF List, TypeOK, CallLocals
  <2>2. CallCurrent(c)'
    BY <1>4, <2>1 DEF CallCurrent, StatusSeen
  <2>3. CallCounts(c)'
    BY <1>4, <1>5, <2>1 DEF CallCounts, Awaits, Absences
  <2> QED BY <1>2, <1>3, <2>2, <2>3, OneCallTells
<1>7. CASE Reject(c)
  <2>1. /\ call[c].pc = "fresh" /\ call'[c].pc = "fresh" /\ call'[c].existing = call[c].existing
        /\ call'[c].now = call[c].now /\ call'[c].seen = call[c].seen /\ call'[c].todo = call[c].todo
    BY <1>0, <1>7 DEF Reject, AtFresh, Advance, TypeOK, CallLocals
  <2>2. CallCurrent(c)'
    BY <1>4, <2>1 DEF CallCurrent, StatusSeen
  <2>3. CallCounts(c)'
    BY <1>4, <1>5, <2>1 DEF CallCounts, Awaits, Absences
  <2> QED BY <1>2, <1>3, <2>2, <2>3, OneCallTells
<1>8. CASE TurnToAbsent(c)
  <2>1. /\ call[c].pc = "fresh" /\ call'[c].pc = "absent" /\ call'[c].existing = call[c].existing
        /\ call'[c].now = call[c].now
        /\ \A f \in call'[c].todo : f \in Findings /\ f \notin call[c].seen
    BY <1>0, <1>8 DEF TurnToAbsent, TypeOK, CallLocals
  <2>2. CallCurrent(c)'
    BY <1>4, <2>1 DEF CallCurrent
  <2>3. CallCounts(c)'
    BY <1>5, <2>1 DEF CallCounts, Awaits, Absences
  <2> QED BY <1>2, <1>3, <2>2, <2>3, OneCallTells
<1> QED BY <1>6, <1>7, <1>8

(* A call begins when no other call and no handler is under way.            *)
LEMMA BeginKeepsSerial ==
    ASSUME Overlap = FALSE, TypeOK, SnapshotsSound, SerialInv, NEW c \in Calls, NEW fresh \in FreshLists, Begin(c, fresh)
    PROVE  SerialInv'
<1>0. clock \in Nat /\ rows \in [Findings -> Row]
  BY MaxCallsAssumption DEF TypeOK
<1>1. /\ call'[c].pc = "list" /\ call'[c].now = clock + 1 /\ call'[c].seen = {} /\ call'[c].todo = {}
      /\ \A d \in Calls : d # c => call'[d] = call[d]
  BY DEF Begin, IdleCall, TypeOK
<1>2. Quiet /\ edits' = edits /\ rows' = rows /\ clock' = clock + 1
  BY DEF Begin
<1>3. edits' = {} /\ \A d \in Calls : d # c => call'[d].pc = "idle" /\ call'[d].todo = {}
  BY <1>1, <1>2 DEF Quiet, SnapshotsSound
<1>4. ASSUME NEW f \in Findings
      PROVE  /\ rows'[f].last + rows'[f].streak < clock' /\ rows'[f].last + rows'[f].streak <= clock'
             /\ rows'[f].status = "resolved" => rows'[f].resolvedAt - rows'[f].last >= Threshold
  <2>1. /\ rows[f].last + rows[f].streak <= clock /\ rows[f].last + rows[f].streak \in Nat
        /\ rows[f].status = "resolved" => rows[f].resolvedAt - rows[f].last >= Threshold
    BY <1>0 DEF SerialInv, RowsCount, Absences, Row
  <2> QED BY <1>0, <1>2, <2>1
<1>5. RowsCount' /\ CallCounts(c)'
  BY <1>4 DEF RowsCount, CallCounts, Absences
<1>6. CallCurrent(c)'
  BY <1>1, <1>2 DEF CallCurrent
<1> QED BY <1>3, <1>5, <1>6, OneCallTells

(* A call ends: what the others do not hold, nobody holds.                  *)
LEMMA EndKeepsSerial ==
    ASSUME TypeOK, SerialInv, UNCHANGED <<clock, rows>>,
           \A d \in Calls : call'[d] = call[d] \/ call'[d] = IdleCall,
           \A e \in edits' : e \in edits
    PROVE  SerialInv'
<1>1. Alone'
  BY DEF SerialInv, Alone, IdleCall
<1>2. ASSUME NEW d \in Calls PROVE CallCurrent(d)' /\ CallCounts(d)'
  <2>1. CASE call'[d] = call[d]
    BY <2>1 DEF SerialInv, CallCurrent, CallCounts, Awaits, Absences
  <2>2. CASE call'[d] = IdleCall
    BY <2>2 DEF CallCurrent, CallCounts, Awaits, IdleCall
  <2> QED BY <2>1, <2>2
<1>3. RowsCount' /\ \A e \in edits' : EditCurrent(e)'
  BY DEF SerialInv, RowsCount, Absences, EditCurrent
<1> QED BY <1>1, <1>2, <1>3 DEF SerialInv

(* The handler writes back the row it read, with the user's status in it.   *)
LEMMA EditRow ==
    ASSUME TypeOK, SnapshotsSound, SerialInv, NEW e \in edits, PutEdit(e)
    PROVE  /\ e.finding \in Findings /\ rows[e.finding].status # "none"
           /\ rows'[e.finding] = [rows[e.finding] EXCEPT !.status = e.row.status]
           /\ e.row.status \in UserStatuses
           /\ \A g \in Findings : g # e.finding => rows'[g] = rows[g]
           /\ edits' = {} /\ \A c \in Calls : call'[c] = call[c] /\ call[c].pc = "idle"
<1>1. /\ e.finding \in Findings /\ Stored(rows, e.finding) /\ e.row.status \in UserStatuses
      /\ rows \in [Findings -> Row]
  BY DEF TypeOK, SnapshotsSound
<1>2. e.row = [rows[e.finding] EXCEPT !.status = e.row.status]
  BY DEF SerialInv, EditCurrent
<1>3. rows' = [rows EXCEPT ![e.finding] = [e.row EXCEPT !.first = rows[e.finding].first]]
  BY <1>1 DEF PutEdit, Upsert
<1>4. [e.row EXCEPT !.first = rows[e.finding].first] = e.row
  BY <1>1, <1>2 DEF Row
<1>5. edits' = {} /\ \A c \in Calls : call'[c] = call[c] /\ call[c].pc = "idle"
  BY DEF SerialInv, Alone, PutEdit
<1> QED BY <1>1, <1>2, <1>3, <1>4, <1>5 DEF Stored

(* So does the user's decision.                                             *)
LEMMA EditKeepsSerial ==
    ASSUME TypeOK, SnapshotsSound, SerialInv, NEW e \in edits, PutEdit(e)
    PROVE  SerialInv'
<1>1. clock' = clock /\ edits' = {} /\ \A c \in Calls : call'[c].pc = "idle" /\ call'[c].todo = {}
  BY EditRow DEF PutEdit, SnapshotsSound
<1>2. ASSUME NEW f \in Findings
      PROVE  /\ rows'[f].last = rows[f].last /\ rows'[f].streak = rows[f].streak
             /\ rows'[f].resolvedAt = rows[f].resolvedAt
             /\ rows'[f].status = "resolved" => rows[f].status = "resolved"
  <2>1. rows[f] \in Row
    BY DEF TypeOK
  <2>2. CASE f = e.finding
    <3>1. rows'[f] = [rows[f] EXCEPT !.status = e.row.status] /\ e.row.status \in UserStatuses
      BY <2>2, EditRow
    <3> QED BY <2>1, <3>1 DEF Row, UserStatuses
  <2>3. CASE f # e.finding
    BY <2>3, EditRow
  <2> QED BY <2>2, <2>3
<1>3. RowsCount'
  BY <1>1, <1>2 DEF SerialInv, RowsCount, Absences
<1>4. \A c \in Calls : CallCurrent(c)' /\ CallCounts(c)'
  BY <1>1 DEF CallCurrent, CallCounts, Awaits
<1> QED BY <1>1, <1>3, <1>4 DEF SerialInv, Alone

(* A handler reads its row when nothing else is under way.                  *)
LEMMA ReadKeepsSerial ==
    ASSUME Overlap = FALSE, TypeOK, SnapshotsSound, SerialInv, NEW h \in Handlers, NEW f \in Findings,
           NEW choice \in UserStatuses, GetForEdit(h, f, choice)
    PROVE  SerialInv'
<1> DEFINE e == [by |-> h, finding |-> f, row |-> [rows[f] EXCEPT !.status = choice]]
<1>1. /\ edits' = {e} /\ \A c \in Calls : call'[c] = call[c] /\ call'[c].pc = "idle"
      /\ clock' = clock /\ rows' = rows
  BY DEF GetForEdit, Quiet
<1>2. rows[f] \in Row /\ e.finding = f /\ e.row = [rows[f] EXCEPT !.status = choice]
  BY DEF TypeOK
<1>3. e.row.status = choice
  BY <1>2 DEF Row
<1> HIDE DEF e
<1>4. \A d \in edits' : EditCurrent(d)'
  BY <1>1, <1>2, <1>3 DEF EditCurrent
<1>5. RowsCount' /\ \A c \in Calls : CallCurrent(c)' /\ CallCounts(c)'
  BY <1>1 DEF SerialInv, RowsCount, CallCurrent, CallCounts, Awaits, Absences
<1> QED BY <1>1, <1>4, <1>5 DEF SerialInv, Alone

(* And so does every step.                                                  *)
LEMMA StepKeepsSerial ==
    ASSUME Overlap = FALSE, TypeOK, SnapshotsSound, SerialInv, [Next]_vars
    PROVE  SerialInv'
<1>1. ASSUME NEW c \in Calls, NEW fresh \in FreshLists, Begin(c, fresh) PROVE SerialInv'
  BY <1>1, BeginKeepsSerial
<1>2. ASSUME NEW c \in Calls, List(c) \/ Reject(c) \/ TurnToAbsent(c) PROVE SerialInv'
  <2>1. UNCHANGED <<clock, rows, edits>>
    BY <1>2 DEF List, Reject, TurnToAbsent
  <2> QED BY <1>2, <2>1, CallKeepsSerial
<1>3. ASSUME NEW c \in Calls, NEW f \in Findings, Insert(c, f) \/ Refresh(c, f) PROVE SerialInv'
  BY <1>3, SightingRow, SightingKeepsSerial
<1>4. ASSUME NEW c \in Calls, NEW f \in Findings, Miss(c, f) PROVE SerialInv'
  BY <1>4, AbsenceKeepsSerial
<1>5. ASSUME NEW c \in Calls, Deliver(c) \/ StoreError(c) PROVE SerialInv'
  <2>1. /\ UNCHANGED <<clock, rows, edits>>
        /\ \A d \in Calls : call'[d] = call[d] \/ call'[d] = IdleCall
    BY <1>5 DEF Deliver, StoreError, TypeOK
  <2> QED BY <2>1, EndKeepsSerial
<1>6. ASSUME NEW h \in Handlers, NEW f \in Findings, NEW choice \in UserStatuses,
             GetForEdit(h, f, choice)
      PROVE  SerialInv'
  BY <1>6, ReadKeepsSerial
<1>7. ASSUME NEW e \in edits, PutEdit(e) PROVE SerialInv'
  BY <1>7, EditKeepsSerial
<1>8. ASSUME NEW e \in edits, EditError(e) PROVE SerialInv'
  BY <1>8, EndKeepsSerial DEF EditError
<1>9. CASE Crash
  BY <1>9, EndKeepsSerial DEF Crash
<1>10. CASE UNCHANGED vars
  BY <1>10, EndKeepsSerial DEF vars
<1> QED BY <1>1, <1>2, <1>3, <1>4, <1>5, <1>6, <1>7, <1>8, <1>9, <1>10 DEF Next, CallStep, UserStep

(* With one call or one status change at a time, each works on the table as *)
(* it is, whatever store calls fail and whenever the process dies.          *)
THEOREM SerialCallsAreCurrent ==
    ASSUME Overlap = FALSE
    PROVE  Spec => []SerialInv
<1>1. Init => SerialInv
  <2> SUFFICES ASSUME Init PROVE SerialInv
    OBVIOUS
  <2>1. Threshold \in Int
    BY ResolveAfterAssumption DEF Threshold
  <2>2. Alone /\ RowsCount
    BY <2>1 DEF Init, Alone, RowsCount, Absences, NoRow, IdleCall
  <2>3. \A c \in Calls : CallCurrent(c) /\ CallCounts(c)
    BY DEF Init, CallCurrent, CallCounts, Awaits, IdleCall
  <2> QED BY <2>2, <2>3 DEF SerialInv, Init
<1>2. TypeOK /\ SnapshotsSound /\ SerialInv /\ [Next]_vars => SerialInv'
  BY StepKeepsSerial
<1> QED BY <1>1, <1>2, TypeCorrect, SnapshotsAlwaysSound, PTL DEF Spec

(* AbsentStreak counts scans: a closed finding was last seen at least       *)
(* Threshold calls before the call that closed it.                          *)
THEOREM ClosedOnlyAfterAbsences ==
    ASSUME Overlap = FALSE
    PROVE  Spec => []ClosedAfterAbsences
<1>1. SerialInv => ClosedAfterAbsences
  BY DEF SerialInv, RowsCount, ClosedAfterAbsences
<1> QED BY <1>1, SerialCallsAreCurrent, PTL

-----------------------------------------------------------------------------
(* The life of a finding (Lifecycle), read off the rows.                    *)
Status == [f \in Findings |-> rows[f].status]
Streak == [f \in Findings |-> rows[f].streak]

(* A write to one row is, seen from Lifecycle, a change of its finding.     *)
LEMMA OneRowChanges ==
    ASSUME NEW f \in Findings, \A g \in Findings : g # f => rows'[g] = rows[g]
    PROVE  /\ Status' = [Status EXCEPT ![f] = rows'[f].status]
           /\ Streak' = [Streak EXCEPT ![f] = rows'[f].streak]
BY DEF Status, Streak

(* Every step of the engine or of the handler is one of a life or none.     *)
LEMMA StepIsALifeStep ==
    ASSUME TypeOK, SnapshotsSound, SerialInv, [Next]_vars
    PROVE  Life!Next \/ UNCHANGED <<Status, Streak>>
<1>1. ASSUME NEW c \in Calls, NEW f \in Findings, Insert(c, f) \/ Refresh(c, f)
      PROVE  Life!Sighting(f)
  <2>1. PICK row \in Row :
            /\ call[c].pc = "fresh" /\ Upsert(f, row)
            /\ row.status = StatusSeen(call[c].existing[f]) /\ row.streak = 0
    BY <1>1, SightingRow
  <2>2. /\ rows'[f].status = row.status /\ rows'[f].streak = 0
        /\ \A g \in Findings : g # f => rows'[g] = rows[g]
    BY <2>1, UpsertValues DEF TypeOK
  <2>3. row.status = StatusSeen(rows[f])
    BY <2>1 DEF SerialInv, CallCurrent, StatusSeen
  <2>4. /\ Status' = [Status EXCEPT ![f] = StatusSeen(rows[f])] /\ Streak' = [Streak EXCEPT ![f] = 0]
    BY <2>2, <2>3, OneRowChanges
  <2>5. Status[f] = rows[f].status
    BY DEF Status
  <2> QED BY <2>4, <2>5 DEF Life!Sighting, StatusSeen, Status, Streak
<1>2. ASSUME NEW c \in Calls, NEW f \in Findings, Miss(c, f)
      PROVE  Life!Absence(f)
  <2>1. /\ rows[f].status \in {"open", "acknowledged"} /\ rows'[f].streak = rows[f].streak + 1
        /\ rows'[f].status = IF rows'[f].streak >= Threshold THEN "resolved" ELSE rows[f].status
        /\ \A g \in Findings : g # f => rows'[g] = rows[g]
    BY <1>2, AbsenceRow
  <2>2. /\ Status' = [Status EXCEPT ![f] = rows'[f].status]
        /\ Streak' = [Streak EXCEPT ![f] = rows[f].streak + 1]
    BY <2>1, OneRowChanges
  <2>3. Status[f] = rows[f].status /\ Streak[f] = rows[f].streak /\ Streak'[f] = rows'[f].streak
    BY DEF Status, Streak
  <2> QED BY <2>1, <2>2, <2>3 DEF Life!Absence, Status, Streak
<1>3. ASSUME NEW e \in edits, PutEdit(e)
      PROVE  Life!Decision(e.finding, e.row.status)
  <2> DEFINE f == e.finding
  <2>1. /\ f \in Findings /\ rows[f] \in Row /\ rows[f].status # "none"
        /\ rows'[f] = [rows[f] EXCEPT !.status = e.row.status]
        /\ \A g \in Findings : g # f => rows'[g] = rows[g]
    BY <1>3, EditRow DEF TypeOK
  <2>2. rows'[f].status = e.row.status /\ rows'[f].streak = rows[f].streak
    BY <2>1 DEF Row
  <2>3. Status' = [Status EXCEPT ![f] = e.row.status] /\ Streak' = Streak
    BY <2>1, <2>2, OneRowChanges DEF Streak
  <2>4. Status[f] # "none"
    BY <2>1 DEF Status
  <2> QED BY <2>3, <2>4 DEF Life!Decision, Status, Streak
<1>4. ASSUME NEW e \in edits, PutEdit(e) PROVE Life!Next
  <2>1. e.finding \in Findings /\ e.row.status \in {"open", "acknowledged", "suppressed"}
    BY <1>4, EditRow DEF UserStatuses
  <2> QED BY <1>3, <1>4, <2>1 DEF Life!Next
<1>5. ASSUME rows' = rows PROVE UNCHANGED <<Status, Streak>>
  BY <1>5 DEF Status, Streak
<1> QED BY <1>1, <1>2, <1>4, <1>5
        DEF Next, CallStep, UserStep, Begin, List, Reject, TurnToAbsent, Deliver, StoreError,
            GetForEdit, EditError, Crash, vars, Life!Next

(* The table in the comment above Engine.Reconcile: the engine and the      *)
(* status handler, one call at a time, move every finding through its life  *)
(* as Lifecycle has it, also when a store call fails or the process dies.   *)
THEOREM EngineImplementsLifecycle ==
    ASSUME Overlap = FALSE
    PROVE  Spec => LifeSpec
<1>1. Init => Life!Init
  BY DEF Init, Life!Init, NoRow
<1>2. TypeOK /\ SnapshotsSound /\ SerialInv /\ [Next]_vars => [Life!Next]_(Life!lifeVars)
  BY StepIsALifeStep DEF Life!lifeVars, Status, Streak
<1> QED BY <1>1, <1>2, TypeCorrect, SnapshotsAlwaysSound, SerialCallsAreCurrent, PTL
        DEF Spec, LifeSpec, Life!Spec
=============================================================================
