--------------------------- MODULE ProgramProofs ---------------------------
(***************************************************************************)
(* What holds of the program's end for every number of scans, findings,    *)
(* channels, retries: it uses the dispatcher as its interface allows, so   *)
(* that all that is proved of Dispatcher holds in it, and main returns     *)
(* only when all news that was taken has left.                             *)
(***************************************************************************)
EXTENDS Program, DispatcherProofs

(* A step of the program is a step of the dispatcher or leaves it alone.    *)
LEMMA StepIsDispatchers ==
    ASSUME [ProgNext]_progVars PROVE [Next]_vars
<1>1. ASSUME NEW s \in Scans, ScanStep(s) PROVE [Next]_vars
  <2>1. ASSUME NEW f \in Findings, NEW kind \in Kinds, NEW m \in Modules, NEW sev \in Severities, Tell(s, kind, m, f, sev)
        PROVE  Next
    BY <2>1 DEF Tell, Next
  <2>2. ASSUME NEW f \in Findings, NEW kind \in Kinds, TellNobody(s, kind, f) PROVE UNCHANGED vars
    BY <2>2 DEF TellNobody
  <2>3. ASSUME NEW f \in Findings, NEW kind \in Kinds, NEW m \in Modules, TellAgain(s, kind, m, f) PROVE UNCHANGED vars
    BY <2>3 DEF TellAgain
  <2>4. ASSUME NEW found, List(s, found) PROVE UNCHANGED vars
    BY <2>4 DEF List
  <2>5. ASSUME CollectFails(s) \/ Recorded(s) \/ RecordFails(s) \/ Finish(s) PROVE UNCHANGED vars
    BY <2>5 DEF CollectFails, Recorded, RecordFails, Finish
  <2>6. ASSUME NEW f, Opens(s, f) \/ Keeps(s, f) \/ Closes(s, f) PROVE UNCHANGED vars
    BY <2>6 DEF Opens, Keeps, Closes
  <2> QED BY <1>1, <2>1, <2>2, <2>3, <2>4, <2>5, <2>6 DEF ScanStep
<1>2. ASSUME NEW s, NEW origin, Begin(s, origin) PROVE UNCHANGED vars
  BY <1>2 DEF Begin
<1>3. CASE TimerFires \/ Flush \/ CloseReturns
  BY <1>3 DEF Next
<1>4. ASSUME NEW ch \in Channels, SendStep(ch) PROVE Next
  BY <1>4 DEF Next
<1>5. CASE MainCloses
  BY <1>5 DEF MainCloses, Next
<1>6. CASE Signal \/ ShutdownBegins \/ ShutdownEnds \/ StopEnds \/ MainReturns \/ MainExits
  BY <1>6 DEF Signal, ShutdownBegins, ShutdownEnds, StopEnds, MainReturns, MainExits
<1>7. CASE UNCHANGED progVars
  BY <1>7 DEF progVars
<1> QED BY <1>1, <1>2, <1>3, <1>4, <1>5, <1>6, <1>7 DEF ProgNext

(* Whatever scans, signal and shutdown do, the dispatcher's own             *)
(* specification is kept: what is proved of it holds in the program.       *)
THEOREM DispatcherUsedAsIs == ProgSpec => UsesDispatcher
<1>1. ProgInit => Init
  BY DEF ProgInit
<1>2. [ProgNext]_progVars => [Next]_vars
  BY StepIsDispatchers
<1> QED BY <1>1, <1>2, PTL DEF ProgSpec, Spec, UsesDispatcher

(* main returns after Close has, which no later step undoes.                *)
ReturnsClosed == main = "returned" => closer = "done"

(* main returns after Close has.                                            *)
LEMMA AlwaysReturnsClosed == ProgSpec => []ReturnsClosed
<1>1. ProgInit => ReturnsClosed
  BY DEF ProgInit, ReturnsClosed
<1>2. ReturnsClosed /\ [ProgNext]_progVars => ReturnsClosed'
  <2> SUFFICES ASSUME ReturnsClosed, [ProgNext]_progVars, main' = "returned" PROVE closer' = "done"
    BY DEF ReturnsClosed
  <2>1. CASE UNCHANGED progVars
    BY <2>1 DEF progVars, vars, ReturnsClosed
  <2>2. CASE ProgNext
    <3>1. main # "returned"
      BY <2>2 DEF ProgNext, Alive
    <3>2. MainReturns
      <4>1. ASSUME NEW s \in Scans, ScanStep(s) PROVE main' = main
        BY <4>1 DEF ScanStep, CollectFails, List, Opens, Keeps, Closes, Recorded, RecordFails, Finish, Tell, TellAgain, TellNobody, process
      <4>2. ASSUME NEW s, NEW origin, Begin(s, origin) PROVE main' = main
        BY <4>2 DEF Begin, process
      <4>3. Signal \/ ShutdownBegins \/ ShutdownEnds \/ StopEnds \/ UNCHANGED rest => main' = main
        BY DEF Signal, ShutdownBegins, ShutdownEnds, StopEnds, rest, process
      <4>4. (MainCloses => main' = "closing") /\ (MainExits => main' = "exited")
        BY DEF MainCloses, MainExits
      <4> QED BY <2>2, <3>1, <4>1, <4>2, <4>3, <4>4 DEF ProgNext
    <3> QED BY <3>2 DEF MainReturns, MayReturn, vars
  <2> QED BY <2>1, <2>2
<1> QED BY <1>1, <1>2, PTL DEF ProgSpec

(* When main has returned, every event the dispatcher took has been         *)
(* delivered or given up on, on every channel.                             *)
THEOREM NewsAlwaysLeavesFirst == ProgSpec => []NewsLeavesFirst
<1>1. TypeOK /\ CloseIsFinal /\ EachEventOnce /\ ReturnsClosed => NewsLeavesFirst
  <2> SUFFICES ASSUME TypeOK, CloseIsFinal, EachEventOnce, ReturnsClosed, main = "returned",
                      NEW n \in 1..accepted, NEW ch \in Channels
               PROVE  \E d \in acked[ch] \cup givenUp[ch] : \E e \in EventsOf(d) : e.n = n
    BY DEF NewsLeavesFirst, Settled
  <2>1. sends = {} /\ pending = <<>>
    BY DEF ReturnsClosed, CloseIsFinal, closed
  <2>2. ~IsPending(n)
    BY <2>1 DEF IsPending
  <2>3. \E d \in Dispatched(ch) : \E e \in EventsOf(d) : e.n = n
    BY <2>2 DEF EachEventOnce
  <2> QED BY <2>1, <2>3 DEF Dispatched
<1>2. ProgSpec => Spec
  BY DispatcherUsedAsIs DEF UsesDispatcher
<1> QED BY <1>1, <1>2, TypeCorrect, CloseAlwaysFinal, EachEventAlwaysOnce, AlwaysReturnsClosed, PTL

-----------------------------------------------------------------------------
(* What has left and what is in the window.                                 *)

(* The window holds the last events, in the order of their numbers.         *)
QueueInOrder ==
    /\ Len(pending) <= accepted
    /\ \A i \in 1..Len(pending) : pending[i].n = HasLeft + i

(* A step keeps the order, and nothing that has left comes back.            *)
LEMMA StepKeepsQueueInOrder ==
    ASSUME TypeOK, QueueInOrder, [Next]_vars
    PROVE  QueueInOrder' /\ HasLeft \in Int /\ HasLeft' \in Int /\ HasLeft <= HasLeft'
<1> DEFINE Goal == QueueInOrder' /\ HasLeft \in Int /\ HasLeft' \in Int /\ HasLeft <= HasLeft'
<1>0. pending \in Seq(Event) /\ accepted \in Nat /\ Len(pending) \in Nat
  BY MaxEventsAssumption DEF TypeOK
<1>1. ASSUME pending' = <<>>, accepted' \in {accepted, accepted + 1} PROVE Goal
  <2>1. Len(pending') = 0
    BY <1>1
  <2> QED BY <1>0, <1>1, <2>1 DEF QueueInOrder, HasLeft
<1>2. ASSUME NEW kind \in Kinds, NEW m \in Modules, NEW f \in Findings, NEW sev \in Severities,
             Enqueue(kind, m, f, sev)
      PROVE  Goal
  <2> DEFINE e == [kind |-> kind, module |-> m, finding |-> f, severity |-> sev, n |-> accepted + 1]
  <2>1. e.n = accepted + 1 /\ accepted' = accepted + 1
    BY <1>2 DEF Enqueue
  <2>2. pending' = <<>> \/ pending' = Append(pending, e)
    BY <1>2 DEF Enqueue, FlushLocked
  <2> HIDE DEF e
  <2>3. CASE pending' = Append(pending, e)
    <3>1. Len(pending') = Len(pending) + 1
      BY <1>0, <2>3
    <3>2. \A i \in 1..Len(pending) : pending'[i] = pending[i]
      BY <1>0, <2>3
    <3>3. pending'[Len(pending) + 1] = e
      BY <1>0, <2>3
    <3>4. HasLeft' = HasLeft
      BY <1>0, <2>1, <3>1 DEF HasLeft
    <3>5. \A i \in 1..Len(pending') : pending'[i].n = HasLeft' + i
      <4> SUFFICES ASSUME NEW i \in 1..Len(pending') PROVE pending'[i].n = HasLeft' + i
        OBVIOUS
      <4>1. CASE i \in 1..Len(pending)
        BY <3>2, <3>4, <4>1 DEF QueueInOrder
      <4>2. CASE i = Len(pending) + 1
        BY <1>0, <2>1, <3>3, <3>4, <4>2 DEF HasLeft
      <4> QED BY <1>0, <3>1, <4>1, <4>2
    <3> QED BY <1>0, <2>1, <3>1, <3>4, <3>5 DEF QueueInOrder, HasLeft
  <2> QED BY <1>1, <2>1, <2>2, <2>3
<1>3. CASE Flush \/ Close
  BY <1>1, <1>3 DEF Flush, Close, FlushLocked
<1>4. ASSUME UNCHANGED <<pending, accepted>> PROVE Goal
  BY <1>0, <1>4 DEF QueueInOrder, HasLeft
<1>5. CASE TimerFires \/ CloseReturns \/ UNCHANGED vars
  BY <1>4, <1>5 DEF TimerFires, CloseReturns, vars
<1>6. ASSUME NEW ch \in Channels, SendStep(ch) PROVE Goal
  BY <1>4, <1>6 DEF SendStep, SendOk, SendRetry, SendGivesUp, buffers
<1> QED BY <1>2, <1>3, <1>5, <1>6 DEF Next

(* The window is in order.                                                  *)
LEMMA QueueAlwaysInOrder == Spec => []QueueInOrder
<1>1. Init => QueueInOrder
  BY DEF Init, QueueInOrder
<1>2. TypeOK /\ QueueInOrder /\ [Next]_vars => QueueInOrder'
  BY StepKeepsQueueInOrder
<1> QED BY <1>1, <1>2, TypeCorrect, PTL DEF Spec

-----------------------------------------------------------------------------
(* What a scan's locals become.                                             *)

(* Each step of a recording call leaves locals of a scan.                   *)
LEMMA RecordingLocals ==
    ASSUME ProgTypeOK, NEW s \in Scans, scan[s].pc # "idle"
    PROVE  /\ scan[s] \in ScanLocals
           /\ \A found \in SUBSET Findings :
                 [scan[s] EXCEPT !.pc = "record", !.fresh = found, !.existing = table] \in ScanLocals
           /\ \A f \in Findings :
                 [scan[s] EXCEPT !.fresh = scan[s].fresh \ {f}, !.opened = scan[s].opened \cup {f}] \in ScanLocals
           /\ \A f \in Findings : Handled(s, f) \in ScanLocals
           /\ \A f \in Findings : [Handled(s, f) EXCEPT !.resolved = scan[s].resolved \cup {f}] \in ScanLocals
           /\ [scan[s] EXCEPT !.pc = "tell"] \in ScanLocals
<1>1. scan[s] \in ScanLocals
  BY DEF ProgTypeOK, Idle
<1>2. \A f \in Findings : Handled(s, f) \in ScanLocals
  BY <1>1 DEF Handled, ScanLocals
<1>3. \A found \in SUBSET Findings :
         [scan[s] EXCEPT !.pc = "record", !.fresh = found, !.existing = table] \in ScanLocals
  BY <1>1 DEF ScanLocals, ProgTypeOK
<1>4. \A f \in Findings :
         [scan[s] EXCEPT !.fresh = scan[s].fresh \ {f}, !.opened = scan[s].opened \cup {f}] \in ScanLocals
  BY <1>1 DEF ScanLocals
<1>5. \A f \in Findings : [Handled(s, f) EXCEPT !.resolved = scan[s].resolved \cup {f}] \in ScanLocals
  BY <1>1, <1>2 DEF ScanLocals
<1> QED BY <1>1, <1>2, <1>3, <1>4, <1>5 DEF ScanLocals

(* The types of the scans and of main.                                      *)
THEOREM ProgramTypeCorrect == ProgSpec => []ProgTypeOK
<1>1. ProgInit => ProgTypeOK
  <2> SUFFICES ASSUME ProgInit PROVE ProgTypeOK
    OBVIOUS
  <2>1. begun \in 0..MaxScans /\ sent \in [Findings -> 0..MaxEvents]
    BY MaxScansAssumption, MaxEventsAssumption DEF ProgInit
  <2>2. scan \in [Scans -> {Idle} \cup ScanLocals]
    BY DEF ProgInit
  <2> QED BY <2>1, <2>2 DEF ProgInit, ProgTypeOK
<1>2. TypeOK /\ QueueInOrder /\ ProgTypeOK /\ [ProgNext]_progVars => ProgTypeOK'
  <2> SUFFICES ASSUME TypeOK, QueueInOrder, ProgTypeOK, [ProgNext]_progVars PROVE ProgTypeOK'
    OBVIOUS
  <2>1. ASSUME NEW s \in Scans, NEW locals \in {Idle} \cup ScanLocals, scan' = [scan EXCEPT ![s] = locals],
               UNCHANGED <<process, begun>>, table' \subseteq Findings, dropped' \subseteq News,
               sent' \in [Findings -> 0..MaxEvents]
        PROVE  ProgTypeOK'
    <3>1. scan' \in [Scans -> {Idle} \cup ScanLocals]
      BY <2>1 DEF ProgTypeOK
    <3> QED BY <2>1, <3>1 DEF ProgTypeOK, process
  <2>2. ASSUME NEW s \in Scans, ScanStep(s) PROVE ProgTypeOK'
    <3>0. table \subseteq Findings /\ dropped \subseteq News /\ sent \in [Findings -> 0..MaxEvents]
      BY DEF ProgTypeOK
    <3>1. CASE CollectFails(s) \/ Finish(s)
      BY <2>1, <3>0, <3>1 DEF CollectFails, Finish, ledger
    <3>2. ASSUME NEW found \in SUBSET Findings, List(s, found) PROVE ProgTypeOK'
      BY <2>1, <3>0, <3>2, RecordingLocals DEF List, ledger
    <3>3. ASSUME NEW f \in Findings, Opens(s, f) PROVE ProgTypeOK'
      <4>1. HasLeft \in 0..MaxEvents
        BY MaxEventsAssumption DEF HasLeft, QueueInOrder, TypeOK
      <4>2. sent' \in [Findings -> 0..MaxEvents]
        BY <3>0, <3>3, <4>1 DEF Opens
      <4>3. [scan[s] EXCEPT !.fresh = scan[s].fresh \ {f}, !.opened = scan[s].opened \cup {f}] \in ScanLocals
        BY <3>3, RecordingLocals DEF Opens
      <4> QED BY <2>1, <3>0, <3>3, <4>2, <4>3 DEF Opens
    <3>4. ASSUME NEW f \in Findings, Keeps(s, f) PROVE ProgTypeOK'
      <4>1. Handled(s, f) \in ScanLocals
        BY <3>4, RecordingLocals DEF Keeps, InTurn
      <4> QED BY <2>1, <3>0, <3>4, <4>1 DEF Keeps
    <3>5. ASSUME NEW f \in Findings, Closes(s, f) PROVE ProgTypeOK'
      <4>1. [Handled(s, f) EXCEPT !.resolved = scan[s].resolved \cup {f}] \in ScanLocals
        BY <3>5, RecordingLocals DEF Closes, InTurn
      <4> QED BY <2>1, <3>0, <3>5, <4>1 DEF Closes
    <3>6. CASE Recorded(s)
      <4>1. [scan[s] EXCEPT !.pc = "tell"] \in ScanLocals
        BY <3>6, RecordingLocals DEF Recorded
      <4> QED BY <2>1, <3>0, <3>6, <4>1 DEF Recorded, ledger
    <3>7. CASE RecordFails(s)
      <4>1. NewsOf(scan[s]) \subseteq News
        <5>1. scan[s] \in ScanLocals
          BY <3>7, RecordingLocals DEF RecordFails
        <5> QED BY <5>1 DEF NewsOf, News, Kinds, ScanLocals
      <4> QED BY <2>1, <3>0, <3>7, <4>1 DEF RecordFails
    <3>8. ASSUME NEW kind \in Kinds, NEW f \in Findings, InHand(s, kind, f), HandedOver(s, f),
                 UNCHANGED <<process, ledger>>
          PROVE  ProgTypeOK'
      <4> DEFINE locals == [scan[s] EXCEPT !.opened = scan[s].opened \ {f},
                                           !.resolved = IF scan[s].opened = {} THEN scan[s].resolved \ {f}
                                                        ELSE scan[s].resolved]
      <4>1. scan[s] \in ScanLocals
        BY <3>8, RecordingLocals DEF InHand
      <4>2. locals \in ScanLocals
        BY <4>1 DEF ScanLocals
      <4>3. scan' = [scan EXCEPT ![s] = locals]
        BY <3>8 DEF HandedOver
      <4> HIDE DEF locals
      <4> QED BY <2>1, <3>0, <3>8, <4>2, <4>3 DEF ledger
    <3>9. ASSUME NEW f \in Findings, NEW kind \in Kinds,
                 \/ TellNobody(s, kind, f)
                 \/ \E m \in Modules : TellAgain(s, kind, m, f) \/ \E sev \in Severities : Tell(s, kind, m, f, sev)
          PROVE  ProgTypeOK'
      BY <3>8, <3>9 DEF TellNobody, TellAgain, Tell
    <3> QED BY <2>2, <3>1, <3>2, <3>3, <3>4, <3>5, <3>6, <3>7, <3>9 DEF ScanStep
  <2>3. ASSUME NEW s \in Scans, NEW origin \in {"sweep", "request"}, Begin(s, origin) PROVE ProgTypeOK'
    <3>1. [Idle EXCEPT !.pc = "collect", !.origin = origin] \in ScanLocals
      BY DEF Idle, ScanLocals
    <3>2. begun' \in 0..MaxScans
      BY <2>3, MaxScansAssumption DEF Begin, ProgTypeOK
    <3> QED BY <2>3, <3>1, <3>2 DEF Begin, process, ProgTypeOK
  <2>4. CASE Signal \/ ShutdownBegins \/ ShutdownEnds \/ StopEnds \/ MainCloses
    BY <2>4 DEF Signal, ShutdownBegins, ShutdownEnds, StopEnds, MainCloses, ledger, ProgTypeOK
  <2>5. CASE MainReturns \/ MainExits
    BY <2>5 DEF MainReturns, MainExits, ledger, ProgTypeOK
  <2>6. CASE UNCHANGED rest \/ UNCHANGED progVars
    BY <2>6 DEF rest, process, ledger, progVars, ProgTypeOK
  <2> QED BY <2>2, <2>3, <2>4, <2>5, <2>6 DEF ProgNext
<1>3. ProgSpec => Spec
  BY DispatcherUsedAsIs DEF UsesDispatcher
<1> QED BY <1>1, <1>2, <1>3, TypeCorrect, QueueAlwaysInOrder, PTL DEF ProgSpec

(* What the dispatcher has taken it keeps, in its window or in the digests. *)
LEMMA FlushKeepsTaken ==
    ASSUME NEW queue \in Seq(Event), FlushLocked(queue), UNCHANGED <<acked, givenUp>>
    PROVE  /\ \A i \in 1..Len(queue) : queue[i] \in Taken'
           /\ \A ch \in Channels : \A d \in Dispatched(ch) : EventsOf(d) \subseteq Taken'
<1>1. PICK ch \in Channels : TRUE
  BY ChannelsAssumption
<1>2. ASSUME NEW i \in 1..Len(queue) PROVE queue[i] \in Taken'
  <2> DEFINE d == DigestOf(queue[i].module, queue)
  <2>1. queue[i].kind \in {"opened", "resolved"} /\ queue[i].module \in Modules
    <3>1. queue[i] \in Event
      OBVIOUS
    <3> QED BY <3>1 DEF Event, Kinds
  <2>2. queue[i] \in EventsOf(d)
    BY <2>1 DEF DigestOf, EventsOf
  <2>3. d \in Dispatched(ch)'
    <3>1. d \in Digests(queue)
      BY <2>1, <2>2 DEF Digests
    <3> HIDE DEF d
    <3> QED BY <3>1, FlushDispatches
  <2> HIDE DEF d
  <2> QED BY <2>2, <2>3 DEF Taken
<1>3. \A c \in Channels : Dispatched(c) \subseteq Dispatched(c)'
  BY FlushDispatches
<1> QED BY <1>2, <1>3 DEF Taken

(* What the dispatcher has taken it does not forget.                        *)
LEMMA TakenIsKept ==
    ASSUME TypeOK, [Next]_vars PROVE Taken \subseteq Taken'
<1>0. pending \in Seq(Event)
  BY DEF TypeOK
<1>1. ASSUME NEW kind \in Kinds, NEW m \in Modules, NEW f \in Findings, NEW sev \in Severities,
             Enqueue(kind, m, f, sev)
      PROVE  Taken \subseteq Taken'
  <2> DEFINE e == [kind |-> kind, module |-> m, finding |-> f, severity |-> sev, n |-> accepted + 1]
  <2>1. e \in Event /\ Append(pending, e) \in Seq(Event)
    BY <1>1, AcceptedEvent DEF Enqueue
  <2>2. UNCHANGED <<acked, givenUp>>
    BY <1>1 DEF Enqueue, history
  <2>3. \/ FlushLocked(Append(pending, e))
        \/ pending' = Append(pending, e) /\ UNCHANGED sends
    BY <1>1 DEF Enqueue
  <2> HIDE DEF e
  <2>4. \A i \in 1..Len(pending) : i \in 1..Len(Append(pending, e)) /\ Append(pending, e)[i] = pending[i]
    BY <1>0, <2>1
  <2>5. CASE FlushLocked(Append(pending, e))
    <3>1. /\ \A i \in 1..Len(Append(pending, e)) : Append(pending, e)[i] \in Taken'
          /\ \A ch \in Channels : \A d \in Dispatched(ch) : EventsOf(d) \subseteq Taken'
      BY <2>1, <2>2, <2>5, FlushKeepsTaken
    <3>2. \A i \in 1..Len(pending) : pending[i] \in Taken'
      BY <2>4, <3>1
    <3>3. \A x \in Taken : (\E i \in 1..Len(pending) : x = pending[i]) \/ \E ch \in Channels : \E d \in Dispatched(ch) : x \in EventsOf(d)
      BY DEF Taken
    <3> QED BY <3>1, <3>2, <3>3
  <2>6. CASE pending' = Append(pending, e) /\ UNCHANGED sends
    <3>1. \A ch \in Channels : Dispatched(ch)' = Dispatched(ch)
      BY <2>2, <2>6 DEF Dispatched
    <3> QED BY <2>4, <2>6, <3>1 DEF Taken
  <2> QED BY <2>3, <2>5, <2>6
<1>2. CASE Flush \/ Close
  <2>1. FlushLocked(pending) /\ UNCHANGED <<acked, givenUp>>
    BY <1>2 DEF Flush, Close, history
  <2> QED BY <1>0, <2>1, FlushKeepsTaken DEF Taken
<1>3. ASSUME NEW s \in sends, NEW part, SendOk(s) \/ SendRetry(s, part) \/ SendGivesUp(s, part)
      PROVE  Taken \subseteq Taken'
  <2>1. \A ch \in Channels : Dispatched(ch)' = Dispatched(ch)
    BY <1>3, SendStepKeepsDigests
  <2>2. pending' = pending
    BY <1>3 DEF SendOk, SendRetry, SendGivesUp, buffers
  <2> QED BY <2>1, <2>2 DEF Taken
<1>4. ASSUME NEW ch \in Channels, SendStep(ch) PROVE Taken \subseteq Taken'
  BY <1>3, <1>4 DEF SendStep
<1>5. CASE TimerFires \/ CloseReturns \/ UNCHANGED vars
  <2>1. UNCHANGED <<pending, sends, acked, givenUp>>
    BY <1>5 DEF TimerFires, CloseReturns, history, vars
  <2> QED BY <2>1 DEF Taken, Dispatched
<1> QED BY <1>1, <1>2, <1>4, <1>5 DEF Next

(* An event that is let in is among them, behind all that has left.         *)
LEMMA EnqueueTakes ==
    ASSUME TypeOK, QueueInOrder, NEW kind \in Kinds, NEW m \in Modules, NEW f \in Findings, NEW sev \in Severities,
           Enqueue(kind, m, f, sev)
    PROVE  \E e \in Taken' : e.kind = kind /\ e.finding = f /\ e.n \in Int /\ e.n > HasLeft
<1> DEFINE e == [kind |-> kind, module |-> m, finding |-> f, severity |-> sev, n |-> accepted + 1]
<1>0. e.kind = kind /\ e.finding = f /\ pending \in Seq(Event)
  BY DEF TypeOK
<1>1. e \in Event /\ Append(pending, e) \in Seq(Event)
  BY AcceptedEvent DEF Enqueue
<1>2. UNCHANGED <<acked, givenUp>>
  BY DEF Enqueue, history
<1>3. \/ FlushLocked(Append(pending, e))
      \/ pending' = Append(pending, e)
  BY DEF Enqueue
<1>4. e.n \in Int /\ e.n > HasLeft
  BY <1>0, MaxEventsAssumption DEF HasLeft, TypeOK
<1> HIDE DEF e
<1>5. Len(Append(pending, e)) \in 1..Len(Append(pending, e)) /\ Append(pending, e)[Len(Append(pending, e))] = e
  BY <1>0, <1>1
<1>6. e \in Taken'
  <2>1. CASE FlushLocked(Append(pending, e))
    BY <1>1, <1>2, <1>5, <2>1, FlushKeepsTaken
  <2>2. CASE pending' = Append(pending, e)
    BY <1>5, <2>2 DEF Taken
  <2> QED BY <1>3, <2>1, <2>2
<1> QED BY <1>0, <1>4, <1>6

(* The dispatcher is open while main serves; a call has news in hand only   *)
(* once it writes; and no count of what has left is ahead.                  *)
ServesOpen == main = "serving" => closer = "open"
EmptyHanded == \A s \in Scans : scan[s].pc \notin {"record", "tell"} => scan[s].opened = {}
SentBefore == \A f \in Findings : sent[f] <= HasLeft

Announced(f) ==
    \/ \E s \in Scans : f \in scan[s].opened
    \/ AnnouncedSince(f, sent[f])
    \/ [kind |-> "opened", finding |-> f] \in dropped

(* Open, or about to be written back open from a snapshot.                  *)
OnRecord == table \cup UNION {scan[s].existing : s \in Scans}

(* While main serves, an open finding was announced after it was last       *)
(* recorded as opened, or that news is in hand, or its call failed: a       *)
(* duplicate is only dropped while the first one is in the window, and what *)
(* is in the window has not left (SeenIsPending, QueueInOrder).             *)
THEOREM OpenAlwaysAnnounced == ProgSpec => []OpenIsAnnounced
<1> DEFINE Inv == /\ main = "serving" => \A f \in OnRecord : Announced(f)
                  /\ ServesOpen /\ EmptyHanded /\ SentBefore
<1>1. ProgInit => Inv
  BY DEF ProgInit, Init, OnRecord, ServesOpen, EmptyHanded, SentBefore, HasLeft, Idle
<1>2. TypeOK /\ SeenIsPending /\ QueueInOrder /\ ProgTypeOK /\ Inv /\ [ProgNext]_progVars => Inv'
  <2> SUFFICES ASSUME TypeOK, SeenIsPending, QueueInOrder, ProgTypeOK, Inv, [ProgNext]_progVars PROVE Inv'
    OBVIOUS
  <2>0. Taken \subseteq Taken' /\ HasLeft \in Int /\ HasLeft' \in Int /\ HasLeft <= HasLeft'
    BY StepIsDispatchers, TakenIsKept, StepKeepsQueueInOrder
  <2>1. ASSUME UNCHANGED sent PROVE SentBefore'
    BY <2>0, <2>1, MaxEventsAssumption DEF SentBefore, ProgTypeOK
  <2>2. ASSUME NEW f, AnnouncedSince(f, sent[f]), sent'[f] = sent[f] PROVE AnnouncedSince(f, sent[f])'
    BY <2>0, <2>2 DEF AnnouncedSince
  <2>3. ASSUME UNCHANGED <<table, scan, dropped, sent>>, main' = "serving" => main = "serving" /\ closer' = closer
        PROVE  Inv'
    BY <2>1, <2>2, <2>3 DEF OnRecord, Announced, ServesOpen, EmptyHanded
  <2>4. ASSUME NEW s \in Scans, \A r \in Scans : r # s => scan'[r] = scan[r],
               scan[s].opened \subseteq scan'[s].opened, scan'[s].pc \notin {"record", "tell"} => scan'[s].opened = {},
               OnRecord' \subseteq OnRecord, UNCHANGED <<main, closer, dropped, sent>>
        PROVE  Inv'
    <3>1. ASSUME NEW f, Announced(f) PROVE Announced(f)'
      BY <2>2, <2>4, <3>1 DEF Announced
    <3> QED BY <2>1, <2>4, <3>1 DEF ServesOpen, EmptyHanded
  <2>5. ASSUME NEW s \in Scans, ScanStep(s) PROVE Inv'
    <3>0. scan \in [Scans -> {Idle} \cup ScanLocals]
      BY DEF ProgTypeOK
    <3>1. CASE CollectFails(s) \/ Finish(s)
      <4>1. scan[s].opened = {} /\ UNCHANGED <<table, main, closer, dropped, sent>>
        BY <3>1 DEF CollectFails, Finish, EmptyHanded, process, ledger, vars
      <4>2. scan'[s] = Idle /\ \A r \in Scans : r # s => scan'[r] = scan[r]
        BY <3>0, <3>1 DEF CollectFails, Finish
      <4>3. OnRecord' \subseteq OnRecord
        BY <4>1, <4>2 DEF OnRecord, Idle
      <4> HIDE DEF Inv
      <4> QED BY <2>4, <4>1, <4>2, <4>3 DEF Idle
    <3>2. ASSUME NEW found \in SUBSET Findings, List(s, found) PROVE Inv'
      <4>1. scan[s] \in ScanLocals /\ UNCHANGED <<table, main, closer, dropped, sent>>
        BY <3>0, <3>2 DEF List, Idle, process, ledger, vars
      <4>2. /\ scan'[s].pc = "record" /\ scan'[s].existing = table /\ scan'[s].opened = scan[s].opened
            /\ \A r \in Scans : r # s => scan'[r] = scan[r]
        BY <3>0, <3>2, <4>1 DEF List, ScanLocals
      <4>3. OnRecord' \subseteq OnRecord
        BY <4>1, <4>2 DEF OnRecord
      <4> HIDE DEF Inv
      <4> QED BY <2>4, <4>1, <4>2, <4>3
    <3>3. ASSUME NEW f \in Findings, Opens(s, f) PROVE Inv'
      <4>1. /\ scan[s] \in ScanLocals /\ UNCHANGED <<main, closer>> /\ table' = table \cup {f}
            /\ dropped' = dropped \ {[kind |-> "opened", finding |-> f]}
            /\ sent' = [sent EXCEPT ![f] = HasLeft]
        BY <3>0, <3>3 DEF Opens, Idle, process, vars
      <4>2. /\ scan'[s].pc = "record" /\ scan'[s].existing = scan[s].existing
            /\ scan'[s].opened = scan[s].opened \cup {f}
            /\ \A r \in Scans : r # s => scan'[r] = scan[r]
        BY <3>0, <3>3, <4>1 DEF Opens, ScanLocals
      <4>3. OnRecord' \subseteq OnRecord \cup {f}
        BY <4>1, <4>2 DEF OnRecord
      <4>4. Announced(f)'
        BY <4>2 DEF Announced
      <4>5. ASSUME NEW g, g # f, Announced(g) PROVE Announced(g)'
        <5>1. sent'[g] = sent[g] /\ ([kind |-> "opened", finding |-> g] \in dropped => [kind |-> "opened", finding |-> g] \in dropped')
          <6>1. [kind |-> "opened", finding |-> g].finding = g /\ [kind |-> "opened", finding |-> f].finding = f
            OBVIOUS
          <6>2. [kind |-> "opened", finding |-> g] # [kind |-> "opened", finding |-> f]
            BY <4>5, <6>1
          <6>3. sent'[g] = sent[g]
            BY <4>1, <4>5 DEF ProgTypeOK
          <6> QED BY <4>1, <6>2, <6>3
        <5> QED BY <2>2, <4>2, <4>5, <5>1 DEF Announced
      <4>6. SentBefore'
        <5>1. UNCHANGED <<accepted, pending>>
          BY <3>3 DEF Opens, vars
        <5>2. HasLeft' = HasLeft /\ HasLeft \in Int
          BY <5>1, MaxEventsAssumption DEF HasLeft, TypeOK
        <5> QED BY <4>1, <5>2 DEF SentBefore, ProgTypeOK
      <4> QED BY <4>1, <4>2, <4>3, <4>4, <4>5, <4>6 DEF ServesOpen, EmptyHanded
    <3>4. ASSUME NEW f \in Findings, Keeps(s, f) \/ Closes(s, f) PROVE Inv'
      <4>1. /\ scan[s] \in ScanLocals /\ UNCHANGED <<main, closer, dropped, sent>> /\ table' \subseteq table \cup {f}
            /\ scan[s].pc = "record" /\ f \in scan[s].existing
        BY <3>0, <3>4 DEF Keeps, Closes, InTurn, Idle, process, vars
      <4>2. /\ scan'[s].pc = "record" /\ scan'[s].existing \subseteq scan[s].existing
            /\ scan'[s].opened = scan[s].opened
            /\ \A r \in Scans : r # s => scan'[r] = scan[r]
        <5>1. /\ Handled(s, f).pc = "record" /\ Handled(s, f).existing \subseteq scan[s].existing
              /\ Handled(s, f).opened = scan[s].opened /\ Handled(s, f) \in ScanLocals
          BY <4>1 DEF Handled, ScanLocals
        <5>2. LET l == [Handled(s, f) EXCEPT !.resolved = scan[s].resolved \cup {f}]
              IN  l.pc = "record" /\ l.existing \subseteq scan[s].existing /\ l.opened = scan[s].opened
          BY <5>1 DEF ScanLocals
        <5> QED BY <3>0, <3>4, <5>1, <5>2 DEF Keeps, Closes
      <4>3. OnRecord' \subseteq OnRecord
        BY <4>1, <4>2 DEF OnRecord
      <4> HIDE DEF Inv
      <4> QED BY <2>4, <4>1, <4>2, <4>3
    <3>5. CASE Recorded(s)
      <4>1. scan[s] \in ScanLocals /\ UNCHANGED <<table, main, closer, dropped, sent>>
        BY <3>0, <3>5 DEF Recorded, Idle, process, ledger, vars
      <4>2. /\ scan'[s].pc = "tell" /\ scan'[s].existing = scan[s].existing /\ scan'[s].opened = scan[s].opened
            /\ \A r \in Scans : r # s => scan'[r] = scan[r]
        BY <3>0, <3>5, <4>1 DEF Recorded, ScanLocals
      <4>3. OnRecord' \subseteq OnRecord
        BY <4>1, <4>2 DEF OnRecord
      <4> HIDE DEF Inv
      <4> QED BY <2>4, <4>1, <4>2, <4>3
    <3>6. CASE RecordFails(s)
      <4>1. UNCHANGED <<table, main, closer, sent>> /\ dropped' = dropped \cup NewsOf(scan[s])
        BY <3>6 DEF RecordFails, process, vars
      <4>2. scan'[s] = Idle /\ \A r \in Scans : r # s => scan'[r] = scan[r]
        BY <3>0, <3>6 DEF RecordFails
      <4>3. OnRecord' \subseteq OnRecord
        BY <4>1, <4>2 DEF OnRecord, Idle
      <4>4. \A f \in scan[s].opened : [kind |-> "opened", finding |-> f] \in dropped'
        BY <4>1 DEF NewsOf
      <4>5. ASSUME NEW f, Announced(f) PROVE Announced(f)'
        BY <2>2, <4>1, <4>2, <4>4, <4>5 DEF Announced
      <4> QED BY <2>1, <4>1, <4>2, <4>3, <4>5 DEF ServesOpen, EmptyHanded, Idle
    <3>7. ASSUME NEW kind \in Kinds, NEW f \in Findings, InHand(s, kind, f), HandedOver(s, f),
                 UNCHANGED <<process, ledger, closer>>,
                 main = "serving" =>
                     \E e \in Taken' : e.kind = kind /\ e.finding = f /\ e.n \in Int /\ e.n > HasLeft
          PROVE  Inv'
      <4>1. scan[s] \in ScanLocals
        BY <3>0, <3>7 DEF InHand, Idle
      <4>2. /\ scan'[s].opened = scan[s].opened \ {f} /\ scan'[s].pc = "tell" /\ scan'[s].existing = scan[s].existing
            /\ \A r \in Scans : r # s => scan'[r] = scan[r]
        BY <3>0, <3>7, <4>1 DEF HandedOver, InHand, ScanLocals
      <4>3. OnRecord' \subseteq OnRecord /\ UNCHANGED <<main, closer, dropped, sent>>
        BY <3>7, <4>2 DEF OnRecord, ledger, process
      <4>4. ASSUME main = "serving", kind = "opened" PROVE AnnouncedSince(f, sent[f])'
        <5>1. sent[f] <= HasLeft /\ sent[f] \in Int /\ sent'[f] = sent[f]
          BY <4>3, MaxEventsAssumption DEF SentBefore, ProgTypeOK
        <5> QED BY <2>0, <3>7, <4>4, <5>1 DEF AnnouncedSince
      <4>5. kind = "opened" \/ scan[s].opened = {}
        BY <3>7 DEF InHand
      <4>6. ASSUME NEW g, Announced(g), main = "serving" PROVE Announced(g)'
        <5>1. CASE kind = "opened" /\ g = f
          BY <4>4, <4>6, <5>1 DEF Announced
        <5>2. CASE ~(kind = "opened" /\ g = f)
          <6>1. g \in scan[s].opened => g \in scan'[s].opened
            BY <4>2, <4>5, <5>2
          <6> QED BY <2>2, <4>2, <4>3, <4>6, <6>1 DEF Announced
        <5> QED BY <5>1, <5>2
      <4> QED BY <2>1, <4>2, <4>3, <4>6 DEF ServesOpen, EmptyHanded
    <3>8. ASSUME NEW kind \in Kinds, NEW m \in Modules, NEW f \in Findings, NEW sev \in Severities, Tell(s, kind, m, f, sev)
          PROVE  Inv'
      <4>1. \E e \in Taken' : e.kind = kind /\ e.finding = f /\ e.n \in Int /\ e.n > HasLeft
        BY <3>8, EnqueueTakes DEF Tell
      <4>2. UNCHANGED <<process, ledger, closer>>
        BY <3>8 DEF Tell, Enqueue
      <4> HIDE DEF Inv
      <4> QED BY <3>7, <3>8, <4>1, <4>2 DEF Tell
    <3>9. ASSUME NEW kind \in Kinds, NEW m \in Modules, NEW f \in Findings, TellAgain(s, kind, m, f) PROVE Inv'
      <4>1. PICK i \in 1..Len(pending) : Key(pending[i]) = <<kind, m, f>>
        BY <3>9 DEF TellAgain, IsInWindow, SeenIsPending
      <4>2. pending[i] \in Taken' /\ pending[i].kind = kind /\ pending[i].finding = f
        BY <2>0, <4>1 DEF Taken, Key
      <4>3. pending[i].n = HasLeft + i /\ i \in Nat /\ i > 0
        BY <4>1 DEF QueueInOrder, TypeOK
      <4>4. \E e \in Taken' : e.kind = kind /\ e.finding = f /\ e.n \in Int /\ e.n > HasLeft
        BY <2>0, <4>2, <4>3
      <4>5. UNCHANGED <<process, ledger, closer>>
        BY <3>9 DEF TellAgain, vars
      <4> HIDE DEF Inv
      <4> QED BY <3>7, <3>9, <4>4, <4>5 DEF TellAgain
    <3>10. ASSUME NEW kind \in Kinds, NEW f \in Findings, TellNobody(s, kind, f) PROVE Inv'
      <4>1. main # "serving"
        BY <3>10 DEF TellNobody, closed, ServesOpen
      <4>2. UNCHANGED <<process, ledger, closer>>
        BY <3>10 DEF TellNobody, vars
      <4> HIDE DEF Inv
      <4> QED BY <3>7, <3>10, <4>1, <4>2 DEF TellNobody
    <3> HIDE DEF Inv
    <3> QED BY <2>5, <3>1, <3>2, <3>3, <3>4, <3>5, <3>6, <3>8, <3>9, <3>10 DEF ScanStep
  <2>6. ASSUME NEW s \in Scans, NEW origin, Begin(s, origin) PROVE Inv'
    <3>1. UNCHANGED <<table, main, closer, dropped, sent>> /\ scan[s] = Idle /\ scan \in [Scans -> {Idle} \cup ScanLocals]
      BY <2>6 DEF Begin, process, vars, ProgTypeOK
    <3>2. /\ scan'[s].opened = {} /\ scan'[s].existing = {} /\ scan[s].opened = {}
          /\ \A r \in Scans : r # s => scan'[r] = scan[r]
      BY <2>6, <3>1 DEF Begin, Idle
    <3>3. OnRecord' \subseteq OnRecord
      BY <3>1, <3>2 DEF OnRecord
    <3> HIDE DEF Inv
    <3> QED BY <2>4, <3>1, <3>2, <3>3
  <2>7. CASE Signal \/ ShutdownBegins \/ ShutdownEnds \/ StopEnds \/ MainCloses
    BY <2>3, <2>7 DEF Signal, ShutdownBegins, ShutdownEnds, StopEnds, MainCloses, ledger, vars
  <2>8. CASE MainReturns \/ MainExits
    <3>1. main' # "serving" /\ UNCHANGED sent /\ \A s \in Scans : scan'[s].opened = {}
      BY <2>8 DEF MainReturns, MainExits, ledger, Idle
    <3> QED BY <2>1, <3>1 DEF ServesOpen, EmptyHanded
  <2>9. ASSUME TimerFires \/ Flush \/ CloseReturns \/ \E ch \in Channels : SendStep(ch), UNCHANGED rest PROVE Inv'
    <3>1. closer' = closer \/ closer = "waiting"
      BY <2>9 DEF TimerFires, Flush, CloseReturns, SendStep, SendOk, SendRetry, SendGivesUp, buffers
    <3> QED BY <2>3, <2>9, <3>1 DEF rest, process, ledger, ServesOpen
  <2>10. CASE UNCHANGED progVars
    BY <2>3, <2>10 DEF progVars, vars, ledger, process
  <2> HIDE DEF Inv
  <2> QED BY <2>5, <2>6, <2>7, <2>8, <2>9, <2>10 DEF ProgNext
<1>3. Inv => OpenIsAnnounced
  BY DEF Announced, OnRecord, OpenIsAnnounced
<1>4. ProgSpec => Spec
  BY DispatcherUsedAsIs DEF UsesDispatcher
<1> QED BY <1>1, <1>2, <1>3, <1>4, TypeCorrect, SeenAlwaysPending, QueueAlwaysInOrder, ProgramTypeCorrect, PTL
        DEF ProgSpec
=============================================================================
