-------------------------- MODULE DispatcherProofs --------------------------
(***************************************************************************)
(* What holds of the dispatcher for every set of modules, findings and     *)
(* channels, every batch size and number of retries: its types, that no    *)
(* window is left without an end, that a batch stays below its maximum,    *)
(* that the dedup set is the window's, that Close is final, that an event  *)
(* is in one digest at most, and that the dispatcher implements Outbox.    *)
(***************************************************************************)
EXTENDS Dispatcher, TLAPS

(* The inductive core: the timer is set exactly while events are pending,   *)
(* and one that has run out has left a Flush waiting for the lock.         *)
Window ==
    /\ timer # "none" <=> pending # <<>>
    /\ timer = "fired" => late > 0

(* A batch is cut into digests.                                             *)
LEMMA DigestsType ==
    ASSUME NEW queue \in Seq(Event)
    PROVE  Digests(queue) \subseteq Digest
<1>1. ASSUME NEW m \in Modules PROVE DigestOf(m, queue) \in Digest
  <2>1. \A i \in 1..Len(queue) : queue[i] \in Event
    OBVIOUS
  <2> QED BY <2>1 DEF DigestOf, Digest
<1> QED BY <1>1 DEF Digests

(* An empty batch makes none: Flush returns early.                          *)
LEMMA NoDigestOfNothing == Digests(<<>>) = {}
<1>1. \A m \in Modules : EventsOf(DigestOf(m, <<>>)) = {}
  BY DEF DigestOf, EventsOf
<1> QED BY <1>1 DEF Digests

(* A flush keeps the types, ends the window and, of nothing, sends nothing. *)
LEMMA FlushEffect ==
    ASSUME TypeOK, NEW queue \in Seq(Event), FlushLocked(queue)
    PROVE  /\ pending' = <<>> /\ timer' = "none"
           /\ pending' \in Seq(Event) /\ sends' \subseteq Send
           /\ seen' = IF queue = <<>> THEN seen ELSE {}
           /\ queue = <<>> => sends' = sends
<1>1. NewSends(queue) \subseteq Send
  BY DigestsType DEF NewSends, Send
<1>2. queue = <<>> => NewSends(queue) = {}
  BY NoDigestOfNothing DEF NewSends
<1> QED BY <1>1, <1>2 DEF FlushLocked, TypeOK

(* An accepted event is well typed and lengthens the queue by one.          *)
LEMMA AcceptedEvent ==
    ASSUME TypeOK, accepted < MaxEvents, NEW kind \in Kinds, NEW m \in Modules,
           NEW f \in Findings, NEW sev \in Severities
    PROVE  LET e == [kind |-> kind, module |-> m, finding |-> f, severity |-> sev, n |-> accepted + 1]
           IN /\ e \in Event /\ Append(pending, e) \in Seq(Event) /\ Append(pending, e) # <<>>
              /\ Key(e) \in Kinds \X Modules \X Findings
<1> DEFINE e == [kind |-> kind, module |-> m, finding |-> f, severity |-> sev, n |-> accepted + 1]
<1>1. accepted + 1 \in 1..MaxEvents
  BY MaxEventsAssumption DEF TypeOK
<1>2. e \in Event
  BY <1>1 DEF Event
<1>3. Key(e) = <<kind, m, f>>
  BY DEF Key
<1> HIDE DEF e
<1>4. Append(pending, e) \in Seq(Event) /\ Append(pending, e) # <<>>
  BY <1>2 DEF TypeOK
<1> QED BY <1>2, <1>3, <1>4 DEF e

(* What arrives of a failed attempt is events.                              *)
LEMMA PartsType ==
  ASSUME NEW s \in Send, NEW part \in Parts(s)
  PROVE  part \subseteq Event
<1>1. EventsOf(s.digest) \subseteq Event
  BY DEF Send, Digest, EventsOf
<1> QED BY <1>1 DEF Parts, Prefixes, AllOrNothing

(* The dispatcher's state is well typed.                                    *)
THEOREM TypeCorrect == Spec => []TypeOK
<1>1. Init => TypeOK
  BY MaxEventsAssumption DEF Init, TypeOK
<1>2. TypeOK /\ [Next]_vars => TypeOK'
  <2> SUFFICES ASSUME TypeOK, [Next]_vars PROVE TypeOK'
    OBVIOUS
  <2>1. ASSUME NEW kind \in Kinds, NEW m \in Modules, NEW f \in Findings, NEW sev \in Severities,
               Enqueue(kind, m, f, sev)
        PROVE  TypeOK'
    <3> DEFINE e == [kind |-> kind, module |-> m, finding |-> f, severity |-> sev, n |-> accepted + 1]
    <3>1. /\ e \in Event /\ Append(pending, e) \in Seq(Event)
          /\ Key(e) \in Kinds \X Modules \X Findings
      BY <2>1, AcceptedEvent DEF Enqueue
    <3>2. /\ accepted' \in 0..MaxEvents
          /\ UNCHANGED <<late, closer, history>>
      BY <2>1, MaxEventsAssumption DEF Enqueue, TypeOK
    <3>3. CASE FlushLocked(Append(pending, e))
      <4> HIDE DEF e
      <4>1. /\ pending' \in Seq(Event) /\ sends' \subseteq Send /\ timer' = "none"
            /\ seen' \subseteq Kinds \X Modules \X Findings
        BY <3>1, <3>3, FlushEffect DEF TypeOK
      <4> QED BY <3>2, <4>1 DEF history, TypeOK
    <3>4. CASE /\ pending' = Append(pending, e) /\ seen' = seen \cup {Key(e)}
               /\ timer' = (IF timer = "none" THEN "armed" ELSE timer) /\ UNCHANGED sends
      <4> HIDE DEF e
      <4> QED BY <3>1, <3>2, <3>4 DEF history, TypeOK
    <3> QED BY <2>1, <3>3, <3>4 DEF Enqueue
  <2>2. CASE TimerFires
    BY <2>2 DEF TimerFires, history, TypeOK
  <2>3. CASE Flush
    <3>1. /\ pending' \in Seq(Event) /\ sends' \subseteq Send /\ timer' = "none"
          /\ seen' \subseteq Kinds \X Modules \X Findings
      BY <2>3, FlushEffect DEF Flush, TypeOK
    <3> QED BY <2>3, <3>1 DEF Flush, history, TypeOK
  <2>4. CASE Close
    <3>1. /\ pending' \in Seq(Event) /\ sends' \subseteq Send /\ timer' = "none"
          /\ seen' \subseteq Kinds \X Modules \X Findings
      BY <2>4, FlushEffect DEF Close, TypeOK
    <3> QED BY <2>4, <3>1 DEF Close, history, TypeOK
  <2>5. CASE CloseReturns
    BY <2>5 DEF CloseReturns, history, TypeOK
  <2>6. ASSUME NEW s \in sends, SendOk(s) PROVE TypeOK'
    <3>1. s \in Send /\ EventsOf(s.digest) \subseteq Event
      BY DEF TypeOK, Send, Digest, EventsOf
    <3>2. /\ reached' \in [Channels -> SUBSET Event]
          /\ acked' \in [Channels -> SUBSET Digest]
      BY <2>6, <3>1 DEF SendOk, Arrives, TypeOK, Send
    <3> QED BY <2>6, <3>2 DEF SendOk, buffers, TypeOK
  <2>7. ASSUME NEW s \in sends, NEW part \in Parts(s), SendRetry(s, part) PROVE TypeOK'
    <3>1. s \in Send /\ [s EXCEPT !.tries = @ + 1] \in Send
      BY DEF TypeOK, Send
    <3>2. sends' \subseteq Send
      BY <2>7, <3>1 DEF SendRetry, TypeOK
    <3>3. reached' \in [Channels -> SUBSET Event]
      BY <2>7, <3>1, PartsType DEF SendRetry, Arrives, TypeOK, Send
    <3> QED BY <2>7, <3>2, <3>3 DEF SendRetry, buffers, TypeOK
  <2>8. ASSUME NEW s \in sends, NEW part \in Parts(s), SendGivesUp(s, part) PROVE TypeOK'
    <3>1. s \in Send
      BY DEF TypeOK
    <3>2. /\ reached' \in [Channels -> SUBSET Event]
          /\ givenUp' \in [Channels -> SUBSET Digest]
      BY <2>8, <3>1, PartsType DEF SendGivesUp, Arrives, TypeOK, Send
    <3> QED BY <2>8, <3>2 DEF SendGivesUp, buffers, TypeOK
  <2>9. CASE UNCHANGED vars
    BY <2>9 DEF vars, history, TypeOK
  <2> QED BY <2>1, <2>2, <2>3, <2>4, <2>5, <2>6, <2>7, <2>8, <2>9 DEF Next, SendStep
<1> QED BY <1>1, <1>2, PTL DEF Spec

-----------------------------------------------------------------------------
(* Together with the types, Window is inductive.                            *)
LEMMA WindowHolds == Spec => []Window
<1>1. Init => Window
  BY DEF Init, Window
<1>2. TypeOK /\ TypeOK' /\ Window /\ [Next]_vars => Window'
  <2> SUFFICES ASSUME TypeOK, TypeOK', Window, [Next]_vars PROVE Window'
    OBVIOUS
  <2>1. ASSUME NEW kind \in Kinds, NEW m \in Modules, NEW f \in Findings, NEW sev \in Severities,
               Enqueue(kind, m, f, sev)
        PROVE  Window'
    <3> DEFINE e == [kind |-> kind, module |-> m, finding |-> f, severity |-> sev, n |-> accepted + 1]
    <3>1. Append(pending, e) \in Seq(Event) /\ Append(pending, e) # <<>>
      BY <2>1, AcceptedEvent DEF Enqueue
    <3>2. CASE FlushLocked(Append(pending, e))
      <4> HIDE DEF e
      <4> QED BY <3>1, <3>2, FlushEffect DEF Window
    <3>3. CASE /\ pending' = Append(pending, e) /\ seen' = seen \cup {Key(e)}
               /\ timer' = (IF timer = "none" THEN "armed" ELSE timer) /\ UNCHANGED sends
      <4> HIDE DEF e
      <4> QED BY <2>1, <3>1, <3>3 DEF Window, Enqueue
    <3> QED BY <2>1, <3>2, <3>3 DEF Enqueue
  <2>2. CASE TimerFires
    BY <2>2 DEF TimerFires, Window, TypeOK
  <2>3. CASE Flush \/ Close
    <3>1. pending' = <<>> /\ timer' = "none"
      BY <2>3, FlushEffect DEF Flush, Close, TypeOK
    <3> QED BY <3>1 DEF Window
  <2>4. CASE UNCHANGED <<pending, timer, late>>
    BY <2>4 DEF Window
  <2> QED BY <2>1, <2>2, <2>3, <2>4
          DEF Next, CloseReturns, SendStep, SendOk, SendRetry, SendGivesUp, buffers, vars
<1> QED BY <1>1, <1>2, TypeCorrect, PTL DEF Spec

(* Whatever windows full batches and stale flushes have ended, pending      *)
(* events always have a running timer or a Flush on its way.               *)
THEOREM FlushAlwaysComing == Spec => []FlushIsComing
<1>1. TypeOK /\ Window => FlushIsComing
  BY DEF TypeOK, Window, FlushIsComing
<1> QED BY <1>1, TypeCorrect, WindowHolds, PTL

(* The size of a window never reaches MaxBatch.                             *)
THEOREM BatchAlwaysBelowMax == Spec => []BatchBelowMax
<1>1. Init => BatchBelowMax
  BY ConfigAssumption DEF Init, BatchBelowMax
<1>2. TypeOK /\ BatchBelowMax /\ [Next]_vars => BatchBelowMax'
  <2> SUFFICES ASSUME TypeOK, BatchBelowMax, [Next]_vars PROVE BatchBelowMax'
    OBVIOUS
  <2> USE ConfigAssumption
  <2>1. ASSUME pending' = <<>> PROVE BatchBelowMax'
    BY <2>1 DEF BatchBelowMax
  <2>2. ASSUME NEW kind \in Kinds, NEW m \in Modules, NEW f \in Findings, NEW sev \in Severities,
               Enqueue(kind, m, f, sev)
        PROVE  BatchBelowMax'
    <3> DEFINE e == [kind |-> kind, module |-> m, finding |-> f, severity |-> sev, n |-> accepted + 1]
    <3>1. CASE FlushLocked(Append(pending, e))
      BY <2>1, <3>1 DEF FlushLocked
    <3>2. CASE ~Full(Len(pending) + 1) /\ pending' = Append(pending, e)
      <4> HIDE DEF e
      <4>1. Len(pending') = Len(pending) + 1 /\ Len(pending) \in Nat
        BY <3>2 DEF TypeOK
      <4> QED BY <3>2, <4>1 DEF Full, BatchBelowMax
    <3> QED BY <2>2, <3>1, <3>2 DEF Enqueue
  <2>3. CASE Flush \/ Close
    BY <2>1, <2>3 DEF Flush, Close, FlushLocked
  <2>4. CASE UNCHANGED pending
    BY <2>4 DEF BatchBelowMax
  <2> QED BY <2>2, <2>3, <2>4
          DEF Next, TimerFires, CloseReturns, SendStep, SendOk, SendRetry, SendGivesUp, buffers, vars
<1> QED BY <1>1, <1>2, TypeCorrect, PTL DEF Spec

(* What Enqueue suppresses as a duplicate is always in the window that is   *)
(* about to be sent.                                                       *)
THEOREM SeenAlwaysPending == Spec => []SeenIsPending
<1>1. Init => SeenIsPending
  BY DEF Init, SeenIsPending
<1>2. TypeOK /\ SeenIsPending /\ [Next]_vars => SeenIsPending'
  <2> SUFFICES ASSUME TypeOK, SeenIsPending, [Next]_vars PROVE SeenIsPending'
    OBVIOUS
  <2>1. ASSUME pending' = <<>>, seen' = {} PROVE SeenIsPending'
    BY <2>1 DEF SeenIsPending
  <2>2. pending = <<>> => seen = {}
    BY DEF SeenIsPending
  <2>3. ASSUME NEW kind \in Kinds, NEW m \in Modules, NEW f \in Findings, NEW sev \in Severities,
               Enqueue(kind, m, f, sev)
        PROVE  SeenIsPending'
    <3> DEFINE e == [kind |-> kind, module |-> m, finding |-> f, severity |-> sev, n |-> accepted + 1]
    <3>1. Append(pending, e) \in Seq(Event) /\ Append(pending, e) # <<>>
      BY <2>3, AcceptedEvent DEF Enqueue
    <3>2. CASE FlushLocked(Append(pending, e))
      <4> HIDE DEF e
      <4> QED BY <2>1, <3>1, <3>2 DEF FlushLocked
    <3>3. CASE pending' = Append(pending, e) /\ seen' = seen \cup {Key(e)}
      <4> HIDE DEF e
      <4>1. Len(pending') = Len(pending) + 1 /\ Len(pending) \in Nat /\ pending'[Len(pending) + 1] = e
        BY <3>1, <3>3 DEF TypeOK
      <4>2. \A i \in 1..Len(pending) : pending'[i] = pending[i]
        BY <3>1, <3>3 DEF TypeOK
      <4>3. 1..Len(pending') = 1..Len(pending) \cup {Len(pending) + 1}
        BY <4>1
      <4>4. {Key(pending'[i]) : i \in 1..Len(pending')}
              = {Key(pending[i]) : i \in 1..Len(pending)} \cup {Key(e)}
        BY <4>1, <4>2, <4>3
      <4> QED BY <3>3, <4>4 DEF SeenIsPending
    <3> QED BY <2>3, <3>2, <3>3 DEF Enqueue
  <2>4. CASE Flush \/ Close
    BY <2>1, <2>2, <2>4 DEF Flush, Close, FlushLocked
  <2>5. CASE UNCHANGED <<pending, seen>>
    BY <2>5 DEF SeenIsPending
  <2> QED BY <2>3, <2>4, <2>5
          DEF Next, TimerFires, CloseReturns, SendStep, SendOk, SendRetry, SendGivesUp, buffers, vars
<1> QED BY <1>1, <1>2, TypeCorrect, PTL DEF Spec

(* After Close nothing is pending, no window opens, and no send is started  *)
(* behind its back, also by a stale Flush.                                 *)
THEOREM CloseAlwaysFinal == Spec => []CloseIsFinal
<1>1. Init => CloseIsFinal
  BY DEF Init, CloseIsFinal, closed
<1>2. TypeOK /\ CloseIsFinal /\ [Next]_vars => CloseIsFinal'
  <2> SUFFICES ASSUME TypeOK, CloseIsFinal, [Next]_vars PROVE CloseIsFinal'
    OBVIOUS
  <2>1. ASSUME NEW kind \in Kinds, NEW m \in Modules, NEW f \in Findings, NEW sev \in Severities,
               Enqueue(kind, m, f, sev)
        PROVE  CloseIsFinal'
    BY <2>1 DEF Enqueue, Admits, CloseIsFinal, closed
  <2>2. CASE TimerFires
    BY <2>2 DEF TimerFires, CloseIsFinal, closed
  <2>3. CASE Flush
    <3>1. pending' = <<>> /\ timer' = "none" /\ (pending = <<>> => sends' = sends) /\ closer' = closer
      BY <2>3, FlushEffect DEF Flush, TypeOK
    <3> QED BY <3>1 DEF CloseIsFinal, closed
  <2>4. CASE Close
    <3>1. pending' = <<>> /\ timer' = "none" /\ closer' = "waiting"
      BY <2>4, FlushEffect DEF Close, TypeOK
    <3> QED BY <3>1 DEF CloseIsFinal, closed
  <2>5. CASE CloseReturns
    BY <2>5 DEF CloseReturns, CloseIsFinal, closed
  <2>6. ASSUME NEW ch \in Channels, SendStep(ch) PROVE CloseIsFinal'
    <3>1. sends # {} /\ UNCHANGED <<pending, timer, closer>>
      BY <2>6 DEF SendStep, SendOk, SendRetry, SendGivesUp, buffers
    <3> QED BY <3>1 DEF CloseIsFinal, closed
  <2>7. CASE UNCHANGED vars
    BY <2>7 DEF vars, CloseIsFinal, closed
  <2> QED BY <2>1, <2>2, <2>3, <2>4, <2>5, <2>6, <2>7 DEF Next
<1> QED BY <1>1, <1>2, TypeCorrect, PTL DEF Spec

-----------------------------------------------------------------------------
(* EachEventOnce, and what makes it inductive: the events of a queue are    *)
(* told apart by their numbers, and no number is above the last one given. *)
Carries(d, n) == \E e \in EventsOf(d) : e.n = n
Queued(queue, n) == \E i \in 1..Len(queue) : queue[i].n = n

Numbered(queue, last) ==
    /\ \A i \in 1..Len(queue) : queue[i].n <= last
    /\ \A i, j \in 1..Len(queue) : queue[i].n = queue[j].n => i = j
    /\ \A ch \in Channels : \A d \in Dispatched(ch) : \A n \in Nat : Carries(d, n) => n <= last

Once(queue, last) ==
    \A ch \in Channels, n \in 1..last :
        /\ Queued(queue, n) => \A d \in Dispatched(ch) : ~Carries(d, n)
        /\ ~Queued(queue, n) => \E d \in Dispatched(ch) : Carries(d, n) /\ \A x \in Dispatched(ch) : Carries(x, n) => x = d

(* The digests of a queue share its events out: each to one digest.         *)
LEMMA DigestsShareOut ==
    ASSUME NEW queue \in Seq(Event), NEW n \in Nat,
           \A i, j \in 1..Len(queue) : queue[i].n = queue[j].n => i = j
    PROVE  /\ Queued(queue, n) => \E d \in Digests(queue) : Carries(d, n) /\ \A x \in Digests(queue) : Carries(x, n) => x = d
           /\ ~Queued(queue, n) => \A d \in Digests(queue) : ~Carries(d, n)
<1>1. \A i \in 1..Len(queue) : queue[i] \in Event
  OBVIOUS
<1>2. \A m \in Modules : \A e : e \in EventsOf(DigestOf(m, queue)) => \E i \in 1..Len(queue) : e = queue[i] /\ e.module = m
  BY DEF DigestOf, EventsOf
<1>3. ASSUME NEW i \in 1..Len(queue) PROVE queue[i] \in EventsOf(DigestOf(queue[i].module, queue)) /\ queue[i].module \in Modules
  <2>1. queue[i].kind \in {"opened", "resolved"} /\ queue[i].module \in Modules
    BY <1>1 DEF Event, Kinds
  <2> QED BY <2>1 DEF DigestOf, EventsOf
<1>4. ASSUME Queued(queue, n)
      PROVE  \E d \in Digests(queue) : Carries(d, n) /\ \A x \in Digests(queue) : Carries(x, n) => x = d
  <2>1. PICK i \in 1..Len(queue) : queue[i].n = n
    BY <1>4 DEF Queued
  <2> DEFINE d == DigestOf(queue[i].module, queue)
  <2>2. d \in Digests(queue) /\ Carries(d, n)
    BY <1>3, <2>1 DEF Digests, Carries
  <2>3. ASSUME NEW x \in Digests(queue), Carries(x, n) PROVE x = d
    <3>1. PICK m \in Modules : x = DigestOf(m, queue)
      BY DEF Digests
    <3>2. PICK j \in 1..Len(queue) : queue[j].n = n /\ queue[j].module = m
      BY <1>2, <2>3, <3>1 DEF Carries
    <3> QED BY <2>1, <3>1, <3>2
  <2> QED BY <2>2, <2>3
<1>5. ASSUME ~Queued(queue, n), NEW d \in Digests(queue) PROVE ~Carries(d, n)
  BY <1>2, <1>5 DEF Digests, Carries, Queued
<1> QED BY <1>4, <1>5

(* What a flush adds to the digests of a channel.                           *)
LEMMA FlushDispatches ==
    ASSUME NEW queue, FlushLocked(queue), UNCHANGED <<acked, givenUp>>, NEW ch \in Channels
    PROVE  Dispatched(ch)' = Dispatched(ch) \cup Digests(queue)
<1>1. {s.digest : s \in {x \in sends' : x.channel = ch}}
        = {s.digest : s \in {x \in sends : x.channel = ch}} \cup Digests(queue)
  <2>1. sends' = sends \cup NewSends(queue)
    BY DEF FlushLocked
  <2>2. \A s \in NewSends(queue) : s.digest \in Digests(queue)
    BY DEF NewSends
  <2>3. \A d \in Digests(queue) : \E s \in NewSends(queue) : s.digest = d /\ s.channel = ch
    <3> SUFFICES ASSUME NEW d \in Digests(queue)
                 PROVE  \E s \in NewSends(queue) : s.digest = d /\ s.channel = ch
      OBVIOUS
    <3>1. [digest |-> d, channel |-> ch, tries |-> 0] \in NewSends(queue)
      BY DEF NewSends
    <3> QED BY <3>1
  <2> QED BY <2>1, <2>2, <2>3
<1> QED BY <1>1 DEF Dispatched

(* A flush moves each event of the window into one digest of each channel.  *)
LEMMA FlushKeepsOnce ==
    ASSUME NEW queue \in Seq(Event), NEW last \in Nat, Numbered(queue, last), Once(queue, last),
           FlushLocked(queue), UNCHANGED <<acked, givenUp>>, accepted' = last
    PROVE  (Numbered(pending, accepted) /\ Once(pending, accepted))'
<1>1. pending' = <<>>
  BY DEF FlushLocked
<1>2. \A n : ~Queued(pending', n)
  BY <1>1 DEF Queued
<1>3. \A i, j \in 1..Len(queue) : queue[i].n = queue[j].n => i = j
  BY DEF Numbered
<1>4. ASSUME NEW ch \in Channels, NEW n \in 1..last
      PROVE  \E d \in Dispatched(ch)' : Carries(d, n) /\ \A x \in Dispatched(ch)' : Carries(x, n) => x = d
  <2>1. Dispatched(ch)' = Dispatched(ch) \cup Digests(queue)
    BY FlushDispatches
  <2>2. /\ Queued(queue, n) => \E d \in Digests(queue) : Carries(d, n) /\ \A x \in Digests(queue) : Carries(x, n) => x = d
        /\ ~Queued(queue, n) => \A d \in Digests(queue) : ~Carries(d, n)
    BY <1>3, DigestsShareOut
  <2>3. /\ Queued(queue, n) => \A d \in Dispatched(ch) : ~Carries(d, n)
        /\ ~Queued(queue, n) => \E d \in Dispatched(ch) : Carries(d, n) /\ \A x \in Dispatched(ch) : Carries(x, n) => x = d
    BY DEF Once
  <2>4. CASE Queued(queue, n)
    BY <2>1, <2>2, <2>3, <2>4
  <2>5. CASE ~Queued(queue, n)
    BY <2>1, <2>2, <2>3, <2>5
  <2> QED BY <2>4, <2>5
<1>5. Once(pending, accepted)'
  BY <1>2, <1>4 DEF Once
<1>6. ASSUME NEW ch \in Channels, NEW d \in Dispatched(ch)', NEW n \in Nat, Carries(d, n) PROVE n <= last
  <2>1. d \in Dispatched(ch) \/ d \in Digests(queue)
    BY FlushDispatches
  <2>2. CASE d \in Dispatched(ch)
    BY <1>6, <2>2 DEF Numbered
  <2>3. CASE d \in Digests(queue)
    <3>1. PICK i \in 1..Len(queue) : queue[i].n = n
      BY <1>3, <1>6, <2>3, DigestsShareOut DEF Queued
    <3> QED BY <3>1 DEF Numbered
  <2> QED BY <2>1, <2>2, <2>3
<1>7. Numbered(pending, accepted)'
  BY <1>1, <1>6 DEF Numbered
<1> QED BY <1>5, <1>7

(* A new event, the next number, at the end of the queue.                   *)
LEMMA NextEventIsNew ==
    ASSUME TypeOK, Numbered(pending, accepted), Once(pending, accepted),
           NEW e \in Event, e.n = accepted + 1
    PROVE  Numbered(Append(pending, e), accepted + 1) /\ Once(Append(pending, e), accepted + 1)
<1> DEFINE queue == Append(pending, e)
<1>1. accepted \in Nat /\ pending \in Seq(Event) /\ Len(pending) \in Nat
  BY MaxEventsAssumption DEF TypeOK
<1>2. /\ Len(queue) = Len(pending) + 1 /\ queue[Len(pending) + 1] = e
      /\ \A i \in 1..Len(pending) : queue[i] = pending[i]
  BY <1>1
<1>3. 1..Len(queue) = 1..Len(pending) \cup {Len(pending) + 1}
  BY <1>1, <1>2
<1>4. \A i \in 1..Len(pending) : pending[i].n \in Nat /\ pending[i].n <= accepted
  <2>1. \A i \in 1..Len(pending) : pending[i] \in Event
    BY <1>1
  <2> QED BY <2>1, MaxEventsAssumption DEF Event, Numbered
<1> HIDE DEF queue
<1>5. Numbered(queue, accepted + 1)
  <2>1. \A i \in 1..Len(queue) : queue[i].n <= accepted + 1
    BY <1>1, <1>2, <1>3, <1>4
  <2>2. \A i, j \in 1..Len(queue) : queue[i].n = queue[j].n => i = j
    <3>1. \A i, j \in 1..Len(pending) : pending[i].n = pending[j].n => i = j
      BY DEF Numbered
    <3>2. \A i \in 1..Len(pending) : pending[i].n # e.n
      BY <1>1, <1>4
    <3> QED BY <1>2, <1>3, <3>1, <3>2
  <2>3. \A ch \in Channels : \A d \in Dispatched(ch) : \A n \in Nat : Carries(d, n) => n <= accepted + 1
    BY <1>1 DEF Numbered
  <2> QED BY <2>1, <2>2, <2>3 DEF Numbered
<1>6. ASSUME NEW ch \in Channels, NEW n \in 1..accepted + 1
      PROVE  /\ Queued(queue, n) => \A d \in Dispatched(ch) : ~Carries(d, n)
             /\ ~Queued(queue, n) => \E d \in Dispatched(ch) : Carries(d, n) /\ \A x \in Dispatched(ch) : Carries(x, n) => x = d
  <2>1. CASE n = accepted + 1
    <3>1. Queued(queue, n)
      BY <1>1, <1>2, <1>3, <2>1 DEF Queued
    <3>2. \A d \in Dispatched(ch) : ~Carries(d, n)
      BY <1>1, <2>1 DEF Numbered
    <3> QED BY <3>1, <3>2
  <2>2. CASE n # accepted + 1
    <3>1. n \in 1..accepted
      BY <1>1, <2>2
    <3>2. Queued(queue, n) <=> Queued(pending, n)
      BY <1>1, <1>2, <1>3, <2>2 DEF Queued
    <3> QED BY <3>1, <3>2 DEF Once
  <2> QED BY <2>1, <2>2
<1>7. Once(queue, accepted + 1)
  BY <1>6 DEF Once
<1> QED BY <1>5, <1>7 DEF queue

(* A send that ends, is tried again or is given up on keeps its digest.     *)
LEMMA SendStepKeepsDigests ==
    ASSUME TypeOK, NEW s \in sends, NEW part, SendOk(s) \/ SendRetry(s, part) \/ SendGivesUp(s, part),
           NEW ch \in Channels
    PROVE  Dispatched(ch)' = Dispatched(ch)
<1>1. s \in Send
  BY DEF TypeOK
<1>2. CASE SendOk(s)
  <2>1. acked'[ch] = IF ch = s.channel THEN acked[ch] \cup {s.digest} ELSE acked[ch]
    BY <1>1, <1>2 DEF SendOk, TypeOK, Send
  <2> QED BY <1>2, <2>1 DEF SendOk, Dispatched
<1>3. CASE SendGivesUp(s, part)
  <2>1. givenUp'[ch] = IF ch = s.channel THEN givenUp[ch] \cup {s.digest} ELSE givenUp[ch]
    BY <1>1, <1>3 DEF SendGivesUp, TypeOK, Send
  <2> QED BY <1>3, <2>1 DEF SendGivesUp, Dispatched
<1>4. CASE SendRetry(s, part)
  <2> DEFINE again == [s EXCEPT !.tries = @ + 1]
  <2>1. again.digest = s.digest /\ again.channel = s.channel
    BY <1>1 DEF Send
  <2>2. sends' = (sends \ {s}) \cup {again} /\ UNCHANGED <<acked, givenUp>>
    BY <1>4 DEF SendRetry
  <2> HIDE DEF again
  <2> QED BY <2>1, <2>2 DEF Dispatched
<1> QED BY <1>2, <1>3, <1>4

OnceInv == Numbered(pending, accepted) /\ Once(pending, accepted)

(* Each accepted event is pending or in one digest, at every moment.        *)
LEMMA OnceHolds == Spec => []OnceInv
<1>1. Init => OnceInv
  BY DEF Init, OnceInv, Numbered, Once, Dispatched, Queued
<1>2. TypeOK /\ OnceInv /\ [Next]_vars => OnceInv'
  <2> SUFFICES ASSUME TypeOK, OnceInv, [Next]_vars PROVE OnceInv'
    OBVIOUS
  <2>0. accepted \in Nat /\ pending \in Seq(Event)
    BY MaxEventsAssumption DEF TypeOK
  <2>1. ASSUME NEW kind \in Kinds, NEW m \in Modules, NEW f \in Findings, NEW sev \in Severities,
               Enqueue(kind, m, f, sev)
        PROVE  OnceInv'
    <3> DEFINE e == [kind |-> kind, module |-> m, finding |-> f, severity |-> sev, n |-> accepted + 1]
    <3>1. e \in Event /\ e.n = accepted + 1 /\ Append(pending, e) \in Seq(Event)
      BY <2>1, AcceptedEvent DEF Enqueue
    <3>2. accepted' = accepted + 1 /\ UNCHANGED <<acked, givenUp>>
      BY <2>1 DEF Enqueue, history
    <3>3. \/ FlushLocked(Append(pending, e))
          \/ pending' = Append(pending, e) /\ UNCHANGED sends
      BY <2>1 DEF Enqueue
    <3> HIDE DEF e
    <3>4. Numbered(Append(pending, e), accepted + 1) /\ Once(Append(pending, e), accepted + 1)
      BY <3>1, NextEventIsNew DEF OnceInv
    <3>5. CASE FlushLocked(Append(pending, e))
      <4>1. accepted + 1 \in Nat
        BY <2>0
      <4> QED BY <3>1, <3>2, <3>4, <3>5, <4>1, FlushKeepsOnce DEF OnceInv
    <3>6. CASE pending' = Append(pending, e) /\ UNCHANGED sends
      <4>1. \A ch \in Channels : Dispatched(ch)' = Dispatched(ch)
        BY <3>2, <3>6 DEF Dispatched
      <4> QED BY <3>2, <3>4, <3>6, <4>1 DEF OnceInv, Numbered, Once
    <3> QED BY <3>3, <3>5, <3>6
  <2>2. CASE Flush \/ Close
    <3>1. FlushLocked(pending) /\ accepted' = accepted /\ UNCHANGED <<acked, givenUp>>
      BY <2>2 DEF Flush, Close, history
    <3> QED BY <2>0, <3>1, FlushKeepsOnce DEF OnceInv
  <2>3. ASSUME NEW s \in sends, NEW part, SendOk(s) \/ SendRetry(s, part) \/ SendGivesUp(s, part) PROVE OnceInv'
    <3>1. \A ch \in Channels : Dispatched(ch)' = Dispatched(ch)
      BY <2>3, SendStepKeepsDigests
    <3>2. UNCHANGED <<pending, accepted>>
      BY <2>3 DEF SendOk, SendRetry, SendGivesUp, buffers
    <3> QED BY <3>1, <3>2 DEF OnceInv, Numbered, Once
  <2>4. CASE UNCHANGED <<accepted, pending, sends, acked, givenUp>>
    <3>1. \A ch \in Channels : Dispatched(ch)' = Dispatched(ch)
      BY <2>4 DEF Dispatched
    <3> QED BY <2>4, <3>1 DEF OnceInv, Numbered, Once
  <2>5. ASSUME NEW ch \in Channels, SendStep(ch) PROVE OnceInv'
    <3> QED BY <2>3, <2>5 DEF SendStep
  <2>6. CASE TimerFires \/ CloseReturns \/ UNCHANGED vars
    BY <2>4, <2>6 DEF TimerFires, CloseReturns, history, vars
  <2> QED BY <2>1, <2>2, <2>5, <2>6 DEF Next
<1> QED BY <1>1, <1>2, TypeCorrect, PTL DEF Spec

(* However full batches, timers, stale flushes and Close cut the stream of  *)
(* events, each event that is no longer pending is in exactly one digest of *)
(* every channel, and a pending one in none.                               *)
THEOREM EachEventAlwaysOnce == Spec => []EachEventOnce
<1>1. OnceInv => EachEventOnce
  <2> SUFFICES ASSUME OnceInv, NEW ch \in Channels, NEW n \in 1..accepted
               PROVE  LET holders == {d \in Dispatched(ch) : Carries(d, n)}
                      IN IF IsPending(n) THEN holders = {} ELSE \E d \in holders : holders = {d}
    BY DEF EachEventOnce, Carries
  <2> QED BY DEF OnceInv, Once, Queued, IsPending
<1> QED BY <1>1, OnceHolds, PTL

-----------------------------------------------------------------------------
(* The dispatcher is an Outbox.  For a send to settle what it carries, no   *)
(* other send may owe the channel the same, and for an event to be accepted *)
(* only once, nothing arrives that was not accepted.                        *)
SendsInOrder ==
    /\ \A s, t \in sends : s.channel = t.channel /\ s.digest = t.digest => s = t
    /\ \A s \in sends : EventsOf(s.digest) # {}
    /\ \A ch \in Channels : \A e \in reached[ch] : e.n <= accepted

(* The digests of a queue hold its events and no others.                    *)
LEMMA DigestsHoldQueue ==
    ASSUME NEW queue \in Seq(Event)
    PROVE  /\ \A i \in 1..Len(queue) : \E d \in Digests(queue) : queue[i] \in EventsOf(d)
           /\ \A d \in Digests(queue) : EventsOf(d) # {} /\
                 \A e \in EventsOf(d) : \E i \in 1..Len(queue) : e = queue[i]
<1>1. ASSUME NEW i \in 1..Len(queue) PROVE \E d \in Digests(queue) : queue[i] \in EventsOf(d)
  <2>1. queue[i] \in Event
    OBVIOUS
  <2>2. queue[i].kind \in {"opened", "resolved"} /\ queue[i].module \in Modules
    BY <2>1 DEF Event, Kinds
  <2>3. queue[i] \in EventsOf(DigestOf(queue[i].module, queue))
    BY <2>2 DEF DigestOf, EventsOf
  <2> QED BY <2>2, <2>3 DEF Digests
<1>2. ASSUME NEW d \in Digests(queue)
      PROVE  EventsOf(d) # {} /\ \A e \in EventsOf(d) : \E i \in 1..Len(queue) : e = queue[i]
  BY DEF Digests, DigestOf, EventsOf
<1> QED BY <1>1, <1>2

(* An event of a running send is an accepted one, of that send alone.       *)
LEMMA SendOwnsEvents ==
    ASSUME TypeOK, OnceInv, SendsInOrder, NEW s \in sends, NEW e \in EventsOf(s.digest)
    PROVE  /\ s.channel \in Channels /\ e \in Event /\ e.n <= accepted
           /\ \A i \in 1..Len(pending) : pending[i] # e
           /\ \A t \in sends : t.channel = s.channel /\ e \in EventsOf(t.digest) => t = s
<1>1. s \in Send /\ s.channel \in Channels /\ e \in Event /\ e.n \in 1..MaxEvents /\ accepted \in Nat
  BY MaxEventsAssumption DEF TypeOK, Send, Digest, EventsOf, Event
<1>2. s.digest \in Dispatched(s.channel) /\ Carries(s.digest, e.n)
  BY DEF Dispatched, Carries
<1>3. e.n \in 1..accepted
  BY <1>1, <1>2, MaxEventsAssumption DEF OnceInv, Numbered
<1>4. ~Queued(pending, e.n)
  BY <1>1, <1>2, <1>3 DEF OnceInv, Once
<1>5. ASSUME NEW t \in sends, t.channel = s.channel, e \in EventsOf(t.digest) PROVE t = s
  <2>1. t.digest \in Dispatched(s.channel) /\ Carries(t.digest, e.n)
    BY <1>5 DEF Dispatched, Carries
  <2>2. t.digest = s.digest
    BY <1>1, <1>2, <1>3, <1>4, <2>1 DEF OnceInv, Once
  <2> QED BY <1>5, <2>2 DEF SendsInOrder
<1> QED BY <1>1, <1>3, <1>4, <1>5 DEF Queued

(* The digests of a flush are new to every channel.                         *)
LEMMA FlushKeepsOrder ==
    ASSUME TypeOK, SendsInOrder, NEW queue \in Seq(Event), NEW last \in Nat, accepted <= last,
           Numbered(queue, last), Once(queue, last), FlushLocked(queue),
           reached' = reached, accepted' = last
    PROVE  SendsInOrder'
<1>1. sends' = sends \cup NewSends(queue)
  BY DEF FlushLocked
<1>2. ASSUME NEW s \in NewSends(queue), NEW t \in sends, s.channel = t.channel PROVE s.digest # t.digest
  <2>1. s.digest \in Digests(queue) /\ s.channel \in Channels /\ t.digest \in Dispatched(s.channel)
    BY <1>2 DEF NewSends, Dispatched
  <2>2. PICK i \in 1..Len(queue) : queue[i] \in EventsOf(s.digest)
    BY <2>1, DigestsHoldQueue
  <2>3. queue[i] \in Event /\ queue[i].n \in 1..last
    <3>1. queue[i] \in Event /\ queue[i].n <= last
      BY DEF Numbered
    <3> QED BY <3>1, MaxEventsAssumption DEF Event
  <2>4. Queued(queue, queue[i].n) /\ Carries(s.digest, queue[i].n)
    BY <2>2 DEF Queued, Carries
  <2>5. ~Carries(t.digest, queue[i].n)
    BY <2>1, <2>3, <2>4 DEF Once
  <2> QED BY <2>4, <2>5
<1>3. ASSUME NEW s \in NewSends(queue), NEW t \in NewSends(queue),
             s.channel = t.channel, s.digest = t.digest
      PROVE  s = t
  BY <1>3 DEF NewSends
<1>4. \A s \in NewSends(queue) : EventsOf(s.digest) # {}
  BY DigestsHoldQueue DEF NewSends
<1>5. ASSUME NEW ch \in Channels, NEW e \in reached'[ch] PROVE e.n <= accepted'
  <2>1. e \in Event /\ e.n <= accepted
    BY <1>5 DEF SendsInOrder, TypeOK
  <2>2. e.n \in Nat /\ accepted \in Nat
    BY <2>1, MaxEventsAssumption DEF Event, TypeOK
  <2> QED BY <2>1, <2>2
<1> QED BY <1>1, <1>2, <1>3, <1>4, <1>5 DEF SendsInOrder

(* A step of a send leaves the others as they are.                          *)
LEMMA SendKeepsOrder ==
    ASSUME TypeOK, OnceInv, SendsInOrder, NEW s \in sends, NEW part \in SUBSET EventsOf(s.digest),
           Arrives(s.channel, part), accepted' = accepted,
           \A x \in sends' : x \in sends \/ (x = [s EXCEPT !.tries = @ + 1] /\ s \notin sends')
    PROVE  SendsInOrder'
<1>1. s \in Send
  BY DEF TypeOK
<1>2. /\ [s EXCEPT !.tries = @ + 1].digest = s.digest
      /\ [s EXCEPT !.tries = @ + 1].channel = s.channel
  BY <1>1 DEF Send
<1>3. /\ \A x, y \in sends' : x.channel = y.channel /\ x.digest = y.digest => x = y
      /\ \A x \in sends' : EventsOf(x.digest) # {}
  <2> DEFINE again == [s EXCEPT !.tries = @ + 1]
  <2>1. again.digest = s.digest /\ again.channel = s.channel
    BY <1>2
  <2>2. \A x \in sends' : x \in sends \/ (x = again /\ s \notin sends')
    OBVIOUS
  <2> HIDE DEF again
  <2> QED BY <2>1, <2>2 DEF SendsInOrder
<1>4. ASSUME NEW ch \in Channels, NEW e \in reached'[ch] PROVE e.n <= accepted'
  <2>1. reached' = [reached EXCEPT ![s.channel] = reached[s.channel] \cup part]
    BY DEF Arrives
  <2>2. e \in reached[ch] \/ e \in EventsOf(s.digest)
    BY <1>4, <2>1 DEF TypeOK
  <2> QED BY <2>2, SendOwnsEvents DEF SendsInOrder
<1> QED BY <1>3, <1>4 DEF SendsInOrder

(* The sends are in order at every moment.                                  *)
LEMMA OrderHolds == Spec => []SendsInOrder
<1>1. Init => SendsInOrder
  BY DEF Init, SendsInOrder
<1>2. TypeOK /\ OnceInv /\ SendsInOrder /\ [Next]_vars => SendsInOrder'
  <2> SUFFICES ASSUME TypeOK, OnceInv, SendsInOrder, [Next]_vars PROVE SendsInOrder'
    OBVIOUS
  <2>0. accepted \in Nat /\ pending \in Seq(Event)
    BY MaxEventsAssumption DEF TypeOK
  <2>1. ASSUME NEW kind \in Kinds, NEW m \in Modules, NEW f \in Findings, NEW sev \in Severities,
               Enqueue(kind, m, f, sev)
        PROVE  SendsInOrder'
    <3> DEFINE e == [kind |-> kind, module |-> m, finding |-> f, severity |-> sev, n |-> accepted + 1]
    <3>1. e \in Event /\ e.n = accepted + 1 /\ Append(pending, e) \in Seq(Event)
      BY <2>1, AcceptedEvent DEF Enqueue
    <3>2. accepted' = accepted + 1 /\ accepted + 1 \in Nat /\ accepted <= accepted + 1 /\ reached' = reached
      BY <2>0, <2>1 DEF Enqueue, history
    <3>3. FlushLocked(Append(pending, e)) \/ sends' = sends
      BY <2>1 DEF Enqueue
    <3> HIDE DEF e
    <3>4. Numbered(Append(pending, e), accepted + 1) /\ Once(Append(pending, e), accepted + 1)
      BY <3>1, NextEventIsNew DEF OnceInv
    <3>5. CASE FlushLocked(Append(pending, e))
      BY <3>1, <3>2, <3>4, <3>5, FlushKeepsOrder
    <3>6. CASE sends' = sends
      <4>1. ASSUME NEW ch \in Channels, NEW x \in reached[ch] PROVE x.n <= accepted + 1
        <5>1. x.n \in Nat /\ x.n <= accepted
          BY <4>1, MaxEventsAssumption DEF SendsInOrder, TypeOK, Event
        <5> QED BY <2>0, <5>1
      <4> QED BY <3>2, <3>6, <4>1 DEF SendsInOrder
    <3> QED BY <3>3, <3>5, <3>6
  <2>2. CASE Flush \/ Close
    <3>1. FlushLocked(pending) /\ accepted' = accepted /\ reached' = reached
      BY <2>2 DEF Flush, Close, history
    <3> QED BY <2>0, <3>1, FlushKeepsOrder DEF OnceInv
  <2>3. ASSUME NEW s \in sends, SendOk(s) PROVE SendsInOrder'
    BY <2>3, SendKeepsOrder DEF SendOk, buffers
  <2>4. ASSUME NEW s \in sends, NEW part \in Parts(s), SendRetry(s, part) \/ SendGivesUp(s, part)
        PROVE  SendsInOrder'
    <3>1. part \in SUBSET EventsOf(s.digest) /\ Arrives(s.channel, part) /\ accepted' = accepted
      BY <2>4 DEF Parts, Prefixes, AllOrNothing, SendRetry, SendGivesUp, buffers
    <3> DEFINE again == [s EXCEPT !.tries = @ + 1]
    <3>2. s \in Send /\ again # s
      BY DEF TypeOK, Send
    <3>3. sends' = (sends \ {s}) \cup {again} \/ sends' = sends \ {s}
      BY <2>4 DEF SendRetry, SendGivesUp
    <3>4. \A x \in sends' : x \in sends \/ (x = again /\ s \notin sends')
      <4> HIDE DEF again
      <4> QED BY <3>2, <3>3
    <3> QED BY <3>1, <3>4, SendKeepsOrder
  <2>5. CASE UNCHANGED <<accepted, sends, reached>>
    BY <2>5 DEF SendsInOrder
  <2> QED BY <2>1, <2>2, <2>3, <2>4, <2>5 DEF Next, SendStep, TimerFires, CloseReturns, history, vars
<1> QED BY <1>1, <1>2, TypeCorrect, OnceHolds, PTL DEF Spec

-----------------------------------------------------------------------------
(* The state of the Outbox, read off the dispatcher's.                      *)
InQueue == {pending[i] : i \in 1..Len(pending)}
InSends(ch) == UNION {EventsOf(s.digest) : s \in {x \in sends : x.channel = ch}}
Waiting == [ch \in Channels |-> InQueue \cup InSends(ch)]
Lost == [ch \in Channels |-> UNION {EventsOf(d) : d \in givenUp[ch]}]

(* A flush moves the events of its queue to the sends of every channel.     *)
LEMMA FlushMoves ==
    ASSUME NEW queue \in Seq(Event), FlushLocked(queue), NEW ch \in Channels
    PROVE  InQueue' \cup InSends(ch)' = {queue[i] : i \in 1..Len(queue)} \cup InSends(ch)
<1>1. InQueue' = {} /\ sends' = sends \cup NewSends(queue)
  BY DEF FlushLocked, InQueue
<1>2. ASSUME NEW e PROVE e \in InSends(ch)' <=> e \in InSends(ch) \/ \E d \in Digests(queue) : e \in EventsOf(d)
  <2>1. \A s \in NewSends(queue) : s.digest \in Digests(queue)
    BY DEF NewSends
  <2>2. ASSUME NEW d \in Digests(queue)
        PROVE  \E s \in NewSends(queue) : s.digest = d /\ s.channel = ch
    <3>1. [digest |-> d, channel |-> ch, tries |-> 0] \in NewSends(queue)
      BY DEF NewSends
    <3> QED BY <3>1
  <2> QED BY <1>1, <2>1, <2>2 DEF InSends
<1>3. \A e : (\E d \in Digests(queue) : e \in EventsOf(d)) <=> \E i \in 1..Len(queue) : e = queue[i]
  BY DigestsHoldQueue
<1> QED BY <1>1, <1>2, <1>3

(* A send that is done no longer owes its events; nothing else owes them.   *)
LEMMA SendSettles ==
    ASSUME TypeOK, OnceInv, SendsInOrder, NEW s \in sends, sends' = sends \ {s}, pending' = pending
    PROVE  /\ Waiting' = [Waiting EXCEPT ![s.channel] = @ \ EventsOf(s.digest)]
           /\ s.channel \in Channels /\ EventsOf(s.digest) \in SUBSET Waiting[s.channel]
           /\ EventsOf(s.digest) # {}
<1>1. s.channel \in Channels /\ EventsOf(s.digest) # {}
  BY DEF TypeOK, Send, SendsInOrder
<1>2. EventsOf(s.digest) \subseteq InSends(s.channel)
  BY DEF InSends
<1>3. InQueue' = InQueue
  BY DEF InQueue
<1>4. ASSUME NEW ch \in Channels, ch # s.channel PROVE InSends(ch)' = InSends(ch)
  BY <1>4 DEF InSends
<1>5. InQueue \cup InSends(s.channel)' = (InQueue \cup InSends(s.channel)) \ EventsOf(s.digest)
  <2>1. \A e \in EventsOf(s.digest) : e \notin InQueue /\
            \A t \in sends : t.channel = s.channel /\ e \in EventsOf(t.digest) => t = s
    BY SendOwnsEvents DEF InQueue
  <2> QED BY <2>1 DEF InSends
<1> QED BY <1>1, <1>2, <1>3, <1>4, <1>5 DEF Waiting

(* Every step of the dispatcher is one of the outbox or none.               *)
LEMMA StepIsABoxStep ==
    ASSUME TypeOK, OnceInv, SendsInOrder, [Next]_vars
    PROVE  Box!Next \/ UNCHANGED <<Waiting, reached, Lost>>
<1>0. accepted \in Nat /\ pending \in Seq(Event)
  BY MaxEventsAssumption DEF TypeOK
<1>1. ASSUME NEW kind \in Kinds, NEW m \in Modules, NEW f \in Findings, NEW sev \in Severities,
             Enqueue(kind, m, f, sev)
      PROVE  \E e \in Event : Box!Accept(e)
  <2> DEFINE e == [kind |-> kind, module |-> m, finding |-> f, severity |-> sev, n |-> accepted + 1]
  <2>1. e \in Event /\ e.n = accepted + 1 /\ Append(pending, e) \in Seq(Event)
    BY <1>1, AcceptedEvent DEF Enqueue
  <2>2. reached' = reached /\ givenUp' = givenUp
    BY <1>1 DEF Enqueue, history
  <2>3. \/ FlushLocked(Append(pending, e))
        \/ pending' = Append(pending, e) /\ sends' = sends
    BY <1>1 DEF Enqueue
  <2> HIDE DEF e
  <2>4. {Append(pending, e)[i] : i \in 1..Len(Append(pending, e))} = InQueue \cup {e}
    <3>1. /\ Len(pending) \in Nat /\ Len(Append(pending, e)) = Len(pending) + 1
          /\ Append(pending, e)[Len(pending) + 1] = e
          /\ \A i \in 1..Len(pending) : Append(pending, e)[i] = pending[i]
      BY <1>0, <2>1
    <3>2. 1..Len(Append(pending, e)) = 1..Len(pending) \cup {Len(pending) + 1}
      BY <3>1
    <3> QED BY <3>1, <3>2 DEF InQueue
  <2>5. \A ch \in Channels : InQueue' \cup InSends(ch)' = (InQueue \cup InSends(ch)) \cup {e}
    <3>1. CASE FlushLocked(Append(pending, e))
      <4>1. \A ch \in Channels : InQueue' \cup InSends(ch)'
               = {Append(pending, e)[i] : i \in 1..Len(Append(pending, e))} \cup InSends(ch)
        BY <2>1, <3>1, FlushMoves
      <4> QED BY <2>4, <4>1
    <3>2. CASE pending' = Append(pending, e) /\ sends' = sends
      <4>1. InQueue' = InQueue \cup {e} /\ \A ch \in Channels : InSends(ch)' = InSends(ch)
        BY <2>4, <3>2 DEF InQueue, InSends
      <4> QED BY <4>1
    <3> QED BY <2>3, <3>1, <3>2
  <2>6. Waiting' = [ch \in Channels |-> Waiting[ch] \cup {e}] /\ Lost' = Lost
    BY <2>2, <2>5 DEF Waiting, Lost
  <2>7. ASSUME NEW ch \in Channels PROVE e \notin Waiting[ch] \cup reached[ch] \cup Lost[ch]
    <3>1. ASSUME e \in InQueue PROVE FALSE
      BY <1>0, <2>1, <3>1 DEF InQueue, OnceInv, Numbered
    <3>2. ASSUME NEW d \in Dispatched(ch), e \in EventsOf(d) PROVE FALSE
      BY <1>0, <2>1, <3>2 DEF OnceInv, Numbered, Carries
    <3>3. ASSUME e \in InSends(ch) PROVE FALSE
      BY <3>2, <3>3 DEF InSends, Dispatched
    <3>4. ASSUME e \in reached[ch] PROVE FALSE
      BY <1>0, <2>1, <3>4 DEF SendsInOrder
    <3>5. ASSUME e \in Lost[ch] PROVE FALSE
      BY <3>2, <3>5 DEF Lost, Dispatched
    <3> QED BY <3>1, <3>3, <3>4, <3>5 DEF Waiting
  <2> QED BY <2>1, <2>2, <2>6, <2>7 DEF Box!Accept, Waiting, Lost, InQueue, InSends
<1>2. ASSUME Flush \/ Close PROVE UNCHANGED <<Waiting, reached, Lost>>
  <2>1. FlushLocked(pending) /\ reached' = reached /\ givenUp' = givenUp
    BY <1>2 DEF Flush, Close, history
  <2>2. \A ch \in Channels : InQueue' \cup InSends(ch)' = InQueue \cup InSends(ch)
    BY <1>0, <2>1, FlushMoves DEF InQueue
  <2> QED BY <2>1, <2>2 DEF Waiting, Lost
<1>3. ASSUME NEW s \in sends, SendOk(s)
      PROVE  Box!Settle(s.channel, EventsOf(s.digest))
  <2>1. Waiting' = [Waiting EXCEPT ![s.channel] = Waiting[s.channel] \ EventsOf(s.digest)]
    BY <1>3, SendSettles DEF SendOk, buffers
  <2>2. reached' = [reached EXCEPT ![s.channel] = reached[s.channel] \cup EventsOf(s.digest)]
    BY <1>3 DEF SendOk, Arrives
  <2>3. Lost' = Lost
    BY <1>3 DEF SendOk, Lost
  <2> QED BY <2>1, <2>2, <2>3 DEF Box!Settle, Waiting, Lost, InQueue, InSends
<1>4. ASSUME NEW s \in sends, NEW part \in Parts(s), SendGivesUp(s, part)
      PROVE  Box!Settle(s.channel, EventsOf(s.digest))
  <2>1. Waiting' = [Waiting EXCEPT ![s.channel] = Waiting[s.channel] \ EventsOf(s.digest)]
    BY <1>4, SendSettles DEF SendGivesUp, buffers
  <2>2. reached' = [reached EXCEPT ![s.channel] = reached[s.channel] \cup part]
    BY <1>4 DEF SendGivesUp, Arrives
  <2>3. part \in SUBSET EventsOf(s.digest)
    BY DEF Parts, Prefixes, AllOrNothing
  <2>4. givenUp' = [givenUp EXCEPT ![s.channel] = givenUp[s.channel] \cup {s.digest}]
    BY <1>4 DEF SendGivesUp
  <2>5. Lost' = [Lost EXCEPT ![s.channel] = Lost[s.channel] \cup EventsOf(s.digest)]
    <3>1. ASSUME NEW ch \in Channels
          PROVE  Lost'[ch] = IF ch = s.channel THEN Lost[ch] \cup EventsOf(s.digest) ELSE Lost[ch]
      <4>1. givenUp'[ch] = IF ch = s.channel THEN givenUp[ch] \cup {s.digest} ELSE givenUp[ch]
        BY <2>4 DEF TypeOK
      <4> QED BY <4>1 DEF Lost
    <3> QED BY <3>1 DEF Lost
  <2> QED BY <2>1, <2>2, <2>3, <2>5 DEF Box!Settle, Waiting, Lost, InQueue, InSends
<1>5. ASSUME NEW s \in sends, NEW part \in Parts(s), SendRetry(s, part)
      PROVE  /\ UNCHANGED <<Waiting, Lost>> /\ part \in SUBSET Waiting[s.channel]
             /\ s.channel \in Channels /\ Arrives(s.channel, part)
  <2> DEFINE again == [s EXCEPT !.tries = @ + 1]
  <2>1. s \in Send /\ again.digest = s.digest /\ again.channel = s.channel
    BY DEF TypeOK, Send
  <2>2. /\ sends' = (sends \ {s}) \cup {again} /\ Arrives(s.channel, part)
        /\ pending' = pending /\ givenUp' = givenUp
    BY <1>5 DEF SendRetry, buffers
  <2> HIDE DEF again
  <2>3. InQueue' = InQueue /\ \A ch \in Channels : InSends(ch)' = InSends(ch)
    BY <2>1, <2>2 DEF InQueue, InSends
  <2>4. part \subseteq EventsOf(s.digest) /\ s.channel \in Channels
    BY <2>1 DEF Parts, Prefixes, AllOrNothing, Send
  <2>5. EventsOf(s.digest) \subseteq InSends(s.channel)
    BY DEF InSends
  <2> QED BY <2>2, <2>3, <2>4, <2>5 DEF Waiting, Lost
<1>6. ASSUME NEW ch \in Channels, SendStep(ch) PROVE Box!Next \/ UNCHANGED <<Waiting, reached, Lost>>
  <2>1. PICK s \in sends : SendOk(s) \/ \E part \in Parts(s) : SendRetry(s, part) \/ SendGivesUp(s, part)
    BY <1>6 DEF SendStep
  <2>2. CASE \E part \in Parts(s) : SendRetry(s, part)
    <3>1. PICK part \in Parts(s) : SendRetry(s, part)
      BY <2>2
    <3>2. /\ UNCHANGED <<Waiting, Lost>> /\ part \in SUBSET Waiting[s.channel]
          /\ s.channel \in Channels /\ reached' = [reached EXCEPT ![s.channel] = reached[s.channel] \cup part]
      BY <1>5, <3>1 DEF Arrives
    <3>3. CASE part = {}
      BY <3>2, <3>3 DEF TypeOK
    <3>4. CASE part # {}
      <4>1. Box!Arrive(s.channel, part)
        BY <3>2 DEF Box!Arrive, Waiting, Lost, InQueue, InSends
      <4> QED BY <3>2, <3>4, <4>1 DEF Box!Next, Waiting, InQueue, InSends
    <3> QED BY <3>3, <3>4
  <2>3. CASE SendOk(s) \/ \E part \in Parts(s) : SendGivesUp(s, part)
    <3>1. Box!Settle(s.channel, EventsOf(s.digest))
      BY <1>3, <1>4, <2>3
    <3>2. s.channel \in Channels /\ EventsOf(s.digest) \in SUBSET Waiting[s.channel] /\ EventsOf(s.digest) # {}
      BY <2>3, SendSettles DEF SendOk, SendGivesUp, buffers
    <3> QED BY <3>1, <3>2 DEF Box!Next, Waiting, InQueue, InSends
  <2> QED BY <2>1, <2>2, <2>3
<1>7. ASSUME TimerFires \/ CloseReturns \/ UNCHANGED vars PROVE UNCHANGED <<Waiting, reached, Lost>>
  BY <1>7 DEF TimerFires, CloseReturns, history, vars, Waiting, Lost, InQueue, InSends
<1>8. (\E e \in Event : Box!Accept(e)) => Box!Next
  BY DEF Box!Next
<1> QED BY <1>1, <1>2, <1>6, <1>7, <1>8 DEF Next

(* What a notifier owes its channels: an accepted event is owed to every    *)
(* channel until it reached it whole or was given up on there; however      *)
(* windows, retries and Close fall, none disappears and none is accepted    *)
(* twice.                                                                   *)
THEOREM DispatcherIsAnOutbox == Spec => BoxSpec
<1>1. Init => Box!Init
  <2> SUFFICES ASSUME Init PROVE Box!Init
    OBVIOUS
  <2>1. Waiting = [ch \in Channels |-> {}] /\ Lost = Waiting /\ reached = Waiting
    BY DEF Init, Waiting, Lost, InQueue, InSends
  <2> QED BY <2>1 DEF Box!Init, Waiting, Lost, InQueue, InSends
<1>2. TypeOK /\ OnceInv /\ SendsInOrder /\ [Next]_vars => [Box!Next]_(Box!boxVars)
  BY StepIsABoxStep DEF Box!boxVars, Waiting, Lost, InQueue, InSends
<1> QED BY <1>1, <1>2, TypeCorrect, OnceHolds, OrderHolds, PTL DEF Spec, BoxSpec, Box!Spec
=============================================================================
