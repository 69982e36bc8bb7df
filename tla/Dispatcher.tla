----------------------------- MODULE Dispatcher -----------------------------
(***************************************************************************)
(* The notification dispatcher (notify/notify.go): events are gathered in  *)
(* a window, deduplicated, flushed as one digest per module and sent to    *)
(* every channel with retries.  Everything under d.mu is one step; the     *)
(* window timer, the flush it starts, each send and Close's wait are       *)
(* goroutines of their own.                                                *)
(***************************************************************************)
EXTENDS Integers, Sequences

CONSTANTS Modules, Findings, Channels,
          LineChannels,   \* those that write one line per event (syslog); others post a digest whole
          Severities,     \* ranks of severityRank, 0 (info, unknown) .. 4 (critical)
          MinSeverity,    \* rank of Config.MinSeverity, 0 when empty
          MaxBatch, Retries,
          MaxEvents       \* bound on the number of events accepted

ASSUME RanksAssumption == Severities \subseteq 0..4 /\ MinSeverity \in 0..4
ASSUME ConfigAssumption == MaxBatch \in Nat \ {0} /\ Retries \in Nat \ {0}
ASSUME LineChannelsAssumption == LineChannels \subseteq Channels
ASSUME MaxEventsAssumption == MaxEvents \in Nat

VARIABLES accepted,       \* events let in so far (history: numbers them)
          pending,        \* d.pending, in order of arrival
          seen,           \* d.seen: keys of the current window
          timer,          \* d.timer: "none" is nil, "fired" is set but run out
          late,           \* Flush goroutines a timer started that wait for d.mu
          closer,         \* Close: not called, waiting for the sends, returned
          sends,          \* sendWithRetry goroutines
          acked,          \* digests a channel took without an error (history)
          reached,        \* events that arrived at a channel (history)
          givenUp         \* digests whose retries ran out (history)

vars == <<accepted, pending, seen, timer, late, closer, sends, acked, reached, givenUp>>
history == <<acked, reached, givenUp>>

Kinds == {"opened", "resolved"}
Event == [kind : Kinds, module : Modules, finding : Findings, severity : Severities, n : 1..MaxEvents]
Digest == [module : Modules, opened : SUBSET Event, resolved : SUBSET Event]
Send == [digest : Digest, channel : Channels, tries : Nat]

Key(e) == <<e.kind, e.module, e.finding>>
EventsOf(d) == d.opened \cup d.resolved
closed == closer # "open"

Init == /\ accepted = 0 /\ pending = <<>> /\ seen = {}
        /\ timer = "none" /\ late = 0 /\ closer = "open"
        /\ sends = {}
        /\ acked = [ch \in Channels |-> {}] /\ reached = acked /\ givenUp = acked

PassesSeverity(e) == e.severity >= MinSeverity

(* Mutant: Enqueue forgets to look at d.closed.                             *)
AdmitsWhenClosed(key) == key \notin seen

Admits(key) == ~closed /\ key \notin seen

Full(total) == total >= MaxBatch

-----------------------------------------------------------------------------
(* One digest per module.  The opened ones are sent most severe first and   *)
(* in order of arrival, which their severity and number determine.         *)
DigestOf(m, queue) ==
    LET of(kind) == {queue[i] : i \in {j \in 1..Len(queue) : queue[j].module = m /\ queue[j].kind = kind}}
    IN [module |-> m, opened |-> of("opened"), resolved |-> of("resolved")]

Digests(queue) == {d \in {DigestOf(m, queue) : m \in Modules} : EventsOf(d) # {}}

NewSends(queue) == [digest : Digests(queue), channel : Channels, tries : {0}]

(* Mutants: flushLocked without d.timer = nil, without a new d.seen, and    *)
(* without a new d.pending.                                                *)
FlushKeepsTimer(queue) ==
    timer' = timer /\ pending' = <<>> /\ seen' = {} /\ sends' = sends \cup NewSends(queue)
FlushKeepsSeen(queue) ==
    timer' = "none" /\ pending' = <<>> /\ seen' = seen /\ sends' = sends \cup NewSends(queue)
FlushKeepsPending(queue) ==
    timer' = "none" /\ pending' = queue /\ seen' = {} /\ sends' = sends \cup NewSends(queue)

(* flushLocked on the events in queue: an empty one only stops the timer.   *)
FlushLocked(queue) ==
    /\ timer' = "none"
    /\ pending' = <<>>
    /\ seen' = IF queue = <<>> THEN seen ELSE {}
    /\ sends' = sends \cup NewSends(queue)

(* Enqueue: events below MinSeverity, after Close, or already in the window *)
(* are dropped without a trace.                                            *)
Enqueue(kind, m, f, sev) ==
    LET e == [kind |-> kind, module |-> m, finding |-> f, severity |-> sev, n |-> accepted + 1]
    IN /\ accepted < MaxEvents
       /\ kind = "opened" => PassesSeverity(e)
       /\ Admits(Key(e))
       /\ accepted' = accepted + 1
       /\ \/ /\ Full(Len(pending) + 1)
             /\ FlushLocked(Append(pending, e))
          \/ /\ ~Full(Len(pending) + 1)
             /\ pending' = Append(pending, e)
             /\ seen' = seen \cup {Key(e)}
             /\ timer' = IF timer = "none" THEN "armed" ELSE timer
             /\ UNCHANGED sends
       /\ UNCHANGED <<late, closer, history>>

(* The window ends: the runtime starts d.Flush, d.timer stays set.          *)
TimerFires ==
    /\ timer = "armed"
    /\ timer' = "fired"
    /\ late' = late + 1
    /\ UNCHANGED <<accepted, pending, seen, closer, sends, history>>

(* Mutant: a stopped timer runs its function all the same.                  *)
FlushAfterStop ==
    /\ late' = late - 1
    /\ FlushLocked(pending)
    /\ UNCHANGED <<accepted, closer, history>>

(* That Flush gets the lock, possibly after another flush took its events   *)
(* and a new window has begun.                                             *)
Flush ==
    /\ late > 0
    /\ late' = late - 1
    /\ FlushLocked(pending)
    /\ UNCHANGED <<accepted, closer, history>>

(* Close: one last flush, no event from here on, then wait for the sends.   *)
Close ==
    /\ closer = "open"
    /\ closer' = "waiting"
    /\ FlushLocked(pending)
    /\ UNCHANGED <<accepted, late, history>>

CloseReturns ==
    /\ closer = "waiting"
    /\ sends = {}
    /\ closer' = "done"
    /\ UNCHANGED <<accepted, pending, seen, timer, late, sends, history>>

-----------------------------------------------------------------------------
(* sendWithRetry, one attempt per step.                                     *)

(* The order of a digest: what opened, most severe first, then what closed. *)
Before(d, e, f) ==
    IF e \in d.opened /\ f \in d.opened
    THEN e.severity > f.severity \/ (e.severity = f.severity /\ e.n < f.n)
    ELSE e \in d.opened \/ (f \notin d.opened /\ e.n < f.n)

(* A line at a time: the write may fail after any of them.                  *)
Prefixes(d) == {part \in SUBSET EventsOf(d) : \A e \in EventsOf(d), f \in part : Before(d, e, f) => e \in part}

(* One POST: it arrived, and its answer was lost or an error, or it did not.*)
AllOrNothing(d) == {{}, EventsOf(d)}

(* What may have arrived of an attempt that failed.                         *)
Parts(s) == IF s.channel \in LineChannels THEN Prefixes(s.digest) ELSE AllOrNothing(s.digest)

Arrives(ch, part) == reached' = [reached EXCEPT ![ch] = @ \cup part]
buffers == <<accepted, pending, seen, timer, late, closer>>

(* ch.Send returns nil.                                                     *)
SendOk(s) ==
    /\ Arrives(s.channel, EventsOf(s.digest))
    /\ acked' = [acked EXCEPT ![s.channel] = @ \cup {s.digest}]
    /\ sends' = sends \ {s}
    /\ UNCHANGED <<buffers, givenUp>>

(* Mutant: after the last attempt the count begins anew.                    *)
SendRetriesForever(s, part) ==
    /\ Arrives(s.channel, part)
    /\ sends' = (sends \ {s}) \cup {[s EXCEPT !.tries = (@ + 1) % Retries]}
    /\ UNCHANGED <<buffers, acked, givenUp>>

(* It fails, part of the digest having arrived, and an attempt is left: the *)
(* next one sends everything again.                                        *)
SendRetry(s, part) ==
    /\ s.tries + 1 < Retries
    /\ Arrives(s.channel, part)
    /\ sends' = (sends \ {s}) \cup {[s EXCEPT !.tries = @ + 1]}
    /\ UNCHANGED <<buffers, acked, givenUp>>

(* Mutant: the loop ends without OnSendError.                               *)
SendVanishes(s, part) ==
    /\ s.tries + 1 >= Retries
    /\ Arrives(s.channel, part)
    /\ sends' = sends \ {s}
    /\ UNCHANGED <<buffers, acked, givenUp>>

(* It fails for the last time: OnSendError, if set, and no further trace.   *)
SendGivesUp(s, part) ==
    /\ s.tries + 1 >= Retries
    /\ Arrives(s.channel, part)
    /\ givenUp' = [givenUp EXCEPT ![s.channel] = @ \cup {s.digest}]
    /\ sends' = sends \ {s}
    /\ UNCHANGED <<buffers, acked>>

SendStep(ch) ==
    \E s \in sends :
        /\ s.channel = ch
        /\ SendOk(s) \/ \E part \in Parts(s) : SendRetry(s, part) \/ SendGivesUp(s, part)

Next ==
    \/ \E kind \in Kinds, m \in Modules, f \in Findings, sev \in Severities : Enqueue(kind, m, f, sev)
    \/ TimerFires \/ Flush \/ Close \/ CloseReturns
    \/ \E ch \in Channels : SendStep(ch)

Spec == Init /\ [][Next]_vars

(* The runtime runs expired timers and started goroutines, and Send returns *)
(* because its context times out after 15 s.  Nothing obliges anybody to   *)
(* enqueue or to close.                                                    *)
Fairness == /\ WF_vars(TimerFires) /\ WF_vars(Flush) /\ WF_vars(CloseReturns)
            /\ \A ch \in Channels : WF_vars(SendStep(ch))

FairSpec == Spec /\ Fairness

-----------------------------------------------------------------------------
TypeOK ==
    /\ accepted \in 0..MaxEvents
    /\ pending \in Seq(Event)
    /\ seen \subseteq Kinds \X Modules \X Findings
    /\ timer \in {"none", "armed", "fired"}
    /\ late \in Nat
    /\ closer \in {"open", "waiting", "done"}
    /\ sends \subseteq Send
    /\ acked \in [Channels -> SUBSET Digest]
    /\ reached \in [Channels -> SUBSET Event]
    /\ givenUp \in [Channels -> SUBSET Digest]

(* While events are pending, a timer runs or a Flush it started is on its   *)
(* way to the lock: no window is left without an end, also when a stale    *)
(* Flush or a full batch took an earlier window.                           *)
FlushIsComing == pending # <<>> => timer = "armed" \/ late > 0

(* Enqueue flushes at MaxBatch, so a window never holds that many.          *)
BatchBelowMax == Len(pending) < MaxBatch

(* The dedup set is that of the current window: what it suppresses is about *)
(* to be sent, and a new window starts with nothing suppressed.            *)
SeenIsPending == seen = {Key(pending[i]) : i \in 1..Len(pending)}

(* Digests a channel was or is being sent.                                  *)
Dispatched(ch) ==
    {s.digest : s \in {x \in sends : x.channel = ch}} \cup acked[ch] \cup givenUp[ch]

IsPending(n) == \E i \in 1..Len(pending) : pending[i].n = n

(* Every accepted event is pending, or in exactly one digest of every       *)
(* channel; never in both, never in none.                                  *)
EachEventOnce ==
    \A ch \in Channels, n \in 1..accepted :
        LET holders == {d \in Dispatched(ch) : \E e \in EventsOf(d) : e.n = n}
        IN IF IsPending(n) THEN holders = {} ELSE \E d \in holders : holders = {d}

(* After Close nothing is pending and no window opens; when it has returned *)
(* no send runs.                                                           *)
CloseIsFinal ==
    /\ closed => pending = <<>> /\ timer = "none"
    /\ closer = "done" => sends = {}

(* The dispatcher is an outbox: waiting are the pending events and those of *)
(* the running sends.                                                      *)
Box == INSTANCE Outbox WITH
    Events <- Event,
    waiting <- [ch \in Channels |-> {pending[i] : i \in 1..Len(pending)} \cup
                    UNION {EventsOf(s.digest) : s \in {x \in sends : x.channel = ch}}],
    reached <- reached,
    lost <- [ch \in Channels |-> UNION {EventsOf(d) : d \in givenUp[ch]}]
BoxSpec == Box!Spec

(* Every accepted event is taken by every channel or is given up on it,     *)
(* with nobody's help: no later event and no Close is needed.              *)
Settled(n) ==
    \A ch \in Channels : \E d \in acked[ch] \cup givenUp[ch] : \E e \in EventsOf(d) : e.n = n

EverythingSettles == \A n \in 1..MaxEvents : (accepted >= n) ~> Settled(n)

(* Close returns: the sends it waits for end, and no new ones start.        *)
CloseEnds == (closer = "waiting") ~> (closer = "done")
=============================================================================
