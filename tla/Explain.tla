------------------------------- MODULE Explain -------------------------------
(***************************************************************************)
(* "Explain this finding": the handler (web/ai.go) and the client it calls *)
(* (internal/aiclient/client.go), attempt by attempt.  Requests share      *)
(* nothing they write, so one request is modelled; what happens around it  *)
(* is modelled with it: the licence changes, a scan rewrites the finding,  *)
(* the person leaves, the sidecar answers anything or nothing.             *)
(***************************************************************************)
EXTENDS Naturals

CONSTANTS Findings,       \* what the store may hold: evidence and severity
          Sanitized(_),   \* the copy SanitizeEvidence makes of evidence (module Evidence)
          IsClean(_, _),  \* what is said of evidence and its copy there
          MaxRetries,     \* Client.maxRetries: 2 by default, 0 as the handler's client is built
          Narrations,     \* what a model may write: sentences in explanation_text and in what_to_verify
          MaxChanges      \* bound on changes of licence and finding

(* What the pattern of dropConflictingSeverity knows: an English severity    *)
(* word directly beside "severity", "risk" or "priority".  Words that stand *)
(* apart, and Indonesian ones ("id"), it does not.                         *)
Wordings == {"beside", "apart", "id"}
Sentences == [severity : {"critical", "high", "medium", "low", "info", "none"}, wording : Wordings]

ASSUME NarrationsAssumption == Narrations \subseteq [text : SUBSET Sentences, verify : SUBSET Sentences]
ASSUME RetriesAssumption == MaxRetries \in Nat
ASSUME ChangesAssumption == MaxChanges \in Nat

Tiers == {"free", "pro", "team"}
PaidTiers == {"pro", "team"}

(* AIConfig as the flags give it.                                           *)
Configs == [url : {"none", "bad", "good"}, keyFile : {"none", "unreadable", "empty", "key"},
            language : {"en", "id", "other"}]

Languages == {"en", "id"}
NormalizeLanguage(language) == IF language = "id" THEN "id" ELSE "en"

VARIABLES ai,             \* Server.AI
          tier,           \* Activation().Tier
          finding,        \* the row of the finding
          pc,             \* where the request is
          rec,            \* the copy Get returned
          attempt,        \* the loop variable of Client.Explain
          ended,          \* the request's context has ended
          answer,         \* what the handler wrote
          packets,        \* what was sent (history)
          last, retried,  \* how the last attempt ended, and those that were followed by another (history)
          tiers,          \* those in force since the request came (history)
          changes

vars == <<ai, tier, finding, pc, rec, attempt, ended, answer, packets, last, retried, tiers, changes>>
world == <<ai, tier, finding, tiers, changes>>
call == <<rec, attempt, ended, packets, last, retried>>

InProgress == pc \notin {"idle", "answered"}

(* NewAIAssist: off, refused (the program exits), keyed or open.            *)
Refused(c) == c.url = "bad" \/ (c.url = "good" /\ c.keyFile \in {"unreadable", "empty"})
NewAIAssist(c) == [on |-> c.url = "good", keyed |-> c.url = "good" /\ c.keyFile = "key",
                   language |-> NormalizeLanguage(c.language)]

Reply(code, available, reason, text, verify) ==
    [code |-> code, available |-> available, reason |-> reason, text |-> text, verify |-> verify]
NoAnswer == Reply(0, FALSE, "none", {}, {})
Failure(code) == Reply(code, FALSE, "none", {}, {})
Unavailable(reason) == Reply(200, FALSE, reason, {}, {})
Available(text, verify) == Reply(200, TRUE, "none", text, verify)

Init == /\ \E c \in Configs : ~Refused(c) /\ ai = NewAIAssist(c)
        /\ tier \in Tiers /\ finding \in Findings
        /\ pc = "idle" /\ rec = finding /\ attempt = 0 /\ ended = FALSE /\ answer = NoAnswer
        /\ packets = {} /\ last = "none" /\ retried = {} /\ tiers = {} /\ changes = 0

Answer(a) == pc' = "answered" /\ answer' = a

-----------------------------------------------------------------------------
(* handleExplainFinding.                                                    *)

Ask(valid) ==
    /\ pc = "idle"
    /\ tiers' = {tier}
    /\ \/ valid /\ pc' = "get" /\ UNCHANGED answer
       \/ ~valid /\ Answer(Failure(400))
    /\ UNCHANGED <<ai, tier, finding, call, changes>>

Get ==
    /\ pc = "get"
    /\ rec' = finding
    /\ pc' = "gate"
    /\ UNCHANGED <<world, attempt, ended, answer, packets, last, retried>>

GetFails(code) ==
    /\ pc = "get"
    /\ Answer(Failure(code))
    /\ UNCHANGED <<world, call>>

(* Mutant: a keyed endpoint is for all.                                     *)
AllowsAllTiers(t) == ai.on

(* aiAllowed, on the licence in force now.                                  *)
Allows(t) == ai.on /\ (ai.keyed => t \in PaidTiers)

Gate ==
    /\ pc = "gate"
    /\ \/ ~Allows(tier) /\ Answer(Unavailable(IF ai.on THEN "edition" ELSE "off"))
       \/ Allows(tier) /\ pc' = "attempt" /\ UNCHANGED answer
    /\ UNCHANGED <<world, call>>

-----------------------------------------------------------------------------
(* Client.Explain and doRequest.                                            *)

(* Do or the reading of the body failed; 5xx, or 200 with an error in it.   *)
RetryableOutcomes == {"transport", "fault"}

(* 4xx; not JSON, no choices, not the schema or an empty explanation.       *)
FinalOutcomes == {"rejected", "garbage"}

(* NewFindingPacket; rows have a check, a title and a severity, since        *)
(* Reconcile takes no others.                                              *)
NewFindingPacket(f, language) ==
    [evidence |-> Sanitized(f.evidence), severity |-> f.severity, language |-> language]

Send ==
    /\ pc = "attempt" /\ ~ended
    /\ packets' = packets \cup {NewFindingPacket(rec, ai.language)}
    /\ pc' = "waiting"
    /\ UNCHANGED <<world, rec, attempt, ended, answer, last, retried>>

(* Mutant: every failure is tried again.                                    *)
AnyRetryable(outcome) == TRUE

IsRetryable(outcome) == outcome \in RetryableOutcomes

AttemptLeft == attempt < MaxRetries

FailedBy(outcome) ==
    /\ last' = outcome
    /\ \/ /\ IsRetryable(outcome) /\ AttemptLeft
          /\ pc' = "pause" /\ retried' = retried \cup {outcome}
          /\ UNCHANGED answer
       \/ /\ ~(IsRetryable(outcome) /\ AttemptLeft)
          /\ Answer(Unavailable("sidecar"))
          /\ UNCHANGED retried
    /\ UNCHANGED <<world, rec, attempt, ended, packets>>

(* The attempt's own timeout is a transport failure.                        *)
Fails(outcome) == pc = "waiting" /\ FailedBy(outcome)

(* With the context ended, Do fails before it sends anything.               *)
SendFails == pc = "attempt" /\ ended /\ FailedBy("transport")

(* The sentence states a severity other than the engine's, in words of the   *)
(* pattern.                                                                *)
Conflicts(sentence, severity) == sentence.wording = "beside" /\ sentence.severity \notin {"none", severity}

(* Mutant: the guard goes by the row as it is now.                          *)
DropByTheRow(text, severity) ==
    LET kept == {sentence \in text : ~Conflicts(sentence, finding.severity)}
    IN IF kept = {} THEN text ELSE kept

(* dropConflictingSeverity: unless nothing would be left.                   *)
DropConflicting(text, severity) ==
    LET kept == {sentence \in text : ~Conflicts(sentence, severity)}
    IN IF kept = {} THEN text ELSE kept

(* Whatever language it was asked for, a model may write in any; what is to *)
(* be verified passes as it is.                                            *)
Narrates(narration) ==
    /\ pc = "waiting"
    /\ last' = "ok"
    /\ Answer(Available(DropConflicting(narration.text, rec.severity), narration.verify))
    /\ UNCHANGED <<world, rec, attempt, ended, packets, retried>>

(* Mutant: the count begins anew.                                           *)
PauseStartsOver ==
    /\ pc = "pause"
    /\ attempt' = 0 /\ pc' = "attempt"
    /\ UNCHANGED <<world, rec, ended, answer, packets, last, retried>>

(* attempt * retryBackoff is over; or select finds that ctx is done.        *)
PauseEnds ==
    /\ pc = "pause"
    /\ attempt' = attempt + 1 /\ pc' = "attempt"
    /\ UNCHANGED <<world, rec, ended, answer, packets, last, retried>>

PauseCancelled ==
    /\ pc = "pause" /\ ended
    /\ Answer(Unavailable("sidecar"))
    /\ UNCHANGED <<world, call>>

-----------------------------------------------------------------------------
(* Meanwhile.                                                               *)

Leave ==
    /\ InProgress /\ ~ended
    /\ ended' = TRUE
    /\ UNCHANGED <<world, pc, rec, attempt, answer, packets, last, retried>>

(* handleLicense activates a key.                                           *)
Activate(t) ==
    /\ changes < MaxChanges /\ t # tier
    /\ changes' = changes + 1
    /\ tier' = t
    /\ tiers' = tiers \cup {t}
    /\ UNCHANGED <<ai, finding, pc, call, answer>>

(* A scan refreshes the row.                                                *)
Refresh(f) ==
    /\ changes < MaxChanges /\ f # finding
    /\ changes' = changes + 1
    /\ finding' = f
    /\ UNCHANGED <<ai, tier, tiers, pc, call, answer>>

RequestStep ==
    \/ Get \/ Gate \/ Send \/ SendFails \/ PauseEnds \/ PauseCancelled
    \/ \E code \in {404, 500} : GetFails(code)
    \/ \E outcome \in RetryableOutcomes \cup FinalOutcomes : Fails(outcome)
    \/ \E narration \in Narrations : Narrates(narration)

Next ==
    \/ RequestStep \/ Leave
    \/ \E valid \in BOOLEAN : Ask(valid)
    \/ \E t \in Tiers : Activate(t)
    \/ \E f \in Findings : Refresh(f)

(* Store calls return, each attempt has its timeout and each pause its      *)
(* timer.                                                                  *)
Spec == Init /\ [][Next]_vars /\ WF_vars(RequestStep)

-----------------------------------------------------------------------------
(* Properties.                                                              *)

(* The type of every variable.                                              *)
TypeOK ==
    /\ ai \in [on : BOOLEAN, keyed : BOOLEAN, language : Languages] /\ (ai.keyed => ai.on)
    /\ tier \in Tiers /\ tiers \subseteq Tiers
    /\ {finding, rec} \subseteq Findings
    /\ pc \in {"idle", "get", "gate", "attempt", "waiting", "pause", "answered"}
    /\ attempt \in 0..MaxRetries
    /\ last \in {"none", "ok"} \cup RetryableOutcomes \cup FinalOutcomes
    /\ retried \subseteq RetryableOutcomes \cup FinalOutcomes
    /\ ended \in BOOLEAN
    /\ answer.code \in {0, 200, 400, 404, 500}
    /\ answer.text \cup answer.verify \subseteq Sentences
    /\ changes \in 0..MaxChanges

(* What is sent is the evidence as the store had it at the request's Get,   *)
(* without anything under a secret-like key at any level, within the       *)
(* limits, and otherwise whole (evidence.go:33-45).                        *)
OnlyCleanEvidenceLeaves == \A packet \in packets : IsClean(rec.evidence, packet.evidence)

(* Another attempt follows only a failure that may pass (client.go:388);    *)
(* and "did not answer" is told only after a failure that does not, after  *)
(* the last attempt, or when the person has gone.                          *)
RetriesAreJustified ==
    /\ retried \subseteq RetryableOutcomes
    /\ answer.available => last = "ok"
    /\ answer.reason = "sidecar" => last \in FinalOutcomes \/ attempt = MaxRetries \/ ended

(* A keyed endpoint is only called for a request in whose time a paid tier  *)
(* was in force; and a request is refused for its edition only if an unpaid *)
(* one was (ai.go:18-21: a licence added at runtime takes effect at once).  *)
EditionDecides ==
    /\ ai.keyed /\ packets # {} => tiers \cap PaidTiers # {}
    /\ answer.reason = "edition" => ~(tiers \subseteq PaidTiers)

(* In the words the guard knows, the explanation never contradicts the       *)
(* severity the model was given: the packet that was sent and the guard go  *)
(* by the same copy, however often the row is rewritten and the attempt    *)
(* repeated; unless no sentence would be left (guard.go:15-25).             *)
SeverityIsTheEngines ==
    answer.available =>
        \A packet \in packets :
            \/ \A sentence \in answer.text : ~Conflicts(sentence, packet.severity)
            \/ \A sentence \in answer.text : Conflicts(sentence, packet.severity)

(* Whatever the sidecar, the person and the licence do, a request ends.     *)
EveryRequestAnswered == (pc = "get") ~> (pc = "answered")

(* What is told is about the finding as it is: the row may have been        *)
(* rewritten in the minutes a model needs.                                 *)
NarratesWhatIs == (pc = "answered" /\ answer.available) => rec = finding

(* No sentence that is told states a foreign severity, in whatever words    *)
(* and language, be it in what is to be verified: the guard knows English  *)
(* patterns in the explanation only (guard.go:22, client.go:375).           *)
NoForeignSeverity ==
    \A sentence \in answer.text \cup answer.verify : sentence.severity \in {"none", rec.severity}
=============================================================================
