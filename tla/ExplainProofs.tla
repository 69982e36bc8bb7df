---------------------------- MODULE ExplainProofs ----------------------------
(***************************************************************************)
(* What holds of a request for an explanation for every finding, model,    *)
(* number of retries and number of changes of licence and finding: its     *)
(* types, that attempts are justified, that the edition in force decides,  *)
(* that the guard goes by the severity that was sent, and that one packet  *)
(* leaves, made of one copy of the finding.                                *)
(***************************************************************************)
EXTENDS Explain, TLAPS

USE NarrationsAssumption, RetriesAssumption, ChangesAssumption

Outcomes == RetryableOutcomes \cup FinalOutcomes
Answers == [code : {0, 200, 400, 404, 500}, available : BOOLEAN,
            reason : {"none", "off", "edition", "sidecar"}, text : SUBSET Sentences, verify : SUBSET Sentences]
Calling == pc \in {"attempt", "waiting", "pause"}

Typed ==
    /\ ai \in [on : BOOLEAN, keyed : BOOLEAN, language : Languages] /\ (ai.keyed => ai.on)
    /\ tier \in Tiers /\ tiers \in SUBSET Tiers
    /\ finding \in Findings /\ rec \in Findings
    /\ pc \in {"idle", "get", "gate", "attempt", "waiting", "pause", "answered"}
    /\ attempt \in 0..MaxRetries /\ (pc = "pause" => attempt < MaxRetries)
    /\ last \in {"none", "ok"} \cup Outcomes
    /\ retried \in SUBSET Outcomes
    /\ ended \in BOOLEAN
    /\ answer \in Answers /\ (pc # "answered" => answer = NoAnswer)
    /\ changes \in 0..MaxChanges

(* The edition in force at the gate is among those of the request's time,   *)
(* and what came out of the gate agrees with it.                           *)
EditionInv ==
    /\ pc # "idle" => tier \in tiers
    /\ pc \in {"idle", "get", "gate"} => packets = {}
    /\ ai.keyed /\ (Calling \/ packets # {}) => tiers \cap PaidTiers # {}
    /\ answer.reason = "edition" => ~(tiers \subseteq PaidTiers)

(* Nothing but the packet of the copy has been sent.                        *)
PacketInv ==
    /\ pc \in {"idle", "get"} => packets = {}
    /\ packets \subseteq {NewFindingPacket(rec, ai.language)}

-----------------------------------------------------------------------------
(* The answers the handler writes are answers.                              *)

(* Whatever the handler writes is an answer.                                *)
LEMMA AnswersTyped ==
    /\ NoAnswer \in Answers
    /\ \A code \in {0, 200, 400, 404, 500} : Failure(code) \in Answers
    /\ \A reason \in {"none", "off", "edition", "sidecar"} : Unavailable(reason) \in Answers
    /\ \A text, verify \in SUBSET Sentences : Available(text, verify) \in Answers
  BY DEF NoAnswer, Failure, Unavailable, Available, Reply, Answers

(* What each kind of answer says.                                           *)
LEMMA AnswersSay ==
    /\ NoAnswer.available = FALSE /\ NoAnswer.reason = "none"
    /\ \A code : Failure(code).available = FALSE /\ Failure(code).reason = "none"
    /\ \A reason : Unavailable(reason).available = FALSE /\ Unavailable(reason).reason = reason
    /\ \A text, verify : LET a == Available(text, verify)
                         IN a.available = TRUE /\ a.reason = "none" /\ a.text = text
  BY DEF NoAnswer, Failure, Unavailable, Available, Reply

(* dropConflictingSeverity only leaves out sentences, and either none is    *)
(* left that contradicts the severity or there were no others.              *)
LEMMA DropConflictingKeepsOne ==
    ASSUME NEW text, NEW severity
    PROVE  LET told == DropConflicting(text, severity)
           IN /\ told \subseteq text
              /\ \/ \A sentence \in told : ~Conflicts(sentence, severity)
                 \/ \A sentence \in told : Conflicts(sentence, severity)
  BY DEF DropConflicting

(* What a failed attempt leads to: a pause if it may pass and an attempt is *)
(* left, otherwise the answer.                                              *)
LEMMA FailedAttempt ==
    ASSUME Typed, pc \in {"attempt", "waiting"}, NEW outcome \in Outcomes, FailedBy(outcome)
    PROVE  /\ last' = outcome
           /\ UNCHANGED <<world, rec, attempt, ended, packets>>
           /\ \/ /\ outcome \in RetryableOutcomes /\ attempt < MaxRetries
                 /\ pc' = "pause" /\ retried' = retried \cup {outcome} /\ answer' = answer
              \/ /\ outcome \in FinalOutcomes \/ attempt = MaxRetries
                 /\ pc' = "answered" /\ answer' = Unavailable("sidecar") /\ retried' = retried
  <1>1. attempt \in 0..MaxRetries
    BY DEF Typed
  <1>2. attempt < MaxRetries \/ attempt = MaxRetries
    BY <1>1
  <1> QED BY <1>2 DEF FailedBy, IsRetryable, AttemptLeft, Answer, Outcomes

(* A request that fails its attempt, wherever it fails it.                  *)
LEMMA FailingSteps ==
    ASSUME Typed
    PROVE  /\ SendFails => \E outcome \in Outcomes : FailedBy(outcome)
           /\ \A outcome \in RetryableOutcomes \cup FinalOutcomes :
                 Fails(outcome) => outcome \in Outcomes /\ FailedBy(outcome)
           /\ SendFails => pc \in {"attempt", "waiting"}
           /\ \A outcome : Fails(outcome) => pc \in {"attempt", "waiting"}
  BY DEF SendFails, Fails, Outcomes, RetryableOutcomes

-----------------------------------------------------------------------------
(* Types.                                                                   *)

(* The request is well typed before it comes.                               *)
LEMMA InitTyped == Init => Typed
  <1> SUFFICES ASSUME Init PROVE Typed
    OBVIOUS
  <1>1. ai \in [on : BOOLEAN, keyed : BOOLEAN, language : Languages] /\ (ai.keyed => ai.on)
    <2>1. PICK c \in Configs : ai = [on |-> c.url = "good", keyed |-> c.url = "good" /\ c.keyFile = "key",
                                    language |-> NormalizeLanguage(c.language)]
      BY DEF Init, NewAIAssist
    <2>2. /\ (c.url = "good") \in BOOLEAN
          /\ (c.url = "good" /\ c.keyFile = "key") \in BOOLEAN
          /\ NormalizeLanguage(c.language) \in Languages
      BY DEF NormalizeLanguage, Languages
    <2>3. ai \in [on : BOOLEAN, keyed : BOOLEAN, language : Languages]
      BY <2>1, <2>2, Zenon
    <2>4. ai.on = (c.url = "good") /\ ai.keyed = (c.url = "good" /\ c.keyFile = "key")
      BY <2>1, Zenon
    <2> QED BY <2>3, <2>4
  <1>2. answer \in Answers /\ answer = NoAnswer
    BY AnswersTyped DEF Init
  <1>3. 0 \in 0..MaxRetries /\ 0 \in 0..MaxChanges
    OBVIOUS
  <1> QED BY <1>1, <1>2, <1>3 DEF Init, Typed

(* A failed attempt keeps the types.                                        *)
LEMMA FailureKeepsTyped ==
    ASSUME Typed, pc \in {"attempt", "waiting"}, NEW outcome \in Outcomes, FailedBy(outcome)
    PROVE  Typed'
  <1>1. /\ last' \in Outcomes /\ attempt' = attempt /\ ended' = ended
        /\ UNCHANGED <<ai, tier, finding, tiers, changes, rec>>
    BY FailedAttempt DEF world
  <1>2. Unavailable("sidecar") \in Answers
    BY AnswersTyped
  <1>3. CASE /\ outcome \in RetryableOutcomes /\ attempt < MaxRetries
             /\ pc' = "pause" /\ retried' = retried \cup {outcome} /\ answer' = answer
    BY <1>1, <1>3 DEF Typed
  <1>4. CASE /\ pc' = "answered" /\ answer' = Unavailable("sidecar") /\ retried' = retried
    BY <1>1, <1>2, <1>4 DEF Typed
  <1> QED BY <1>3, <1>4, FailedAttempt

(* So does every step.                                                      *)
LEMMA StepKeepsTyped == Typed /\ [Next]_vars => Typed'
  <1> SUFFICES ASSUME Typed, [Next]_vars PROVE Typed'
    OBVIOUS
  <1>1. ASSUME NEW valid \in BOOLEAN, Ask(valid) PROVE Typed'
    BY <1>1, AnswersTyped DEF Typed, Ask, Answer, call
  <1>2. CASE Get
    BY <1>2 DEF Typed, Get, world
  <1>3. ASSUME NEW code \in {404, 500}, GetFails(code) PROVE Typed'
    BY <1>3, AnswersTyped DEF Typed, GetFails, Answer, world, call
  <1>4. CASE Gate
    BY <1>4, AnswersTyped DEF Typed, Gate, Answer, world, call
  <1>5. CASE Send
    BY <1>5 DEF Typed, Send, world
  <1>6. CASE SendFails
    BY <1>6, FailingSteps, FailureKeepsTyped
  <1>7. ASSUME NEW outcome \in RetryableOutcomes \cup FinalOutcomes, Fails(outcome) PROVE Typed'
    BY <1>7, FailingSteps, FailureKeepsTyped
  <1>8. ASSUME NEW narration \in Narrations, Narrates(narration) PROVE Typed'
    <2> DEFINE told == DropConflicting(narration.text, rec.severity)
    <2>1. told \in SUBSET Sentences /\ narration.verify \in SUBSET Sentences
      <3>1. told \subseteq narration.text
        BY DropConflictingKeepsOne
      <3>2. narration \in [text : SUBSET Sentences, verify : SUBSET Sentences]
        OBVIOUS
      <3> QED BY <3>1, <3>2
    <2>2. answer' = Available(told, narration.verify)
      BY <1>8 DEF Narrates, Answer
    <2> HIDE DEF told
    <2>3. answer' \in Answers
      BY <2>1, <2>2, AnswersTyped
    <2> QED BY <1>8, <2>3 DEF Typed, Narrates, Answer, world
  <1>9. CASE PauseEnds
    <2>1. attempt + 1 \in 0..MaxRetries
      BY <1>9 DEF Typed, PauseEnds
    <2> QED BY <1>9, <2>1 DEF Typed, PauseEnds, world
  <1>10. CASE PauseCancelled
    BY <1>10, AnswersTyped DEF Typed, PauseCancelled, Answer, world, call
  <1>11. CASE Leave
    BY <1>11 DEF Typed, Leave, world
  <1>12. ASSUME NEW t \in Tiers, Activate(t) PROVE Typed'
    BY <1>12 DEF Typed, Activate, call
  <1>13. ASSUME NEW f \in Findings, Refresh(f) PROVE Typed'
    BY <1>13 DEF Typed, Refresh, call
  <1>14. CASE UNCHANGED vars
    BY <1>14 DEF Typed, vars
  <1> QED BY <1>1, <1>2, <1>3, <1>4, <1>5, <1>6, <1>7, <1>8, <1>9, <1>10, <1>11, <1>12, <1>13, <1>14
          DEF Next, RequestStep

(* Every variable keeps its type.                                           *)
THEOREM TypeCorrect == Spec => []TypeOK
  <1>1. Typed => TypeOK
    BY DEF Typed, TypeOK, Answers, Outcomes
  <1> QED BY InitTyped, StepKeepsTyped, <1>1, PTL DEF Spec

(* The types, for the proofs below.                                         *)
LEMMA TypedHolds == Spec => []Typed
  BY InitTyped, StepKeepsTyped, PTL DEF Spec

-----------------------------------------------------------------------------
(* Attempts.                                                                *)

(* A failed attempt is followed by another, or told, only with reason.      *)
LEMMA FailureKeepsRetriesJustified ==
    ASSUME Typed, RetriesAreJustified, pc \in {"attempt", "waiting"},
           NEW outcome \in Outcomes, FailedBy(outcome)
    PROVE  RetriesAreJustified'
  <1>1. answer = NoAnswer
    BY DEF Typed
  <1>2. last' = outcome /\ attempt' = attempt /\ ended' = ended
    BY FailedAttempt
  <1>3. CASE /\ outcome \in RetryableOutcomes /\ attempt < MaxRetries
             /\ pc' = "pause" /\ retried' = retried \cup {outcome} /\ answer' = answer
    BY <1>1, <1>3, AnswersSay DEF RetriesAreJustified
  <1>4. CASE /\ outcome \in FinalOutcomes \/ attempt = MaxRetries
             /\ pc' = "answered" /\ answer' = Unavailable("sidecar") /\ retried' = retried
    BY <1>2, <1>4, AnswersSay DEF RetriesAreJustified
  <1> QED BY <1>3, <1>4, FailedAttempt

(* Another attempt follows only a failure that may pass, a text is told     *)
(* only after a good answer, and "did not answer" only when nothing was    *)
(* left to try: the return and the continue of the loop in Client.Explain. *)
THEOREM RetriesAlwaysJustified == Spec => []RetriesAreJustified
<1>1. Init => RetriesAreJustified
  BY AnswersSay DEF Init, RetriesAreJustified
<1>2. Typed /\ RetriesAreJustified /\ [Next]_vars => RetriesAreJustified'
  <2> SUFFICES ASSUME Typed, RetriesAreJustified, [Next]_vars PROVE RetriesAreJustified'
    OBVIOUS
  <2>1. pc # "answered" => answer.available = FALSE /\ answer.reason = "none"
    BY AnswersSay DEF Typed
  <2>2. ASSUME NEW valid \in BOOLEAN, Ask(valid) PROVE RetriesAreJustified'
    BY <2>1, <2>2, AnswersSay DEF RetriesAreJustified, Ask, Answer, call
  <2>3. CASE Get
    BY <2>1, <2>3 DEF RetriesAreJustified, Get
  <2>4. ASSUME NEW code \in {404, 500}, GetFails(code) PROVE RetriesAreJustified'
    BY <2>4, AnswersSay DEF RetriesAreJustified, GetFails, Answer, call
  <2>5. CASE Gate
    BY <2>1, <2>5, AnswersSay DEF RetriesAreJustified, Gate, Answer, call
  <2>6. CASE Send
    BY <2>1, <2>6 DEF RetriesAreJustified, Send
  <2>7. CASE SendFails
    BY <2>7, FailingSteps, FailureKeepsRetriesJustified
  <2>8. ASSUME NEW outcome \in RetryableOutcomes \cup FinalOutcomes, Fails(outcome)
        PROVE  RetriesAreJustified'
    BY <2>8, FailingSteps, FailureKeepsRetriesJustified
  <2>9. ASSUME NEW narration \in Narrations, Narrates(narration) PROVE RetriesAreJustified'
    BY <2>9, AnswersSay DEF RetriesAreJustified, Narrates, Answer
  <2>10. CASE PauseEnds
    BY <2>1, <2>10 DEF RetriesAreJustified, PauseEnds
  <2>11. CASE PauseCancelled
    BY <2>11, AnswersSay DEF RetriesAreJustified, PauseCancelled, Answer, call
  <2>12. CASE Leave
    BY <2>12 DEF RetriesAreJustified, Leave
  <2>13. ASSUME NEW t \in Tiers, Activate(t) PROVE RetriesAreJustified'
    BY <2>13 DEF RetriesAreJustified, Activate, call
  <2>14. ASSUME NEW f \in Findings, Refresh(f) PROVE RetriesAreJustified'
    BY <2>14 DEF RetriesAreJustified, Refresh, call
  <2>15. CASE UNCHANGED vars
    BY <2>15 DEF RetriesAreJustified, vars
  <2> QED BY <2>2, <2>3, <2>4, <2>5, <2>6, <2>7, <2>8, <2>9, <2>10, <2>11, <2>12, <2>13, <2>14, <2>15
          DEF Next, RequestStep
<1> QED BY <1>1, <1>2, TypedHolds, PTL DEF Spec

-----------------------------------------------------------------------------
(* The edition.                                                             *)

(* A keyed endpoint is only called for a request in whose time a paid tier  *)
(* was in force, and a refusal for the edition follows an unpaid one: the   *)
(* gate reads the licence once (aiAllowed) and holds what it read.          *)
THEOREM EditionAlwaysDecides == Spec => []EditionDecides
<1>1. Init => EditionInv
  BY AnswersSay DEF Init, EditionInv, Calling
<1>2. Typed /\ EditionInv /\ [Next]_vars => EditionInv'
  <2> SUFFICES ASSUME Typed, EditionInv, [Next]_vars PROVE EditionInv'
    OBVIOUS
  <2>1. pc # "answered" => answer.reason = "none"
    BY AnswersSay DEF Typed
  <2>2. ASSUME NEW valid \in BOOLEAN, Ask(valid) PROVE EditionInv'
    BY <2>1, <2>2, AnswersSay DEF EditionInv, Calling, Ask, Answer, call
  <2>3. CASE Get
    BY <2>1, <2>3 DEF EditionInv, Calling, Get, world
  <2>4. ASSUME NEW code \in {404, 500}, GetFails(code) PROVE EditionInv'
    BY <2>4, AnswersSay DEF EditionInv, Calling, GetFails, Answer, world, call
  <2>5. CASE Gate
    <3>1. tier \in tiers /\ packets = {}
      BY <2>5 DEF EditionInv, Gate
    <3>2. CASE ~Allows(tier) /\ Answer(Unavailable(IF ai.on THEN "edition" ELSE "off"))
      <4>1. ai.on => tier \notin PaidTiers
        BY <3>2 DEF Allows
      <4>2. pc' = "answered" /\ answer'.reason = (IF ai.on THEN "edition" ELSE "off")
        BY <3>2, AnswersSay DEF Answer
      <4> QED BY <2>5, <3>1, <4>1, <4>2 DEF EditionInv, Calling, Gate, world, call
    <3>3. CASE Allows(tier) /\ pc' = "attempt" /\ UNCHANGED answer
      <4>1. ai.keyed => tier \in tiers \cap PaidTiers
        BY <3>1, <3>3 DEF Allows
      <4> QED BY <2>1, <2>5, <3>1, <3>3, <4>1 DEF EditionInv, Calling, Gate, world, call
    <3> QED BY <2>5, <3>2, <3>3 DEF Gate
  <2>6. CASE Send
    BY <2>1, <2>6 DEF EditionInv, Calling, Send, world
  <2>7. ASSUME NEW outcome \in Outcomes, pc \in {"attempt", "waiting"}, FailedBy(outcome)
        PROVE  EditionInv'
    <3>1. UNCHANGED <<ai, tier, tiers, packets>> /\ pc' \in {"pause", "answered"}
      BY <2>7, FailedAttempt DEF world
    <3>2. answer'.reason # "edition"
      BY <2>1, <2>7, FailedAttempt, AnswersSay
    <3> QED BY <2>7, <3>1, <3>2 DEF EditionInv, Calling
  <2>8. ASSUME NEW narration \in Narrations, Narrates(narration) PROVE EditionInv'
    BY <2>8, AnswersSay DEF EditionInv, Calling, Narrates, Answer, world
  <2>9. CASE PauseEnds
    BY <2>1, <2>9 DEF EditionInv, Calling, PauseEnds, world
  <2>10. CASE PauseCancelled
    BY <2>10, AnswersSay DEF EditionInv, Calling, PauseCancelled, Answer, world, call
  <2>11. CASE Leave
    BY <2>11 DEF EditionInv, Calling, Leave, world
  <2>12. ASSUME NEW t \in Tiers, Activate(t) PROVE EditionInv'
    BY <2>12 DEF EditionInv, Calling, Activate, call
  <2>13. ASSUME NEW f \in Findings, Refresh(f) PROVE EditionInv'
    BY <2>13 DEF EditionInv, Calling, Refresh, call
  <2>14. CASE UNCHANGED vars
    BY <2>14 DEF EditionInv, Calling, vars
  <2>15. /\ SendFails => EditionInv'
         /\ \A outcome \in RetryableOutcomes \cup FinalOutcomes : Fails(outcome) => EditionInv'
    BY <2>7, FailingSteps
  <2> QED BY <2>2, <2>3, <2>4, <2>5, <2>6, <2>8, <2>9, <2>10, <2>11, <2>12, <2>13, <2>14, <2>15
          DEF Next, RequestStep
<1>3. EditionInv => EditionDecides
  BY DEF EditionInv, EditionDecides
<1> QED BY <1>1, <1>2, <1>3, TypedHolds, PTL DEF Spec

-----------------------------------------------------------------------------
(* What leaves.                                                             *)

(* All that is ever sent in a request, by however many attempts, is the one *)
(* packet of the copy Get returned, whatever a scan makes of the row        *)
(* meanwhile (NewFindingPacket before the loop of Client.Explain).          *)
THEOREM OnePacketLeaves == Spec => [](packets \subseteq {NewFindingPacket(rec, ai.language)})
<1>1. Init => PacketInv
  BY DEF Init, PacketInv
<1>2. PacketInv /\ [Next]_vars => PacketInv'
  <2> SUFFICES ASSUME PacketInv, [Next]_vars PROVE PacketInv'
    OBVIOUS
  <2>1. CASE Get
    BY <2>1 DEF PacketInv, Get, world
  <2>2. CASE Send
    BY <2>2 DEF PacketInv, Send, world
  <2>3. ASSUME NEW valid \in BOOLEAN, Ask(valid) PROVE PacketInv'
    BY <2>3 DEF PacketInv, Ask, Answer, call, world
  <2>4. ASSUME NEW outcome, FailedBy(outcome) PROVE PacketInv'
    BY <2>4 DEF PacketInv, FailedBy, Answer, world
  <2>5. SendFails => PacketInv'
    BY <2>4 DEF SendFails
  <2>6. \A outcome : Fails(outcome) => PacketInv'
    BY <2>4 DEF Fails
  <2>7. CASE Gate
    BY <2>7 DEF PacketInv, Gate, Answer, call, world
  <2>8. ASSUME NEW code \in {404, 500}, GetFails(code) PROVE PacketInv'
    BY <2>8 DEF PacketInv, GetFails, Answer, call, world
  <2>9. ASSUME NEW narration \in Narrations, Narrates(narration) PROVE PacketInv'
    BY <2>9 DEF PacketInv, Narrates, Answer, world
  <2>10. CASE PauseEnds \/ PauseCancelled \/ Leave
    BY <2>10 DEF PacketInv, PauseEnds, PauseCancelled, Leave, Answer, call, world
  <2>11. ASSUME NEW t \in Tiers, Activate(t) PROVE PacketInv'
    BY <2>11 DEF PacketInv, Activate, call
  <2>12. ASSUME NEW f \in Findings, Refresh(f) PROVE PacketInv'
    BY <2>12 DEF PacketInv, Refresh, call
  <2>13. CASE UNCHANGED vars
    BY <2>13 DEF PacketInv, vars
  <2> QED BY <2>1, <2>2, <2>3, <2>5, <2>6, <2>7, <2>8, <2>9, <2>10, <2>11, <2>12, <2>13
          DEF Next, RequestStep
<1>3. PacketInv => packets \subseteq {NewFindingPacket(rec, ai.language)}
  BY DEF PacketInv
<1> QED BY <1>1, <1>2, <1>3, PTL DEF Spec

-----------------------------------------------------------------------------
(* The severity.                                                            *)

(* The explanation was put right by the copy Get returned.                  *)
PutRight ==
    answer.available => \/ \A sentence \in answer.text : ~Conflicts(sentence, rec.severity)
                        \/ \A sentence \in answer.text : Conflicts(sentence, rec.severity)

(* In the words the guard knows, the explanation never contradicts the      *)
(* severity of the packet that was sent, unless no sentence would be left:  *)
(* findingSeverity and dropConflictingSeverity go by one copy, whatever a   *)
(* scan makes of the row meanwhile.                                         *)
THEOREM SeverityAlwaysTheEngines == Spec => []SeverityIsTheEngines
<1>1. Init => PutRight
  BY AnswersSay DEF Init, PutRight
<1>2. Typed /\ PutRight /\ [Next]_vars => PutRight'
  <2> SUFFICES ASSUME Typed, PutRight, [Next]_vars PROVE PutRight'
    OBVIOUS
  <2>1. pc # "answered" => answer.available = FALSE
    BY AnswersSay DEF Typed
  <2>2. ASSUME answer'.available = FALSE PROVE PutRight'
    BY <2>2 DEF PutRight
  <2>3. ASSUME UNCHANGED <<answer, rec>> PROVE PutRight'
    BY <2>3 DEF PutRight
  <2>4. ASSUME NEW narration \in Narrations, Narrates(narration) PROVE PutRight'
    <3>1. rec' = rec /\ answer' = Available(DropConflicting(narration.text, rec.severity), narration.verify)
      BY <2>4 DEF Narrates, Answer
    <3>2. answer'.text = DropConflicting(narration.text, rec.severity)
      BY <3>1, AnswersSay
    <3> QED BY <3>1, <3>2, DropConflictingKeepsOne DEF PutRight
  <2>5. ASSUME NEW valid \in BOOLEAN, Ask(valid) PROVE PutRight'
    BY <2>1, <2>2, <2>5, AnswersSay DEF Ask, Answer
  <2>6. CASE Get
    BY <2>1, <2>2, <2>6 DEF Get
  <2>7. ASSUME NEW code \in {404, 500}, GetFails(code) PROVE PutRight'
    BY <2>2, <2>7, AnswersSay DEF GetFails, Answer
  <2>8. CASE Gate
    BY <2>1, <2>2, <2>8, AnswersSay DEF Gate, Answer
  <2>9. ASSUME NEW outcome, FailedBy(outcome), pc # "answered" PROVE PutRight'
    BY <2>1, <2>2, <2>9, AnswersSay DEF FailedBy, Answer
  <2>10. SendFails \/ (\E outcome \in RetryableOutcomes \cup FinalOutcomes : Fails(outcome)) => PutRight'
    BY <2>9 DEF SendFails, Fails
  <2>11. CASE Send \/ PauseEnds \/ Leave
    BY <2>3, <2>11 DEF Send, PauseEnds, Leave
  <2>12. CASE PauseCancelled
    BY <2>2, <2>12, AnswersSay DEF PauseCancelled, Answer
  <2>13. ASSUME NEW t \in Tiers, Activate(t) PROVE PutRight'
    BY <2>3, <2>13 DEF Activate, call
  <2>14. ASSUME NEW f \in Findings, Refresh(f) PROVE PutRight'
    BY <2>3, <2>14 DEF Refresh, call
  <2>15. CASE UNCHANGED vars
    BY <2>3, <2>15 DEF vars
  <2> QED BY <2>4, <2>5, <2>6, <2>7, <2>8, <2>10, <2>11, <2>12, <2>13, <2>14, <2>15
          DEF Next, RequestStep
<1>3. PutRight /\ packets \subseteq {NewFindingPacket(rec, ai.language)} => SeverityIsTheEngines
  <2>1. NewFindingPacket(rec, ai.language).severity = rec.severity
    BY DEF NewFindingPacket
  <2> QED BY <2>1 DEF PutRight, SeverityIsTheEngines
<1> QED BY <1>1, <1>2, <1>3, TypedHolds, OnePacketLeaves, PTL DEF Spec
============================================================================
