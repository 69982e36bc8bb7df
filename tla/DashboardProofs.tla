--------------------------- MODULE DashboardProofs ---------------------------
(* Theorems about Dashboard.                                                *)
EXTENDS Dashboard, TLAPS

-----------------------------------------------------------------------------
(* Licences.                                                                *)

(* Activate returns the key it was given or the empty one, and the former   *)
(* only if it is genuine.                                                  *)
LEMMA ActivateKey ==
    ASSUME NEW key \in Keys \cup {NoKey}, NEW now \in Nat
    PROVE  /\ Activate(key, now) \in Activations
           /\ Activate(key, now).key \in {key, NoKey}
           /\ Activate(key, now).key # NoKey => Activate(key, now).key.genuine
<1>1. CASE key # NoKey /\ key.genuine /\ now <= key.expires
  <2>1. Activate(key, now) = [tier |-> key.tier, max |-> LimitsFor(key.tier), key |-> key]
    BY <1>1 DEF Activate
  <2>2. LimitsFor(key.tier) \in Nat
    BY LimitsAssumption DEF LimitsFor
  <2>3. key \in Keys BY <1>1
  <2> QED BY <1>1, <2>1, <2>2, <2>3 DEF Activations
<1>2. CASE ~(key # NoKey /\ key.genuine /\ now <= key.expires)
  <2>1. Activate(key, now) = Free BY <1>2 DEF Activate
  <2>2. "free" \in Tiers /\ DefaultMax["free"] \in Nat BY LimitsAssumption
  <2> QED BY <2>1, <2>2 DEF Free, Activations
<1> QED BY <1>1, <1>2

(* A key that CheckKey lets through is the key of its activation.           *)
LEMMA AcceptedKey ==
    ASSUME NEW key \in Keys \cup {NoKey}, day \in Nat, Accepts(key)
    PROVE  Activate(key, day).key = key /\ (key # NoKey => key.genuine)
<1>1. CASE key = NoKey
  BY <1>1 DEF Activate, Free
<1>2. CASE key # NoKey /\ Activate(key, day).tier # "free"
  <2>1. Activate(key, day) # Free BY <1>2 DEF Free
  <2>2. key.genuine /\ day <= key.expires BY <2>1 DEF Activate
  <2>3. Activate(key, day) = [tier |-> key.tier, max |-> LimitsFor(key.tier), key |-> key]
    BY <1>2, <2>2 DEF Activate
  <2> QED BY <2>2, <2>3
<1> QED BY <1>1, <1>2 DEF Accepts

-----------------------------------------------------------------------------
(* Every variable keeps its type.                                           *)
THEOREM TypeCorrect == Spec => []TypeOK
<1>1. Init => TypeOK
  <2> SUFFICES ASSUME Init PROVE TypeOK OBVIOUS
  <2>1. calm \in BOOLEAN /\ torn \in BOOLEAN BY Zenon DEF Init
  <2>2. activation \in Activations BY LimitsAssumption DEF Init, Activations, Free
  <2> QED BY <2>1, <2>2, MaxDayAssumption DEF Init, TypeOK
<1>2. TypeOK /\ [Next]_vars => TypeOK'
  <2> SUFFICES ASSUME TypeOK, [Next]_vars PROVE TypeOK' OBVIOUS
  <2> USE DEF TypeOK
  <2>d. day \in Nat BY MaxDayAssumption
  <2>1. CASE Restart
    <3>1. keyFile' \in Keys \cup {NoKey} BY <2>1 DEF Restart
    <3>2. activation' \in Activations BY <2>1, <2>d, ActivateKey DEF Restart
    <3>3. scheduled' \subseteq Targets BY <2>1 DEF Restart
    <3>4. calm' \in BOOLEAN /\ torn' \in BOOLEAN BY <2>1, Zenon DEF Restart
    <3> QED BY <2>1, <3>1, <3>2, <3>3, <3>4 DEF Restart
  <2>2. CASE NextDay
    BY <2>2, MaxDayAssumption DEF NextDay
  <2>3. ASSUME NEW r \in Requests, Serving(r) PROVE TypeOK'
    <3>1. CASE AddTarget(r) BY <3>1 DEF AddTarget, Step, Idle
    <3>2. CASE AddRefused(r) BY <3>2 DEF AddRefused, Step
    <3>3. CASE SaveTarget(r) BY <3>3 DEF SaveTarget, Step, Idle
    <3>4. CASE SaveFails(r) BY <3>4 DEF SaveFails, Step
    <3>5. CASE DeleteTarget(r) BY <3>5 DEF DeleteTarget, RowsWithout, Step
    <3>6. CASE DeleteFails(r) BY <3>6 DEF DeleteFails, Step
    <3>7. CASE OpenKeyFile(r) BY <3>7 DEF OpenKeyFile, Step, Idle
    <3>8. CASE OpenFails(r) BY <3>8 DEF OpenFails, AfterFailedWrite, Step
    <3>9. CASE WriteKey(r)
      <4>1. keyFile' \in Keys \cup {NoKey} BY <3>9 DEF WriteKey, Written, Idle
      <4> QED BY <3>9, <4>1 DEF WriteKey, Step, Idle
    <3>10. CASE WriteFails(r)
      <4>1. keyFile' \in Keys \cup {NoKey} BY <3>10 DEF WriteFails, Idle
      <4> QED BY <3>10, <4>1 DEF WriteFails, AfterFailedWrite, Step
    <3>11. CASE UseKey(r)
      <4>1. activation' \in Activations BY <3>11 DEF UseKey, Idle
      <4>2. torn' \in BOOLEAN BY <3>11, Zenon DEF UseKey
      <4> QED BY <3>11, <4>1, <4>2 DEF UseKey, Step
    <3> QED BY <2>3, <3>1, <3>2, <3>3, <3>4, <3>5, <3>6, <3>7, <3>8, <3>9, <3>10, <3>11 DEF Serving
  <2>4. ASSUME NEW r \in Requests, Asked(r) PROVE TypeOK'
    <3>0. MayServe(r) => calm' \in BOOLEAN BY Zenon DEF MayServe
    <3>1. ASSUME NEW t \in Targets, CheckLimit(r, t) PROVE TypeOK'
      BY <3>0, <3>1 DEF CheckLimit, Step
    <3>2. ASSUME NEW t \in Targets, RemoveTarget(r, t) PROVE TypeOK'
      BY <3>0, <3>2 DEF RemoveTarget, Step
    <3>3. ASSUME NEW key \in Keys \cup {NoKey}, CheckKey(r, key) PROVE TypeOK'
      BY <2>d, <3>0, <3>3, ActivateKey DEF CheckKey, Step
    <3> QED BY <2>4, <3>1, <3>2, <3>3 DEF Asked
  <2>5. CASE UNCHANGED vars BY <2>5 DEF vars
  <2> QED BY <2>1, <2>2, <2>3, <2>4, <2>5 DEF Next
<1> QED BY <1>1, <1>2, PTL DEF Spec

-----------------------------------------------------------------------------
(* No bad key.                                                              *)

Genuine(key) == key # NoKey => key.genuine

(* A key is checked once, when it is asked for; what makes it safe to write *)
(* and to use it later is that a request carries nothing else.             *)
GenuineInv ==
    /\ Genuine(keyFile) /\ Genuine(activation.key)
    /\ \A r \in Requests : request[r].pc \in {"open", "write", "use"} => Genuine(request[r].key) /\ Genuine(request[r].act.key)

(* A request that moves leaves the others where they are.                   *)
LEMMA StepMovesOne ==
    ASSUME TypeOK, NEW r \in Requests, NEW locals, Step(r, locals)
    PROVE  /\ request'[r] = locals
           /\ \A q \in Requests \ {r} : request'[q] = request[q]
BY DEF TypeOK, Step

(* No bad key is ever in the file or in force (server.go:355), however      *)
(* requests, failing writes and crashes in the middle of one interleave.    *)
THEOREM NoBadKey == Spec => []OnlyGenuineKeys
<1>1. Init => GenuineInv
  BY DEF Init, GenuineInv, Genuine, Idle, Free
<1>2. TypeOK /\ GenuineInv /\ [Next]_vars => GenuineInv'
  <2> SUFFICES ASSUME TypeOK, GenuineInv, [Next]_vars PROVE GenuineInv' OBVIOUS
  <2>d. day \in Nat BY MaxDayAssumption DEF TypeOK
  <2>1. CASE Restart
    <3>1. keyFile' \in Keys \cup {NoKey} /\ Genuine(keyFile')
      BY <2>1 DEF Restart, TypeOK, GenuineInv, Genuine
    <3>2. Genuine(activation'.key)
      BY <2>1, <2>d, ActivateKey DEF Restart, Genuine, TypeOK
    <3> QED BY <2>1, <3>1, <3>2 DEF Restart, GenuineInv, Idle
  <2>2. CASE NextDay BY <2>2 DEF NextDay, GenuineInv
  <2>3. ASSUME NEW r \in Requests, Serving(r) PROVE GenuineInv'
    <3>1. ASSUME NEW locals, Step(r, locals), locals.pc \in {"idle", "save"},
                 UNCHANGED <<keyFile, activation>>
          PROVE  GenuineInv'
      BY <3>1, StepMovesOne DEF GenuineInv
    <3>2. CASE AddTarget(r)
      <4>1. request[r] \in [pc : {"add", "save", "delete"}, target : Targets]
        BY <3>2 DEF AddTarget, TypeOK, Idle
      <4>2. [request[r] EXCEPT !.pc = "save"].pc = "save" BY <4>1
      <4> QED BY <3>1, <3>2, <4>2 DEF AddTarget
    <3>3. CASE \/ AddRefused(r) \/ SaveTarget(r) \/ SaveFails(r) \/ DeleteTarget(r)
               \/ DeleteFails(r) \/ OpenFails(r)
      BY <3>1, <3>3 DEF AddRefused, SaveTarget, SaveFails, DeleteTarget, DeleteFails, OpenFails,
                        AfterFailedWrite, Idle
    <3>4. ASSUME NEW pc \in {"write", "use"}, Step(r, [request[r] EXCEPT !.pc = pc]),
                 request[r].pc \in {"open", "write"},
                 keyFile' \in {keyFile, NoKey, request[r].key}, activation' = activation
          PROVE  GenuineInv'
      <4>1. request[r] \in [pc : {"open", "write", "use"}, key : Keys \cup {NoKey}, act : Activations]
        BY <3>4 DEF TypeOK, Idle
      <4>2. /\ [request[r] EXCEPT !.pc = pc].key = request[r].key
            /\ [request[r] EXCEPT !.pc = pc].act = request[r].act
        BY <4>1
      <4>3. /\ request'[r].key = request[r].key /\ request'[r].act = request[r].act
            /\ \A q \in Requests \ {r} : request'[q] = request[q]
        BY <3>4, <4>2, StepMovesOne
      <4>4. Genuine(request[r].key) /\ Genuine(request[r].act.key)
        BY <3>4 DEF GenuineInv
      <4>5. \A q \in Requests :
               request'[q].pc \in {"open", "write", "use"} => Genuine(request'[q].key) /\ Genuine(request'[q].act.key)
        BY <4>3, <4>4 DEF GenuineInv
      <4>6. Genuine(keyFile') /\ Genuine(activation'.key)
        BY <3>4, <4>4 DEF GenuineInv, Genuine
      <4> QED BY <4>5, <4>6 DEF GenuineInv
    <3>6. CASE OpenKeyFile(r) BY <3>4, <3>6 DEF OpenKeyFile
    <3>7. CASE WriteKey(r) BY <3>4, <3>7 DEF WriteKey, Written
    <3>8. CASE WriteFails(r)
      <4>1. Genuine(request[r].key) BY <3>8 DEF WriteFails, GenuineInv
      <4>2. Genuine(keyFile') BY <3>8, <4>1 DEF WriteFails, GenuineInv, Genuine
      <4>3. request'[r].pc = "idle" BY <3>8, StepMovesOne DEF WriteFails, AfterFailedWrite, Idle
      <4> QED BY <3>8, <4>2, <4>3, StepMovesOne DEF WriteFails, GenuineInv
    <3>5. CASE UseKey(r)
      BY <3>5, StepMovesOne DEF UseKey, GenuineInv, Idle
    <3> QED BY <2>3, <3>2, <3>3, <3>5, <3>6, <3>7, <3>8 DEF Serving
  <2>4. ASSUME NEW r \in Requests, Asked(r) PROVE GenuineInv'
    <3>1. ASSUME NEW t \in Targets, CheckLimit(r, t) \/ RemoveTarget(r, t) PROVE GenuineInv'
      BY <3>1, StepMovesOne DEF CheckLimit, RemoveTarget, GenuineInv
    <3>2. ASSUME NEW key \in Keys \cup {NoKey}, CheckKey(r, key) PROVE GenuineInv'
      BY <2>d, <3>2, AcceptedKey, StepMovesOne DEF CheckKey, GenuineInv, Genuine
    <3> QED BY <2>4, <3>1, <3>2 DEF Asked
  <2>5. CASE UNCHANGED vars BY <2>5 DEF vars, GenuineInv
  <2> QED BY <2>1, <2>2, <2>3, <2>4, <2>5 DEF Next
<1>3. GenuineInv => OnlyGenuineKeys
  BY DEF GenuineInv, Genuine, OnlyGenuineKeys
<1> QED BY <1>1, <1>2, <1>3, TypeCorrect, PTL DEF Spec

-----------------------------------------------------------------------------
(* Calm: requests come one at a time and no store call fails.               *)

OneAtATime == \A r, q \in Requests : request[r] # Idle /\ request[q] # Idle => r = q

(* How the table and the map differ at each point of a request.             *)
TargetsInv ==
    /\ Quiet => saved = scheduled
    /\ \A r \in Requests :
          /\ request[r].pc \in {"add", "open", "write", "use"} => saved = scheduled
          /\ request[r].pc = "save" => scheduled = saved \cup {request[r].target}
          /\ request[r].pc = "delete" => scheduled = saved \ {request[r].target}

InForce == /\ activation.key # NoKey => keyFile = activation.key
           /\ Activate(keyFile, day).key = keyFile => activation.key = keyFile

(* How the file and the activation differ at each point of a request.       *)
KeysInv ==
    /\ ~torn /\ (\A r \in Requests : request[r].pc \notin {"write", "use"}) => InForce
    /\ \A r \in Requests :
          /\ request[r].pc \in {"open", "write", "use"} => request[r].act.key = request[r].key
          /\ request[r].pc = "write" => keyFile = NoKey
          /\ request[r].pc = "use" => keyFile = request[r].key

CalmInv == calm => OneAtATime /\ TargetsInv /\ KeysInv

(* While it is calm the request that moves is alone, before and after.      *)
LEMMA AloneWhenCalm ==
    ASSUME TypeOK, CalmInv, NEW r \in Requests, Serving(r) \/ Asked(r), calm'
    PROVE  /\ calm /\ OneAtATime /\ TargetsInv /\ KeysInv
           /\ \A q \in Requests \ {r} : request[q] = Idle /\ request'[q] = Idle
           /\ request[r] = Idle => Quiet
<1>1. calm
  BY DEF Serving, Asked, AddTarget, AddRefused, SaveTarget, SaveFails, DeleteTarget, DeleteFails,
         OpenKeyFile, OpenFails, WriteKey, WriteFails, UseKey, CheckLimit, RemoveTarget, CheckKey, MayServe
<1>2. OneAtATime /\ TargetsInv /\ KeysInv
  BY <1>1 DEF CalmInv
<1>3. \A q \in Requests \ {r} : request'[q] = request[q]
  BY StepMovesOne DEF Serving, Asked, AddTarget, AddRefused, SaveTarget, SaveFails, DeleteTarget,
     DeleteFails, OpenKeyFile, OpenFails, WriteKey, WriteFails, UseKey, CheckLimit, RemoveTarget, CheckKey
<1>4. \A q \in Requests \ {r} : request[q] = Idle
  <2>1. CASE Serving(r)
    <3>1. request[r].pc \in {"add", "save", "delete", "open", "write", "use"}
      BY <2>1 DEF Serving, AddTarget, AddRefused, SaveTarget, SaveFails, DeleteTarget, DeleteFails,
                  OpenKeyFile, OpenFails, WriteKey, WriteFails, UseKey
    <3>2. Idle.pc = "idle" BY DEF Idle
    <3>3. request[r] # Idle BY <3>1, <3>2
    <3> QED BY <1>2, <3>3 DEF OneAtATime
  <2>2. CASE Asked(r)
    BY <2>2 DEF Asked, CheckLimit, RemoveTarget, CheckKey, MayServe, Quiet
  <2> QED BY <2>1, <2>2
<1> QED BY <1>1, <1>2, <1>3, <1>4 DEF Quiet

(* What is left to show of a request that moves: where it stands itself.    *)
LEMMA OneRequestTells ==
    ASSUME NEW r \in Requests, \A q \in Requests \ {r} : request'[q] = Idle,
           request'[r].pc \in {"idle", "add", "open", "write", "use"} => saved' = scheduled',
           request'[r].pc = "save" => scheduled' = saved' \cup {request'[r].target},
           request'[r].pc = "delete" => scheduled' = saved' \ {request'[r].target},
           ~torn' /\ request'[r].pc \notin {"write", "use"} => InForce',
           request'[r].pc \in {"open", "write", "use"} => request'[r].act.key = request'[r].key,
           request'[r].pc = "write" => keyFile' = NoKey,
           request'[r].pc = "use" => keyFile' = request'[r].key
    PROVE  CalmInv'
<1>1. OneAtATime' BY DEF OneAtATime
<1>4. \A q \in Requests \ {r} : request'[q].pc = "idle"
  BY DEF Idle
<1>2. TargetsInv'
  <2>1. Quiet' => saved' = scheduled' BY DEF Quiet, Idle
  <2> QED BY <1>4, <2>1 DEF TargetsInv
<1>3. KeysInv'
  BY <1>4 DEF KeysInv
<1> QED BY <1>1, <1>2, <1>3 DEF CalmInv

(* While it is calm a handler leaves the table and the map, and the file    *)
(* and the activation, as the next point of the request wants them.         *)
LEMMA ServingKeepsCalm ==
    ASSUME TypeOK, CalmInv, NEW r \in Requests, Serving(r)
    PROVE  CalmInv'
<1> SUFFICES ASSUME calm' PROVE CalmInv'
  BY DEF CalmInv
<1>1. /\ calm /\ OneAtATime /\ TargetsInv /\ KeysInv
      /\ \A q \in Requests \ {r} : request[q] = Idle /\ request'[q] = Idle
  BY AloneWhenCalm
<1>2. ~torn /\ request[r].pc \notin {"write", "use"} => InForce
  BY <1>1 DEF KeysInv, Idle
<1>3. CASE AddTarget(r)
  <2>1. request[r] \in [pc : {"add", "save", "delete"}, target : Targets]
    BY <1>3 DEF AddTarget, TypeOK, Idle
  <2>2. request'[r] = [request[r] EXCEPT !.pc = "save"]
    BY <1>3, StepMovesOne DEF AddTarget
  <2>3. request'[r].pc = "save" /\ request'[r].target = request[r].target
    BY <2>1, <2>2
  <2>4. scheduled' = saved' \cup {request'[r].target}
    BY <1>1, <1>3, <2>3 DEF AddTarget, TargetsInv
  <2>5. ~torn' => InForce' BY <1>2, <1>3 DEF AddTarget, InForce, Activate
  <2> QED BY <1>1, <2>3, <2>4, <2>5, OneRequestTells
<1>4. CASE AddRefused(r) \/ OpenFails(r)
  <2>1. request'[r] = Idle
    BY <1>4, StepMovesOne DEF AddRefused, OpenFails, AfterFailedWrite
  <2>2. saved' = scheduled' BY <1>1, <1>4 DEF AddRefused, OpenFails, TargetsInv
  <2>3. ~torn' => InForce' BY <1>2, <1>4 DEF AddRefused, OpenFails, InForce, Activate
  <2>4. request'[r].pc = "idle" BY <2>1 DEF Idle
  <2> QED BY <1>1, <2>2, <2>3, <2>4, OneRequestTells
<1>9. CASE WriteFails(r)
  <2>1. request'[r].pc = "idle"
    BY <1>9, StepMovesOne DEF WriteFails, AfterFailedWrite, Idle
  <2>2. saved' = scheduled' /\ torn' BY <1>1, <1>9 DEF WriteFails, TargetsInv
  <2> QED BY <1>1, <2>1, <2>2, OneRequestTells
<1>5. CASE SaveTarget(r) \/ DeleteTarget(r)
  <2>1. request'[r] = Idle
    BY <1>5, StepMovesOne DEF SaveTarget, DeleteTarget
  <2>2. saved' = scheduled'
    BY <1>1, <1>5 DEF SaveTarget, DeleteTarget, RowsWithout, TargetsInv
  <2>3. ~torn' => InForce' BY <1>2, <1>5 DEF SaveTarget, DeleteTarget, InForce, Activate
  <2>4. request'[r].pc = "idle" BY <2>1 DEF Idle
  <2> QED BY <1>1, <2>2, <2>3, <2>4, OneRequestTells
<1>6. CASE SaveFails(r) \/ DeleteFails(r)
  BY <1>6 DEF SaveFails, DeleteFails
<1>7. ASSUME NEW pc \in {"write", "use"}, Step(r, [request[r] EXCEPT !.pc = pc]),
             request[r].pc \in {"open", "write"}, UNCHANGED <<scheduled, saved>>
      PROVE  /\ request'[r].pc = pc /\ request'[r].key = request[r].key
             /\ request'[r].act.key = request'[r].key /\ saved' = scheduled'
  <2>1. request[r] \in [pc : {"open", "write", "use"}, key : Keys \cup {NoKey}, act : Activations]
    BY <1>7 DEF TypeOK, Idle
  <2>2. request'[r] = [request[r] EXCEPT !.pc = pc]
    BY <1>7, StepMovesOne
  <2>3. request'[r].pc = pc /\ request'[r].key = request[r].key /\ request'[r].act = request[r].act
    BY <2>1, <2>2
  <2>4. request[r].act.key = request[r].key BY <1>1, <1>7 DEF KeysInv
  <2>5. saved = scheduled BY <1>1, <1>7 DEF TargetsInv
  <2> QED BY <1>7, <2>3, <2>4, <2>5
<1>10. CASE OpenKeyFile(r)
  <2>1. /\ request'[r].pc = "write" /\ request'[r].act.key = request'[r].key
        /\ saved' = scheduled' /\ keyFile' = NoKey
    BY <1>7, <1>10 DEF OpenKeyFile
  <2> QED BY <1>1, <2>1, OneRequestTells
<1>11. CASE WriteKey(r)
  <2>1. keyFile = NoKey BY <1>1, <1>11 DEF WriteKey, KeysInv
  <2>2. keyFile' = request[r].key BY <1>11, <2>1 DEF WriteKey, Written
  <2>3. /\ request'[r].pc = "use" /\ request'[r].key = request[r].key
        /\ request'[r].act.key = request'[r].key /\ saved' = scheduled'
    BY <1>7, <1>11 DEF WriteKey
  <2> QED BY <1>1, <2>2, <2>3, OneRequestTells
<1>8. CASE UseKey(r)
  <2>1. request'[r].pc = "idle"
    BY <1>8, StepMovesOne DEF UseKey, Idle
  <2>2. saved' = scheduled' BY <1>1, <1>8 DEF UseKey, TargetsInv
  <2>3. activation'.key = keyFile' BY <1>1, <1>8 DEF UseKey, KeysInv
  <2>4. InForce' BY <2>3 DEF InForce
  <2> QED BY <1>1, <2>1, <2>2, <2>4, OneRequestTells
<1> QED BY <1>3, <1>4, <1>5, <1>6, <1>8, <1>9, <1>10, <1>11 DEF Serving

(* So does a request that comes in.                                         *)
LEMMA AskingKeepsCalm ==
    ASSUME TypeOK, CalmInv, NEW r \in Requests, Asked(r)
    PROVE  CalmInv'
<1> SUFFICES ASSUME calm' PROVE CalmInv'
  BY DEF CalmInv
<1>1. /\ TargetsInv /\ KeysInv /\ Quiet
      /\ \A q \in Requests \ {r} : request'[q] = Idle
  <2>1. request[r] = Idle BY DEF Asked, CheckLimit, RemoveTarget, CheckKey, MayServe
  <2> QED BY <2>1, AloneWhenCalm
<1>2. saved = scheduled BY <1>1 DEF TargetsInv
<1>3. ~torn => InForce BY <1>1 DEF KeysInv, Quiet, Idle
<1>4. ASSUME NEW t \in Targets, CheckLimit(r, t) PROVE CalmInv'
  <2>1. request'[r].pc = "add" BY <1>4, StepMovesOne DEF CheckLimit
  <2>2. saved' = scheduled' BY <1>2, <1>4 DEF CheckLimit
  <2>3. ~torn' => InForce' BY <1>3, <1>4 DEF CheckLimit, InForce, Activate
  <2> QED BY <1>1, <2>1, <2>2, <2>3, OneRequestTells
<1>5. ASSUME NEW t \in Targets, RemoveTarget(r, t) PROVE CalmInv'
  <2>1. request'[r].pc = "delete" /\ request'[r].target = t
    BY <1>5, StepMovesOne DEF RemoveTarget
  <2>2. scheduled' = saved' \ {t} BY <1>2, <1>5 DEF RemoveTarget
  <2>3. ~torn' => InForce' BY <1>3, <1>5 DEF RemoveTarget, InForce, Activate
  <2> QED BY <1>1, <2>1, <2>2, <2>3, OneRequestTells
<1>6. ASSUME NEW key \in Keys \cup {NoKey}, CheckKey(r, key) PROVE CalmInv'
  <2>1. request'[r] = [pc |-> "open", key |-> key, act |-> Activate(key, day)]
    BY <1>6, StepMovesOne DEF CheckKey
  <2>2. day \in Nat BY MaxDayAssumption DEF TypeOK
  <2>3. Activate(key, day).key = key BY <1>6, <2>2, AcceptedKey DEF CheckKey
  <2>4. request'[r].pc = "open" /\ request'[r].act.key = request'[r].key
    BY <2>1, <2>3
  <2>5. saved' = scheduled' BY <1>2, <1>6 DEF CheckKey
  <2>6. ~torn' => InForce' BY <1>3, <1>6 DEF CheckKey, InForce, Activate
  <2> QED BY <1>1, <2>4, <2>5, <2>6, OneRequestTells
<1> QED BY <1>4, <1>5, <1>6 DEF Asked

(* A key that gives nothing today gives nothing tomorrow.                   *)
LEMMA NextDayKeepsInForce ==
    ASSUME TypeOK, InForce, NextDay
    PROVE  InForce'
<1>1. keyFile \in Keys \cup {NoKey} /\ day \in Nat /\ day' = day + 1
  BY MaxDayAssumption DEF TypeOK, NextDay
<1>2. UNCHANGED <<keyFile, activation>> BY DEF NextDay
<1>3. Activate(keyFile, day + 1).key = keyFile => Activate(keyFile, day).key = keyFile
  <2>1. CASE keyFile = NoKey BY <2>1 DEF Activate, Free
  <2>2. CASE keyFile # NoKey
    <3>1. keyFile.expires \in Nat BY <1>1, <2>2, KeysAssumption
    <3>2. day + 1 <= keyFile.expires => day <= keyFile.expires BY <1>1, <3>1
    <3>3. Activate(keyFile, day + 1).key = keyFile => keyFile.genuine /\ day + 1 <= keyFile.expires
      BY <2>2 DEF Activate, Free
    <3> QED BY <2>2, <3>2, <3>3 DEF Activate
  <2> QED BY <2>1, <2>2
<1> QED BY <1>1, <1>2, <1>3 DEF InForce

(* The invariant of a calm program: one request at most is under way, and   *)
(* what it has left undone is known.                                       *)
THEOREM CalmStaysSettled == Spec => []CalmInv
<1>1. Init => CalmInv
  BY DEF Init, CalmInv, OneAtATime, TargetsInv, KeysInv, InForce, Free, Idle
<1>2. TypeOK /\ CalmInv /\ [Next]_vars => CalmInv'
  <2> SUFFICES ASSUME TypeOK, CalmInv, [Next]_vars, calm' PROVE CalmInv'
    BY DEF CalmInv
  <2>1. CASE Restart
    <3>1. keyFile' \in Keys \cup {NoKey} /\ day' \in Nat
      BY <2>1, MaxDayAssumption DEF Restart, TypeOK
    <3>2. activation' = Activate(keyFile', day') BY <2>1 DEF Restart
    <3>3. activation'.key \in {keyFile', NoKey} BY <3>1, <3>2, ActivateKey
    <3>4. InForce' BY <3>2, <3>3 DEF InForce
    <3>5. saved' = scheduled' BY <2>1 DEF Restart
    <3>6. \A r \in Requests : request'[r] = Idle BY <2>1 DEF Restart
    <3>7. \A r \in Requests : request'[r].pc = "idle" BY <3>6 DEF Idle
    <3> QED BY <3>4, <3>5, <3>6, <3>7 DEF CalmInv, OneAtATime, TargetsInv, KeysInv
  <2>2. CASE NextDay
    <3>1. UNCHANGED <<scheduled, saved, keyFile, activation, request, calm, torn>> BY <2>2 DEF NextDay
    <3>2. InForce => InForce' BY <2>2, NextDayKeepsInForce
    <3>3. OneAtATime' /\ TargetsInv' BY <3>1 DEF CalmInv, OneAtATime, TargetsInv, Quiet
    <3>4. KeysInv' BY <3>1, <3>2 DEF CalmInv, KeysInv
    <3> QED BY <3>3, <3>4 DEF CalmInv
  <2>3. CASE \E r \in Requests : Serving(r) \/ Asked(r)
    BY <2>3, ServingKeepsCalm, AskingKeepsCalm
  <2>4. CASE UNCHANGED vars
    BY <2>4 DEF vars, CalmInv, OneAtATime, TargetsInv, KeysInv, InForce, Quiet, Activate
  <2> QED BY <2>1, <2>2, <2>3, <2>4 DEF Next
<1> QED BY <1>1, <1>2, TypeCorrect, PTL DEF Spec

(* "a restart restores them exactly" (targets.go:3-4), as long as requests  *)
(* come one at a time and the store works.                                  *)
THEOREM CalmRestores == Spec => []CalmRestartRestores
<1>1. CalmInv => CalmRestartRestores
  BY DEF CalmInv, TargetsInv, CalmRestartRestores, RestartRestores
<1> QED BY <1>1, CalmStaysSettled, PTL

(* With requests one at a time and no write failed half way since a key was *)
(* last taken or the program last started, the key in force is the key in   *)
(* the file (server.go:359-367).                                           *)
THEOREM CalmFileInForce == Spec => []CalmFileIsInForce
<1>1. CalmInv => CalmFileIsInForce
  <2>1. Quiet => \A r \in Requests : request[r].pc \notin {"write", "use"} BY DEF Quiet, Idle
  <2> QED BY <2>1 DEF CalmInv, KeysInv, InForce, CalmFileIsInForce, FileIsInForce
<1> QED BY <1>1, CalmStaysSettled, PTL
=============================================================================
