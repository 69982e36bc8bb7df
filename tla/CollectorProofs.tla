--------------------------- MODULE CollectorProofs ---------------------------
(***************************************************************************)
(* Theorems of Collector for every set of scans, validators, hosts and     *)
(* ports: types and the ownership gate with every fault; that a report     *)
(* invents nothing, and, unless it was cut, misses nothing.                *)
(***************************************************************************)
EXTENDS Collector, FiniteSetTheorems, TLAPS

USE HostsAssumption, BudgetAssumption, BoundsAssumption

(* What names resolve to is a part of the inventory of the domain.          *)
LEMMA LiveNamesSound ==
    ASSUME NEW s, NEW names \in SUBSET Hosts, NEW live \in LiveNames(s, names)
    PROVE  live \in SUBSET Hosts
BY Zenon DEF LiveNames

(* The locals of a scan that has not begun are locals.                      *)
LEMMA IdleScanType == IdleScan \in ScanLocals
BY DEF IdleScan, ScanLocals, NoChallenge, Challenge

(* A step of a scan that leaves well-typed locals leaves all of it so.      *)
LEMMA LocalType ==
    ASSUME TypeOK, NEW s \in Scans, NEW locals \in ScanLocals, Local(s, locals)
    PROVE  scan' \in [Scans -> ScanLocals]
<1>1. scan \in [Scans -> ScanLocals]
  BY DEF TypeOK
<1> HIDE DEF ScanLocals
<1> QED BY <1>1 DEF Local

(* Types survive a step that changes the locals of scans alone.             *)
LEMMA UnsharedType ==
    ASSUME TypeOK, UNCHANGED Unshared, scan' \in [Scans -> ScanLocals]
    PROVE  TypeOK'
<1> USE DEF TypeOK, Unshared, world
<1> QED BY DEF Challenge, NoChallenge

(* What the types say of the locals of one scan.                            *)
LEMMA ScanFields ==
    ASSUME TypeOK, NEW s \in Scans
    PROVE  /\ scan[s] \in ScanLocals
           /\ scan[s].ch \in Challenge /\ scan[s].expired \in BOOLEAN
           /\ scan[s].hosts \in SUBSET Hosts /\ scan[s].host \in Hosts
           /\ scan[s].ports \in SUBSET Ports /\ scan[s].port \in Ports \cup {0}
           /\ scan[s].found \in SUBSET Ports /\ scan[s].out \in SUBSET Finding
           /\ scan[s].steady \in SUBSET Endpoints /\ scan[s].glimpsed \in SUBSET Endpoints
<1>1. scan[s] \in ScanLocals
  <2>1. scan \in [Scans -> ScanLocals]
    BY DEF TypeOK
  <2> HIDE DEF ScanLocals
  <2> QED BY <2>1
<1> QED BY <1>1 DEF ScanLocals

(* A scan's step on its own locals keeps the types.                         *)
LEMMA LocalStep ==
    ASSUME TypeOK, NEW s \in Scans, NEW locals \in ScanLocals, Local(s, locals), UNCHANGED Unshared
    PROVE  TypeOK'
BY LocalType, UnsharedType

(* A token that can be found in place is a real one.                        *)
LEMMA VerifiedCopyType ==
    ASSUME NEW ch \in Challenge, ch.token \in 1..MaxTokens
    PROVE  [ch EXCEPT !.state = "verified"] \in Challenge
BY DEF Challenge, NoChallenge

(* What a scan reports is a finding.                                        *)
LEMMA AboutType ==
    ASSUME NEW check \in {"coverage", "asset", "exposure", "tls"}, NEW name \in Hosts \cup Wildcards,
           NEW port \in Ports \cup {0}
    PROVE  About(check, name, port) \in Finding
BY DEF About, Finding

(* Every step of a scan on its locals alone leaves them well typed.         *)
LEMMA ScanStepType ==
    ASSUME TypeOK, NEW s \in Scans, Get(s) \/ ScanStep(s) \/ Expire(s)
    PROVE  TypeOK'
<1>fields. /\ scan[s] \in ScanLocals
           /\ scan[s].ch \in Challenge /\ scan[s].expired \in BOOLEAN
           /\ scan[s].hosts \in SUBSET Hosts /\ scan[s].host \in Hosts
           /\ scan[s].ports \in SUBSET Ports /\ scan[s].port \in Ports \cup {0}
           /\ scan[s].found \in SUBSET Ports /\ scan[s].out \in SUBSET Finding
           /\ scan[s].steady \in SUBSET Endpoints /\ scan[s].glimpsed \in SUBSET Endpoints
  BY ScanFields
<1>shared. challenge \in Challenge /\ placed \subseteq 1..MaxTokens /\ open \subseteq Endpoints
  BY DEF TypeOK
<1>1. CASE Get(s)
  <2> DEFINE locals == [IdleScan EXCEPT !.pc = AfterGet(challenge), !.ch = challenge, !.steady = open, !.glimpsed = open]
  <2>1. AfterGet(challenge) \in {"done", "check", "discover"}
    BY <1>shared DEF AfterGet, Challenge, NoChallenge
  <2>2. locals \in ScanLocals
    BY <1>shared, <2>1, IdleScanType DEF ScanLocals
  <2>3. Local(s, locals) /\ UNCHANGED Unshared
    BY <1>1 DEF Get
  <2> HIDE DEF locals
  <2> QED BY <2>2, <2>3, LocalStep
<1>2. CASE GetFails(s)
  <2> DEFINE locals == [IdleScan EXCEPT !.pc = "failed"]
  <2>1. locals \in ScanLocals
    BY <1>fields, <1>shared, IdleScanType DEF ScanLocals
  <2>2. Local(s, locals) /\ UNCHANGED Unshared
    BY <1>2 DEF GetFails
  <2> HIDE DEF locals
  <2> QED BY <2>1, <2>2, LocalStep
<1>3. CASE CheckPasses(s)
  <2> DEFINE locals == [scan[s] EXCEPT !.pc = "put", !.ch = [scan[s].ch EXCEPT !.state = "verified"]]
  <2>1. scan[s].ch.token \in 1..MaxTokens
    BY <1>3, <1>shared DEF CheckPasses, Satisfied
  <2>2. [scan[s].ch EXCEPT !.state = "verified"] \in Challenge
    BY <1>fields, <2>1, VerifiedCopyType
  <2>3. locals \in ScanLocals
    BY <1>fields, <2>2 DEF ScanLocals
  <2>4. Local(s, locals) /\ UNCHANGED <<challenge, issued, validator, world>> /\ proved' \subseteq proved \cup placed
    BY <1>3 DEF CheckPasses
  <2> HIDE DEF locals
  <2>5. scan' \in [Scans -> ScanLocals]
    BY <2>3, <2>4, LocalType
  <2> QED BY <2>4, <2>5 DEF TypeOK, world, Challenge, NoChallenge
<1>4. CASE CheckFails(s)
  <2> DEFINE locals == [scan[s] EXCEPT !.pc = "done"]
  <2>1. locals \in ScanLocals
    BY <1>fields, <1>shared DEF ScanLocals
  <2>2. Local(s, locals) /\ UNCHANGED Unshared
    BY <1>4 DEF CheckFails
  <2> HIDE DEF locals
  <2> QED BY <2>1, <2>2, LocalStep
<1>5. CASE PutVerified(s)
  <2> DEFINE locals == [scan[s] EXCEPT !.pc = "discover"]
  <2>1. locals \in ScanLocals
    BY <1>fields DEF ScanLocals
  <2>2. Local(s, locals) /\ UNCHANGED <<issued, validator, proved, world>> /\ challenge' = scan[s].ch
    BY <1>5 DEF PutVerified
  <2> HIDE DEF locals
  <2>3. scan' \in [Scans -> ScanLocals]
    BY <2>1, <2>2, LocalType
  <2> QED BY <1>fields, <2>2, <2>3 DEF TypeOK, world
<1>6. CASE PutVerifiedFails(s)
  <2> DEFINE locals == [scan[s] EXCEPT !.pc = "discover"]
  <2>1. locals \in ScanLocals
    BY <1>fields, <1>shared DEF ScanLocals
  <2>2. Local(s, locals) /\ UNCHANGED Unshared
    BY <1>6 DEF PutVerifiedFails
  <2> HIDE DEF locals
  <2> QED BY <2>1, <2>2, LocalStep
<1>7. CASE DiscoverAll(s)
  <2>1. PICK live \in LiveNames(s, Hosts) :
            Local(s, [scan[s] EXCEPT !.pc = "hosts", !.hosts = live,
                                     !.out = {About("coverage", w, 0) : w \in Wildcards}])
    BY <1>7 DEF DiscoverAll
  <2> DEFINE coverage == {About("coverage", w, 0) : w \in Wildcards}
             locals == [scan[s] EXCEPT !.pc = "hosts", !.hosts = live, !.out = coverage]
  <2>2. live \in SUBSET Hosts
    BY LiveNamesSound
  <2>3. coverage \in SUBSET Finding
    BY AboutType
  <2>4. Local(s, locals) /\ UNCHANGED Unshared
    BY <1>7, <2>1 DEF DiscoverAll
  <2> HIDE DEF coverage
  <2>5. locals \in ScanLocals
    BY <1>fields, <2>2, <2>3 DEF ScanLocals
  <2> HIDE DEF locals
  <2> QED BY <2>4, <2>5, LocalStep
<1>8. CASE DiscoverRoot(s)
  <2>1. PICK live \in LiveNames(s, {Root}) : Local(s, [scan[s] EXCEPT !.pc = "hosts", !.hosts = live])
    BY <1>8 DEF DiscoverRoot
  <2> DEFINE locals == [scan[s] EXCEPT !.pc = "hosts", !.hosts = live]
  <2>2. live \in SUBSET Hosts
    BY LiveNamesSound
  <2>3. locals \in ScanLocals
    BY <1>fields, <2>2 DEF ScanLocals
  <2>4. Local(s, locals) /\ UNCHANGED Unshared
    BY <1>8, <2>1 DEF DiscoverRoot
  <2> HIDE DEF locals
  <2> QED BY <2>3, <2>4, LocalStep
<1>9. CASE \E h \in Hosts : NextHost(s, h)
  <2>1. PICK h \in Hosts : NextHost(s, h)
    BY <1>9
  <2> DEFINE out == scan[s].out \cup {About("asset", h, 0)}
             locals == [scan[s] EXCEPT !.pc = "probe", !.hosts = scan[s].hosts \ {h}, !.host = h, !.ports = Ports,
                                       !.found = {}, !.out = out]
  <2>2. out \in SUBSET Finding
    BY <1>fields, AboutType
  <2>3. Local(s, locals) /\ UNCHANGED Unshared
    BY <2>1 DEF NextHost
  <2> HIDE DEF out
  <2>4. locals \in ScanLocals
    BY <1>fields, <2>2 DEF ScanLocals
  <2> HIDE DEF locals
  <2> QED BY <2>3, <2>4, LocalStep
<1>10. CASE \E p \in Ports : Dial(s, p)
  <2>1. PICK p \in Ports : Dial(s, p)
    BY <1>10
  <2> DEFINE locals == [scan[s] EXCEPT !.pc = "dial", !.ports = scan[s].ports \ {p}, !.port = p]
  <2>2. locals \in ScanLocals
    BY <1>fields DEF ScanLocals
  <2>3. Local(s, locals) /\ UNCHANGED Unshared
    BY <2>1 DEF Dial
  <2> HIDE DEF locals
  <2> QED BY <2>2, <2>3, LocalStep
<1>11. CASE \E p \in Ports : TLSQuiet(s, p)
  <2>1. PICK p \in Ports : TLSQuiet(s, p)
    BY <1>11
  <2> DEFINE locals == [scan[s] EXCEPT !.ports = scan[s].ports \ {p}]
  <2>2. locals \in ScanLocals
    BY <1>fields DEF ScanLocals
  <2>3. Local(s, locals) /\ UNCHANGED Unshared
    BY <2>1 DEF TLSQuiet
  <2> HIDE DEF locals
  <2> QED BY <2>2, <2>3, LocalStep
<1>12. CASE \E p \in Ports : TLSGraded(s, p)
  <2>1. PICK p \in Ports : TLSGraded(s, p)
    BY <1>12
  <2> DEFINE out == scan[s].out \cup {About("tls", scan[s].host, p)}
             locals == [scan[s] EXCEPT !.ports = scan[s].ports \ {p}, !.out = out]
  <2>2. out \in SUBSET Finding
    BY <1>fields, AboutType
  <2>3. Local(s, locals) /\ UNCHANGED Unshared
    BY <2>1 DEF TLSGraded
  <2> HIDE DEF out
  <2>4. locals \in ScanLocals
    BY <1>fields, <2>2 DEF ScanLocals
  <2> HIDE DEF locals
  <2> QED BY <2>3, <2>4, LocalStep
<1>13. CASE DialAnswers(s)
  <2> DEFINE locals == [scan[s] EXCEPT !.pc = "probe", !.found = scan[s].found \cup {scan[s].port}]
  <2>1. scan[s].port \in Ports
    BY <1>13, <1>shared DEF DialAnswers, Endpoints
  <2>2. locals \in ScanLocals
    BY <1>fields, <2>1 DEF ScanLocals
  <2>3. Local(s, locals) /\ UNCHANGED Unshared
    BY <1>13 DEF DialAnswers
  <2> HIDE DEF locals
  <2> QED BY <2>2, <2>3, LocalStep
<1>14. CASE DialFails(s)
  <2> DEFINE locals == [scan[s] EXCEPT !.pc = "probe"]
  <2>1. locals \in ScanLocals
    BY <1>fields, <1>shared DEF ScanLocals
  <2>2. Local(s, locals) /\ UNCHANGED Unshared
    BY <1>14 DEF DialFails
  <2> HIDE DEF locals
  <2> QED BY <2>1, <2>2, LocalStep
<1>15. CASE ProbeCut(s)
  <2> DEFINE locals == [scan[s] EXCEPT !.pc = "hosts", !.hosts = scan[s].hosts, !.ports = {}, !.found = {}]
  <2>1. locals \in ScanLocals
    BY <1>fields DEF ScanLocals
  <2>2. Local(s, locals) /\ UNCHANGED Unshared
    BY <1>15 DEF ProbeCut, HostsAfterCut
  <2> HIDE DEF locals
  <2> QED BY <2>1, <2>2, LocalStep
<1>16. CASE ProbeReturns(s)
  <2> DEFINE locals == [scan[s] EXCEPT !.pc = "tls", !.out = Reported(s), !.ports = scan[s].found \cap TLSPorts, !.found = {}]
  <2>1. Reported(s) \in SUBSET Finding
    BY <1>fields, AboutType DEF Reported
  <2>2. locals \in ScanLocals
    BY <1>fields, <2>1 DEF ScanLocals
  <2>3. Local(s, locals) /\ UNCHANGED Unshared
    BY <1>16 DEF ProbeReturns
  <2> HIDE DEF locals
  <2> QED BY <2>2, <2>3, LocalStep
<1>17. CASE HostDone(s)
  <2> DEFINE locals == [scan[s] EXCEPT !.pc = "hosts"]
  <2>1. locals \in ScanLocals
    BY <1>fields, <1>shared DEF ScanLocals
  <2>2. Local(s, locals) /\ UNCHANGED Unshared
    BY <1>17 DEF HostDone
  <2> HIDE DEF locals
  <2> QED BY <2>1, <2>2, LocalStep
<1>18. CASE Return(s)
  <2> DEFINE locals == [scan[s] EXCEPT !.pc = "done"]
  <2>1. locals \in ScanLocals
    BY <1>fields, <1>shared DEF ScanLocals
  <2>2. Local(s, locals) /\ UNCHANGED Unshared
    BY <1>18 DEF Return
  <2> HIDE DEF locals
  <2> QED BY <2>1, <2>2, LocalStep
<1>19. CASE Taken(s)
  <2> DEFINE locals == IdleScan
  <2>1. locals \in ScanLocals
    BY <1>fields, <1>shared, IdleScanType DEF ScanLocals
  <2>2. Local(s, locals) /\ UNCHANGED Unshared
    BY <1>19 DEF Taken
  <2> HIDE DEF locals
  <2> QED BY <2>1, <2>2, LocalStep
<1>20. CASE Expire(s)
  <2> DEFINE locals == [scan[s] EXCEPT !.expired = TRUE]
  <2>1. locals \in ScanLocals
    BY <1>fields, <1>shared DEF ScanLocals
  <2>2. Local(s, locals) /\ UNCHANGED Unshared
    BY <1>20 DEF Expire
  <2> HIDE DEF locals
  <2> QED BY <2>1, <2>2, LocalStep
<1> QED BY <1>1, <1>2, <1>3, <1>4, <1>5, <1>6, <1>7, <1>8, <1>9, <1>10, <1>11, <1>12, <1>13, <1>14, <1>15, <1>16, <1>17, <1>18, <1>19, <1>20 DEF ScanStep

(* The world's steps, and ValidateTarget's.                                 *)
LEMMA OtherStepType ==
    ASSUME TypeOK, Owner \/ \E v \in Validators : ValidatorStep(v)
    PROVE  TypeOK'
<1>1. CASE \E v \in Validators : ValidatorStep(v)
  <2>1. PICK v \in Validators : ValidatorStep(v)
    BY <1>1
  <2>2. CASE Validate(v)
    <3>1. issued + 1 \in 0..MaxTokens
      BY <2>2 DEF Validate, NeedsChallenge, TypeOK
    <3> QED BY <2>2, <3>1 DEF Validate, TypeOK, world
  <2>3. CASE PutChallenge(v)
    <3>1. NewChallenge(v) \in Challenge
      BY <2>3 DEF PutChallenge, NewChallenge, Challenge, TypeOK
    <3>2. 0 \in 0..MaxTokens
      OBVIOUS
    <3> QED BY <2>3, <3>1, <3>2 DEF PutChallenge, TypeOK, world
  <2>4. CASE PutChallengeFails(v)
    <3>1. 0 \in 0..MaxTokens
      OBVIOUS
    <3> QED BY <2>4, <3>1 DEF PutChallengeFails, TypeOK, world
  <2> QED BY <2>1, <2>2, <2>3, <2>4 DEF ValidatorStep
<1>2. ASSUME NEW tokens \in SUBSET (1..MaxTokens), SetPlaced(tokens)
      PROVE  TypeOK'
  BY <1>2 DEF SetPlaced, TypeOK
<1>3. ASSUME NEW endpoints \in SUBSET Endpoints, SetOpen(endpoints)
      PROVE  TypeOK'
  <2> DEFINE locals(s) == IF scan[s].pc = "idle" THEN IdleScan
                          ELSE [scan[s] EXCEPT !.steady = scan[s].steady \cap endpoints,
                                               !.glimpsed = scan[s].glimpsed \cup endpoints]
  <2>1. scan' = [s \in Scans |-> locals(s)]
    BY <1>3 DEF SetOpen
  <2>2. ASSUME NEW s \in Scans
        PROVE  locals(s) \in ScanLocals
    BY ScanFields, IdleScanType DEF ScanLocals
  <2> HIDE DEF locals
  <2>3. scan' \in [Scans -> ScanLocals]
    <3> HIDE DEF ScanLocals
    <3> QED BY <2>1, <2>2
  <2>4. /\ changes < MaxChanges /\ changes' = changes + 1 /\ open' = endpoints
        /\ UNCHANGED <<challenge, issued, validator, placed, proved>>
    BY <1>3 DEF SetOpen
  <2> QED BY <1>3, <2>3, <2>4 DEF TypeOK, Challenge, NoChallenge
<1>4. CASE Owner
  <2>1. placed \subseteq 1..MaxTokens /\ open \subseteq Endpoints /\ 1..issued \subseteq 1..MaxTokens
    BY DEF TypeOK
  <2>2. ASSUME NEW t \in 1..issued, SetPlaced(placed \cup {t})
        PROVE  TypeOK'
    BY <1>2, <2>1, <2>2
  <2>3. ASSUME NEW t \in placed, SetPlaced(placed \ {t})
        PROVE  TypeOK'
    BY <1>2, <2>1, <2>3
  <2>4. ASSUME NEW e \in Endpoints \ open, SetOpen(open \cup {e})
        PROVE  TypeOK'
    BY <1>3, <2>1, <2>4
  <2>5. ASSUME NEW e \in open, SetOpen(open \ {e})
        PROVE  TypeOK'
    BY <1>3, <2>1, <2>5
  <2> QED BY <1>4, <2>2, <2>3, <2>4, <2>5 DEF Owner
<1> QED BY <1>1, <1>4

(* Every variable stays of its type, whatever fails and whoever races.      *)
THEOREM TypeCorrect == Spec => []TypeOK
<1>1. Init => TypeOK
  <2> SUFFICES ASSUME Init PROVE TypeOK
    OBVIOUS
  <2>1. scan \in [Scans -> ScanLocals]
    <3> HIDE DEF ScanLocals, IdleScan
    <3> QED BY IdleScanType DEF Init
  <2> QED BY <2>1 DEF Init, TypeOK, Challenge, NoChallenge
<1>2. TypeOK /\ [Next]_vars => TypeOK'
  <2>1. ASSUME TypeOK, UNCHANGED vars
        PROVE  TypeOK'
    BY <2>1 DEF TypeOK, vars
  <2> QED BY <2>1, ScanStepType, OtherStepType DEF Next
<1> QED BY <1>1, <1>2, PTL DEF Spec

-----------------------------------------------------------------------------
(* The gate.  ProvedBeforeProbed is inductive on typed states: a scan's own *)
(* copy of the challenge is checked before it is written back or acted on. *)

(* A scan's step looks into nothing and writes nothing as verified but what *)
(* was proved.                                                              *)
LEMMA GateScanStep ==
    ASSUME TypeOK, TypeOK', ProvedBeforeProbed, NEW s \in Scans, Get(s) \/ ScanStep(s) \/ Expire(s)
    PROVE  ProvedBeforeProbed'
<1> DEFINE Opened(locals, seen) ==
        locals.pc \in {"put", "discover", "hosts", "probe", "dial", "tls"}
            => locals.ch.state = "verified" /\ locals.ch.token \in seen
<1>1. /\ challenge.state = "verified" => challenge.token \in proved
      /\ \A r \in Scans : Opened(scan[r], proved)
  BY DEF ProvedBeforeProbed, Probing
<1>2. scan \in [Scans -> ScanLocals]
  BY DEF TypeOK
<1>3. proved \subseteq proved' /\ \A r \in Scans \ {s} : scan'[r] = scan[r]
  <2> HIDE DEF ScanLocals
  <2> QED BY <1>2 DEF Get, ScanStep, Expire, GetFails, CheckPasses, CheckFails, PutVerified, PutVerifiedFails,
       DiscoverAll, DiscoverRoot, NextHost, Dial, TLSGraded, TLSQuiet, DialAnswers, DialFails, ProbeCut,
       ProbeReturns, HostDone, Return, Taken, Local, Unshared
<1>4. Opened(scan'[s], proved') /\ (challenge'.state = "verified" => challenge'.token \in proved')
  <2>1. scan[s] \in ScanLocals /\ challenge \in Challenge
    BY ScanFields DEF TypeOK
  <2>2. CASE Get(s)
    BY <1>1, <1>2, <2>1, <2>2 DEF Get, AfterGet, Local, Unshared, IdleScan, Challenge, NoChallenge
  <2>3. CASE CheckPasses(s)
    <3>1. scan'[s] = [scan[s] EXCEPT !.pc = "put", !.ch = [scan[s].ch EXCEPT !.state = "verified"]]
      BY <1>2, <2>3 DEF CheckPasses, Local
    <3>2. scan'[s].ch.state = "verified" /\ scan'[s].ch.token = scan[s].ch.token
      BY <2>1, <3>1 DEF ScanLocals, Challenge, NoChallenge
    <3>3. scan[s].ch.token \in proved' /\ challenge' = challenge
      BY <2>3 DEF CheckPasses, Satisfied
    <3> QED BY <1>1, <1>3, <3>2, <3>3
  <2>4. CASE PutVerified(s)
    <3>1. scan'[s] = [scan[s] EXCEPT !.pc = "discover"] /\ challenge' = scan[s].ch /\ proved' = proved
      BY <1>2, <2>4 DEF PutVerified, Local
    <3>2. scan[s].ch.state = "verified" /\ scan[s].ch.token \in proved
      BY <1>1, <2>4 DEF PutVerified
    <3> QED BY <2>1, <3>1, <3>2 DEF ScanLocals
  <2>5. CASE GetFails(s) \/ Taken(s) \/ CheckFails(s) \/ Return(s)
    BY <1>1, <1>2, <2>1, <2>5 DEF GetFails, Taken, CheckFails, Return, Local, Unshared, IdleScan, ScanLocals
  <2>6. CASE \/ PutVerifiedFails(s) \/ DiscoverAll(s) \/ DiscoverRoot(s) \/ DialAnswers(s) \/ DialFails(s)
             \/ ProbeCut(s) \/ ProbeReturns(s) \/ HostDone(s) \/ Expire(s)
             \/ (\E h \in Hosts : NextHost(s, h))
             \/ (\E p \in Ports : Dial(s, p) \/ TLSGraded(s, p) \/ TLSQuiet(s, p))
    <3> DEFINE Keeps == /\ UNCHANGED <<challenge, proved>>
                        /\ scan'[s].ch = scan[s].ch
                        /\ \/ scan[s].pc \in {"put", "discover", "hosts", "probe", "dial", "tls"}
                           \/ scan'[s].pc = scan[s].pc
    <3>1. ASSUME PutVerifiedFails(s)
         PROVE  Keeps
      BY <1>2, <2>1, <3>1 DEF PutVerifiedFails, Local, Unshared, ScanLocals
    <3>2. ASSUME DiscoverAll(s)
         PROVE  Keeps
      BY <1>2, <2>1, <3>2 DEF DiscoverAll, Local, Unshared, ScanLocals
    <3>3. ASSUME DiscoverRoot(s)
         PROVE  Keeps
      BY <1>2, <2>1, <3>3 DEF DiscoverRoot, Local, Unshared, ScanLocals
    <3>4. ASSUME DialAnswers(s)
         PROVE  Keeps
      BY <1>2, <2>1, <3>4 DEF DialAnswers, Local, Unshared, ScanLocals
    <3>5. ASSUME DialFails(s)
         PROVE  Keeps
      BY <1>2, <2>1, <3>5 DEF DialFails, Local, Unshared, ScanLocals
    <3>6. ASSUME ProbeCut(s)
         PROVE  Keeps
      BY <1>2, <2>1, <3>6 DEF ProbeCut, Local, Unshared, ScanLocals
    <3>7. ASSUME ProbeReturns(s)
         PROVE  Keeps
      BY <1>2, <2>1, <3>7 DEF ProbeReturns, Local, Unshared, ScanLocals
    <3>8. ASSUME HostDone(s)
         PROVE  Keeps
      BY <1>2, <2>1, <3>8 DEF HostDone, Local, Unshared, ScanLocals
    <3>9. ASSUME Expire(s)
         PROVE  Keeps
      BY <1>2, <2>1, <3>9 DEF Expire, Local, Unshared, ScanLocals
    <3>10. ASSUME \E h \in Hosts : NextHost(s, h)
         PROVE  Keeps
      BY <1>2, <2>1, <3>10 DEF NextHost, Local, Unshared, ScanLocals
    <3>11. ASSUME \E p \in Ports : Dial(s, p)
         PROVE  Keeps
      BY <1>2, <2>1, <3>11 DEF Dial, Local, Unshared, ScanLocals
    <3>12. ASSUME \E p \in Ports : TLSGraded(s, p)
         PROVE  Keeps
      BY <1>2, <2>1, <3>12 DEF TLSGraded, Local, Unshared, ScanLocals
    <3>13. ASSUME \E p \in Ports : TLSQuiet(s, p)
         PROVE  Keeps
      BY <1>2, <2>1, <3>13 DEF TLSQuiet, Local, Unshared, ScanLocals
    <3>14. Keeps
      BY <2>6, <3>1, <3>2, <3>3, <3>4, <3>5, <3>6, <3>7, <3>8, <3>9, <3>10, <3>11, <3>12, <3>13
    <3> QED BY <1>1, <3>14
  <2> QED BY <2>2, <2>3, <2>4, <2>5, <2>6 DEF ScanStep
<1>5. \A r \in Scans : Opened(scan'[r], proved')
  BY <1>1, <1>3, <1>4
<1> QED BY <1>4, <1>5 DEF ProvedBeforeProbed, Probing

(* A validator's or the owner's step verifies nothing.                      *)
LEMMA GateOtherStep ==
    ASSUME TypeOK, ProvedBeforeProbed, Owner \/ \E v \in Validators : ValidatorStep(v)
    PROVE  ProvedBeforeProbed'
<1>1. CASE \E v \in Validators : ValidatorStep(v)
  BY <1>1 DEF ValidatorStep, Validate, PutChallenge, PutChallengeFails, NewChallenge, ProvedBeforeProbed, Probing
<1>2. CASE \E tokens : SetPlaced(tokens)
  BY <1>2 DEF SetPlaced, ProvedBeforeProbed, Probing
<1>3. CASE \E endpoints : SetOpen(endpoints)
  <2>1. PICK endpoints : SetOpen(endpoints)
    BY <1>3
  <2>2. \A s \in Scans : scan[s] \in ScanLocals
    BY ScanFields
  <2>3. ASSUME NEW s \in Scans
        PROVE  scan'[s].pc = scan[s].pc /\ (Probing(s) => scan'[s].ch = scan[s].ch)
    <3>1. scan'[s] = IF scan[s].pc = "idle" THEN IdleScan
                     ELSE [scan[s] EXCEPT !.steady = scan[s].steady \cap endpoints,
                                          !.glimpsed = scan[s].glimpsed \cup endpoints]
      BY <2>1 DEF SetOpen
    <3>2. CASE scan[s].pc = "idle"
      BY <3>1, <3>2 DEF IdleScan, Probing
    <3>3. CASE scan[s].pc # "idle"
      BY <2>2, <3>1, <3>3 DEF ScanLocals
    <3> QED BY <3>2, <3>3
  <2>4. UNCHANGED <<challenge, proved>>
    BY <2>1 DEF SetOpen
  <2> QED BY <2>3, <2>4 DEF ProvedBeforeProbed, Probing
<1> QED BY <1>1, <1>2, <1>3 DEF Owner

(* collector.go:115-125: no domain counts as verified, and none is looked   *)
(* into, but with a token that a check has seen in place, however scans,   *)
(* ValidateTarget and failing stores interleave.                           *)
THEOREM GateAlwaysHolds == Spec => []ProvedBeforeProbed
<1>1. Init => ProvedBeforeProbed
  BY DEF Init, ProvedBeforeProbed, Probing, NoChallenge, IdleScan
<1>2. TypeOK /\ TypeOK' /\ ProvedBeforeProbed /\ [Next]_vars => ProvedBeforeProbed'
  <2>1. ASSUME ProvedBeforeProbed, UNCHANGED vars
        PROVE  ProvedBeforeProbed'
    BY <2>1 DEF ProvedBeforeProbed, Probing, vars
  <2> QED BY <2>1, GateScanStep, GateOtherStep DEF Next
<1> QED BY <1>1, <1>2, TypeCorrect, PTL DEF Spec

-----------------------------------------------------------------------------
(* The report.  What the locals of a scan say of the endpoints, given those *)
(* open now: a scan past its Get knows an endpoint to be open only if it    *)
(* was at some moment since, and grades only what it reports.               *)
ExposedIn(locals) == {e \in Endpoints : About("exposure", e[1], e[2]) \in locals.out}

Seen(locals, now) ==
    /\ locals.pc \notin {"idle", "failed"} => locals.steady \subseteq now /\ now \subseteq locals.glimpsed
    /\ \A p \in locals.found : <<locals.host, p>> \in locals.glimpsed
    /\ ExposedIn(locals) \subseteq locals.glimpsed
    /\ \A f \in locals.out : f.check = "tls" => <<f.name, f.port>> \in ExposedIn(locals)
    /\ locals.pc = "tls" => \A p \in locals.ports : <<locals.host, p>> \in ExposedIn(locals)

(* An endpoint a running scan has neither reported nor passed over.         *)
StillToCome(locals, e) ==
    \/ locals.pc \in {"hosts", "probe", "dial", "tls"} /\ e[1] \in locals.hosts
    \/ /\ locals.pc \in {"probe", "dial"} /\ e[1] = locals.host
       /\ e[2] \in locals.ports \cup locals.found \/ (locals.pc = "dial" /\ e[2] = locals.port)

AnsweredIn(locals) == \A w \in Wildcards : About("coverage", w, 0) \in locals.out

(* Of a scan that was not cut short and that Certificate Transparency       *)
(* answered, every endpoint open all along is reported or still to come.    *)
Complete(locals) ==
    /\ locals.pc = "check" => locals.ch.state = "pending"
    /\ locals.pc \in {"check", "put", "discover"} => locals.out = {}
    /\ /\ locals.pc \in {"hosts", "probe", "dial", "tls", "done"}
       /\ locals.ch.state = "verified" /\ ~locals.expired /\ AnsweredIn(locals)
       => \A e \in locals.steady : e \in ExposedIn(locals) \/ StillToCome(locals, e)
(* Of what a step adds to the report only exposures are exposed.            *)
LEMMA Exposures ==
    ASSUME NEW old, NEW new
    PROVE  /\ \A name, port : new.out = old.out \cup {About("asset", name, port)} => ExposedIn(new) = ExposedIn(old)
           /\ \A name, port : new.out = old.out \cup {About("tls", name, port)} => ExposedIn(new) = ExposedIn(old)
           /\ new.out = {About("coverage", w, 0) : w \in Wildcards} => ExposedIn(new) = {}
           /\ new.out = old.out => ExposedIn(new) = ExposedIn(old)
           /\ new.out = {} => ExposedIn(new) = {}
<1>1. \A name, port, n, p : /\ About("exposure", n, p) # About("asset", name, port)
                              /\ About("exposure", n, p) # About("tls", name, port)
                              /\ About("exposure", n, p) # About("coverage", name, port)
  BY DEF About
<1>2. ASSUME NEW name, NEW port,
             \/ new.out = old.out \cup {About("asset", name, port)}
             \/ new.out = old.out \cup {About("tls", name, port)}
      PROVE  ExposedIn(new) = ExposedIn(old)
  <2>1. \A e \in Endpoints : About("exposure", e[1], e[2]) \in new.out <=> About("exposure", e[1], e[2]) \in old.out
    BY <1>1, <1>2
  <2> QED BY <2>1 DEF ExposedIn
<1>3. new.out = {About("coverage", w, 0) : w \in Wildcards} => ExposedIn(new) = {}
  BY <1>1 DEF ExposedIn
<1>4. /\ new.out = old.out => ExposedIn(new) = ExposedIn(old)
      /\ new.out = {} => ExposedIn(new) = {}
  BY DEF ExposedIn
<1> QED BY <1>2, <1>3, <1>4

(* A step on the locals that neither learns nor reports anything.           *)
LEMMA SeenStays ==
    ASSUME NEW old, NEW new, NEW now, Seen(old, now), old.pc \notin {"idle", "failed"},
           new.out = old.out, new.glimpsed = old.glimpsed, new.steady = old.steady, new.host = old.host,
           new.found = old.found \/ new.found = {},
           new.pc = "tls" => old.pc = "tls" /\ new.ports \subseteq old.ports
    PROVE  Seen(new, now)
<1>1. ExposedIn(new) = ExposedIn(old)
  BY Exposures
<1> QED BY <1>1 DEF Seen

(* A scan in which nothing is found or reported knows nothing wrong.        *)
LEMMA SeenNothing ==
    ASSUME NEW new, NEW now, new.out = {}, new.found = {}, new.pc # "tls",
           new.pc \notin {"idle", "failed"} => new.steady = now /\ new.glimpsed = now
    PROVE  Seen(new, now)
<1>1. ExposedIn(new) = {}
  BY Exposures
<1> QED BY <1>1 DEF Seen

(* A scan at work changes its own locals, and the world stands still.       *)
LEMMA OwnLocals ==
    ASSUME TypeOK, NEW s \in Scans, Get(s) \/ ScanStep(s) \/ Expire(s)
    PROVE  open' = open /\ \A r \in Scans \ {s} : scan'[r] = scan[r]
<1>1. scan \in [Scans -> ScanLocals]
  BY DEF TypeOK
<1> HIDE DEF ScanLocals
<1> QED BY <1>1 DEF Get, ScanStep, Expire, GetFails, CheckPasses, CheckFails, PutVerified, PutVerifiedFails,
       DiscoverAll, DiscoverRoot, NextHost, Dial, TLSGraded, TLSQuiet, DialAnswers, DialFails, ProbeCut,
       ProbeReturns, HostDone, Return, Taken, Local, Unshared, world

(* A scan's step leaves it with the locals the step says.                   *)
LEMMA LocalIs ==
    ASSUME TypeOK, NEW s \in Scans, NEW locals, Local(s, locals)
    PROVE  scan'[s] = locals
<1>1. scan \in [Scans -> ScanLocals]
  BY DEF TypeOK
<1> HIDE DEF ScanLocals
<1> QED BY <1>1 DEF Local

(* A scan's step puts nothing in hand that was not open.                    *)
LEMMA SeenScanStep ==
    ASSUME TypeOK, NEW s \in Scans, Seen(scan[s], open), Get(s) \/ ScanStep(s) \/ Expire(s)
    PROVE  Seen(scan'[s], open)
<1>fields. /\ scan[s] \in ScanLocals /\ scan[s].hosts \in SUBSET Hosts /\ scan[s].host \in Hosts
           /\ scan[s].found \in SUBSET Ports /\ scan[s].ports \in SUBSET Ports
  BY ScanFields
<1>1. CASE Get(s) \/ GetFails(s) \/ Taken(s)
  <2>1. ASSUME Get(s) PROVE Seen(scan'[s], open)
    <3> DEFINE new == [IdleScan EXCEPT !.pc = AfterGet(challenge), !.ch = challenge, !.steady = open, !.glimpsed = open]
    <3>1. AfterGet(challenge) # "tls"
      BY DEF AfterGet, TypeOK, Challenge, NoChallenge
    <3>2. /\ new.out = {} /\ new.found = {} /\ new.pc # "tls" /\ new.steady = open /\ new.glimpsed = open
      BY <3>1 DEF IdleScan
    <3>3. scan'[s] = new
      BY <2>1, LocalIs DEF Get
    <3> HIDE DEF new
    <3> QED BY <3>2, <3>3, SeenNothing
  <2>2. ASSUME GetFails(s) \/ Taken(s) PROVE Seen(scan'[s], open)
    <3>1. /\ scan'[s].out = {} /\ scan'[s].found = {} /\ scan'[s].pc \in {"idle", "failed"}
      BY <2>2, LocalIs DEF GetFails, Taken, IdleScan
    <3> QED BY <3>1, SeenNothing
  <2> QED BY <1>1, <2>1, <2>2
<1>2. CASE \/ CheckPasses(s) \/ CheckFails(s) \/ PutVerified(s) \/ PutVerifiedFails(s) \/ DiscoverRoot(s)
           \/ DialFails(s) \/ ProbeCut(s) \/ HostDone(s) \/ Return(s) \/ Expire(s)
           \/ \E p \in Ports : Dial(s, p) \/ TLSQuiet(s, p)
  <2> DEFINE Same(new) == /\ scan[s].pc \notin {"idle", "failed"}
                          /\ new.out = scan[s].out /\ new.glimpsed = scan[s].glimpsed
                          /\ new.steady = scan[s].steady /\ new.host = scan[s].host
                          /\ new.found = scan[s].found \/ new.found = {}
                          /\ new.pc = "tls" => scan[s].pc = "tls" /\ new.ports \subseteq scan[s].ports
  <2>1. ASSUME CheckPasses(s) PROVE Same(scan'[s])
    <3>1. scan'[s] = [scan[s] EXCEPT !.pc = "put", !.ch = [scan[s].ch EXCEPT !.state = "verified"]] /\ scan[s].pc \notin {"idle", "failed"}
      BY <2>1, LocalIs DEF CheckPasses
    <3> QED BY <1>fields, <3>1 DEF ScanLocals
  <2>2. ASSUME CheckFails(s) PROVE Same(scan'[s])
    <3>1. scan'[s] = [scan[s] EXCEPT !.pc = "done"] /\ scan[s].pc \notin {"idle", "failed"}
      BY <2>2, LocalIs DEF CheckFails
    <3> QED BY <1>fields, <3>1 DEF ScanLocals
  <2>3. ASSUME PutVerified(s) PROVE Same(scan'[s])
    <3>1. scan'[s] = [scan[s] EXCEPT !.pc = "discover"] /\ scan[s].pc \notin {"idle", "failed"}
      BY <2>3, LocalIs DEF PutVerified
    <3> QED BY <1>fields, <3>1 DEF ScanLocals
  <2>4. ASSUME PutVerifiedFails(s) PROVE Same(scan'[s])
    <3>1. scan'[s] = [scan[s] EXCEPT !.pc = "discover"] /\ scan[s].pc \notin {"idle", "failed"}
      BY <2>4, LocalIs DEF PutVerifiedFails
    <3> QED BY <1>fields, <3>1 DEF ScanLocals
  <2>5. ASSUME DialFails(s) PROVE Same(scan'[s])
    <3>1. scan'[s] = [scan[s] EXCEPT !.pc = "probe"] /\ scan[s].pc \notin {"idle", "failed"}
      BY <2>5, LocalIs DEF DialFails
    <3> QED BY <1>fields, <3>1 DEF ScanLocals
  <2>6. ASSUME ProbeCut(s) PROVE Same(scan'[s])
    <3>1. scan'[s] = [scan[s] EXCEPT !.pc = "hosts", !.hosts = scan[s].hosts, !.ports = {}, !.found = {}] /\ scan[s].pc \notin {"idle", "failed"}
      BY <2>6, LocalIs DEF ProbeCut, HostsAfterCut
    <3> QED BY <1>fields, <3>1 DEF ScanLocals
  <2>7. ASSUME HostDone(s) PROVE Same(scan'[s])
    <3>1. scan'[s] = [scan[s] EXCEPT !.pc = "hosts"] /\ scan[s].pc \notin {"idle", "failed"}
      BY <2>7, LocalIs DEF HostDone
    <3> QED BY <1>fields, <3>1 DEF ScanLocals
  <2>8. ASSUME Return(s) PROVE Same(scan'[s])
    <3>1. scan'[s] = [scan[s] EXCEPT !.pc = "done"] /\ scan[s].pc \notin {"idle", "failed"}
      BY <2>8, LocalIs DEF Return
    <3> QED BY <1>fields, <3>1 DEF ScanLocals
  <2>9. ASSUME Expire(s) PROVE Same(scan'[s])
    <3>1. scan'[s] = [scan[s] EXCEPT !.expired = TRUE] /\ scan[s].pc \notin {"idle", "failed"}
      BY <2>9, LocalIs DEF Expire, Running
    <3> QED BY <1>fields, <3>1 DEF ScanLocals
  <2>10. ASSUME DiscoverRoot(s) PROVE Same(scan'[s])
    <3>1. \E live : scan'[s] = [scan[s] EXCEPT !.pc = "hosts", !.hosts = live] /\ scan[s].pc = "discover"
      BY <2>10, LocalIs DEF DiscoverRoot
    <3> QED BY <1>fields, <3>1 DEF ScanLocals
  <2>11. ASSUME NEW p \in Ports, Dial(s, p) PROVE Same(scan'[s])
    <3>1. scan'[s] = [scan[s] EXCEPT !.pc = "dial", !.ports = scan[s].ports \ {p}, !.port = p] /\ scan[s].pc = "probe"
      BY <2>11, LocalIs DEF Dial
    <3> QED BY <1>fields, <3>1 DEF ScanLocals
  <2>12. ASSUME NEW p \in Ports, TLSQuiet(s, p) PROVE Same(scan'[s])
    <3>1. scan'[s] = [scan[s] EXCEPT !.ports = scan[s].ports \ {p}] /\ scan[s].pc = "tls"
      BY <2>12, LocalIs DEF TLSQuiet
    <3> QED BY <1>fields, <3>1 DEF ScanLocals
  <2>13. Same(scan'[s])
    BY <1>2, <2>1, <2>2, <2>3, <2>4, <2>5, <2>6, <2>7, <2>8, <2>9, <2>10, <2>11, <2>12
  <2> QED BY <2>13, SeenStays
<1>3. CASE DiscoverAll(s)
  <2>1. /\ scan'[s].out = {About("coverage", w, 0) : w \in Wildcards} /\ scan'[s].pc = "hosts"
        /\ scan'[s].glimpsed = scan[s].glimpsed /\ scan'[s].steady = scan[s].steady
        /\ scan'[s].host = scan[s].host /\ scan'[s].found = scan[s].found /\ scan[s].pc = "discover"
    <3>1. \E live : scan'[s] = [scan[s] EXCEPT !.pc = "hosts", !.hosts = live, !.out = {About("coverage", w, 0) : w \in Wildcards}] /\ scan[s].pc = "discover"
      BY <1>3, LocalIs DEF DiscoverAll
    <3> QED BY <1>fields, <3>1 DEF ScanLocals
  <2>2. ExposedIn(scan'[s]) = {} /\ \A f \in scan'[s].out : f.check # "tls"
    BY <2>1, Exposures DEF About
  <2> QED BY <2>1, <2>2 DEF Seen
<1>4. CASE \E h \in Hosts : NextHost(s, h)
  <2>1. PICK h \in Hosts : NextHost(s, h)
    BY <1>4
  <2>2. /\ scan'[s].out = scan[s].out \cup {About("asset", h, 0)} /\ scan'[s].pc = "probe"
        /\ scan'[s].glimpsed = scan[s].glimpsed /\ scan'[s].steady = scan[s].steady
        /\ scan'[s].found = {} /\ scan[s].pc = "hosts"
    <3>1. scan'[s] = [scan[s] EXCEPT !.pc = "probe", !.hosts = scan[s].hosts \ {h}, !.host = h, !.ports = Ports, !.found = {},
                                        !.out = scan[s].out \cup {About("asset", h, 0)}] /\ scan[s].pc = "hosts"
      BY <2>1, LocalIs DEF NextHost
    <3> QED BY <1>fields, <3>1 DEF ScanLocals
  <2>3. ExposedIn(scan'[s]) = ExposedIn(scan[s])
    BY <2>2, Exposures
  <2>4. About("asset", h, 0).check # "tls"
    BY DEF About
  <2> QED BY <2>2, <2>3, <2>4 DEF Seen
<1>5. CASE DialAnswers(s)
  <2>1. /\ scan'[s].out = scan[s].out /\ scan'[s].pc = "probe" /\ scan'[s].host = scan[s].host
        /\ scan'[s].glimpsed = scan[s].glimpsed /\ scan'[s].steady = scan[s].steady
        /\ scan'[s].found = scan[s].found \cup {scan[s].port} /\ scan[s].pc = "dial"
        /\ <<scan[s].host, scan[s].port>> \in open
    <3>1. scan'[s] = [scan[s] EXCEPT !.pc = "probe", !.found = scan[s].found \cup {scan[s].port}]
          /\ scan[s].pc = "dial" /\ <<scan[s].host, scan[s].port>> \in open
      BY <1>5, LocalIs DEF DialAnswers
    <3> QED BY <1>fields, <3>1 DEF ScanLocals
  <2>2. ExposedIn(scan'[s]) = ExposedIn(scan[s])
    BY <2>1, Exposures
  <2> QED BY <2>1, <2>2 DEF Seen
<1>6. CASE ProbeReturns(s)
  <2>1. /\ scan'[s].out = scan[s].out \cup {About("exposure", scan[s].host, p) : p \in scan[s].found}
        /\ scan'[s].pc = "tls" /\ scan'[s].host = scan[s].host /\ scan[s].pc = "probe"
        /\ scan'[s].glimpsed = scan[s].glimpsed /\ scan'[s].steady = scan[s].steady
        /\ scan'[s].found = {} /\ scan'[s].ports \subseteq scan[s].found
    <3>1. scan'[s] = [scan[s] EXCEPT !.pc = "tls", !.out = Reported(s), !.ports = scan[s].found \cap TLSPorts, !.found = {}]
          /\ scan[s].pc = "probe"
      BY <1>6, LocalIs DEF ProbeReturns
    <3> QED BY <1>fields, <3>1 DEF Reported, ScanLocals
  <2>2. ExposedIn(scan'[s]) = ExposedIn(scan[s]) \cup {<<scan[s].host, p>> : p \in scan[s].found}
    <3>1. ASSUME NEW e \in Hosts \X Ports
          PROVE  About("exposure", e[1], e[2]) \in {About("exposure", scan[s].host, p) : p \in scan[s].found}
                    <=> e \in {<<scan[s].host, p>> : p \in scan[s].found}
      <4>1. PICK h \in Hosts, q \in Ports : e = <<h, q>>
        OBVIOUS
      <4>2. \A p : About("exposure", h, q) = About("exposure", scan[s].host, p) <=> h = scan[s].host /\ q = p
        BY DEF About
      <4> QED BY <4>1, <4>2
    <3>2. {<<scan[s].host, p>> : p \in scan[s].found} \subseteq Endpoints
      BY <1>fields DEF Endpoints
    <3> QED BY <2>1, <3>1, <3>2 DEF ExposedIn, Endpoints
  <2>3. \A p : About("exposure", scan[s].host, p).check # "tls"
    BY DEF About
  <2>4. \A f \in scan'[s].out : f.check = "tls" => f \in scan[s].out
    BY <2>1, <2>3
  <2> QED BY <2>1, <2>2, <2>4 DEF Seen
<1>7. CASE \E p \in Ports : TLSGraded(s, p)
  <2>1. PICK p \in Ports : TLSGraded(s, p)
    BY <1>7
  <2>2. /\ scan'[s].out = scan[s].out \cup {About("tls", scan[s].host, p)} /\ scan'[s].pc = "tls"
        /\ scan[s].pc = "tls" /\ p \in scan[s].ports /\ scan'[s].ports = scan[s].ports \ {p}
        /\ scan'[s].glimpsed = scan[s].glimpsed /\ scan'[s].steady = scan[s].steady
        /\ scan'[s].host = scan[s].host /\ scan'[s].found = scan[s].found
    <3>1. scan'[s] = [scan[s] EXCEPT !.ports = scan[s].ports \ {p}, !.out = scan[s].out \cup {About("tls", scan[s].host, p)}]
          /\ scan[s].pc = "tls" /\ p \in scan[s].ports
      BY <2>1, LocalIs DEF TLSGraded
    <3> QED BY <1>fields, <3>1 DEF ScanLocals
  <2>3. ExposedIn(scan'[s]) = ExposedIn(scan[s])
    BY <2>2, Exposures
  <2>4. About("tls", scan[s].host, p).name = scan[s].host /\ About("tls", scan[s].host, p).port = p
    BY DEF About
  <2> QED BY <2>2, <2>3, <2>4 DEF Seen
<1> QED BY <1>1, <1>2, <1>3, <1>4, <1>5, <1>6, <1>7 DEF ScanStep

(* What a scan has seen stays seen while the world changes.                 *)
LEMMA SeenOtherStep ==
    ASSUME TypeOK, NEW r \in Scans, Seen(scan[r], open), Owner \/ \E v \in Validators : ValidatorStep(v)
    PROVE  Seen(scan'[r], open')
<1>1. CASE UNCHANGED <<scan, open>>
  BY <1>1
<1>2. CASE \E endpoints \in SUBSET Endpoints : SetOpen(endpoints)
  <2>1. PICK endpoints \in SUBSET Endpoints : SetOpen(endpoints)
    BY <1>2
  <2>2. open' = endpoints /\ scan'[r] = IF scan[r].pc = "idle" THEN IdleScan
            ELSE [scan[r] EXCEPT !.steady = scan[r].steady \cap endpoints,
                                 !.glimpsed = scan[r].glimpsed \cup endpoints]
    BY <2>1 DEF SetOpen
  <2>3. CASE scan[r].pc = "idle"
    <3>1. scan'[r].out = {} /\ scan'[r].found = {} /\ scan'[r].pc = "idle"
      BY <2>2, <2>3 DEF IdleScan
    <3> QED BY <3>1, SeenNothing
  <2>4. CASE scan[r].pc # "idle"
    <3>1. /\ scan'[r].out = scan[r].out /\ scan'[r].found = scan[r].found /\ scan'[r].pc = scan[r].pc
          /\ scan'[r].steady = scan[r].steady \cap endpoints /\ scan'[r].host = scan[r].host
          /\ scan'[r].glimpsed = scan[r].glimpsed \cup endpoints /\ scan'[r].ports = scan[r].ports
      BY <2>2, <2>4, ScanFields DEF ScanLocals
    <3>2. ExposedIn(scan'[r]) = ExposedIn(scan[r])
      BY <3>1, Exposures
    <3> QED BY <2>2, <3>1, <3>2 DEF Seen
  <2> QED BY <2>3, <2>4
<1>3. open \subseteq Endpoints
  BY DEF TypeOK
<1> QED BY <1>1, <1>2, <1>3
        DEF Owner, SetPlaced, ValidatorStep, Validate, PutChallenge, PutChallengeFails, world

(* At every moment, for every scan.                                         *)
LEMMA SeenHolds == Spec => []\A s \in Scans : Seen(scan[s], open)
<1>1. Init => \A s \in Scans : Seen(scan[s], open)
  BY SeenNothing DEF Init, IdleScan
<1>2. TypeOK /\ (\A s \in Scans : Seen(scan[s], open)) /\ [Next]_vars
        => (\A s \in Scans : Seen(scan[s], open))'
  <2> SUFFICES ASSUME TypeOK, \A s \in Scans : Seen(scan[s], open), [Next]_vars, NEW r \in Scans
               PROVE  Seen(scan'[r], open')
    OBVIOUS
  <2>1. ASSUME NEW s \in Scans, Get(s) \/ ScanStep(s) \/ Expire(s) PROVE Seen(scan'[r], open')
    BY <2>1, OwnLocals, SeenScanStep
  <2>2. ASSUME UNCHANGED vars PROVE Seen(scan'[r], open')
    BY <2>2 DEF vars
  <2> QED BY <2>1, <2>2, SeenOtherStep DEF Next
<1> QED BY <1>1, <1>2, TypeCorrect, PTL DEF Spec

(* collector.go:160-169: whatever contexts end, answers fail and ports open *)
(* or close on the way, a report has no endpoint that was closed during the *)
(* whole scan, and no TLS grade of an endpoint it does not report.          *)
THEOREM NothingIsInvented == Spec => []NothingInvented
<1>1. (\A s \in Scans : Seen(scan[s], open)) => NothingInvented
  BY DEF NothingInvented, Seen, Exposed, ExposedIn
<1> QED BY <1>1, SeenHolds, PTL

-----------------------------------------------------------------------------
(* What a complete report asks of a scan's surroundings: lookups and dials  *)
(* do not fail of themselves, the budget covers every name there is, and    *)
(* if Certificate Transparency may fail, a wildcard of its shows it did not.*)
Thorough ==
    /\ "flap" \notin Faults
    /\ IsFiniteSet(Hosts) /\ Cardinality(Hosts) <= Budget
    /\ Wildcards # {} \/ "ct" \notin Faults

(* With such a budget every name that resolves is in the inventory.         *)
LEMMA WholeInventory ==
    ASSUME Thorough, NEW s \in Scans, ~scan[s].expired, NEW live \in LiveNames(s, Hosts)
    PROVE  live = Hosts
<1>1. PICK L \in SUBSET Hosts : live = {Root} \cup L /\ Cardinality(L) =
          IF Budget < Cardinality(Hosts) THEN Budget ELSE Cardinality(Hosts)
  BY DEF LiveNames, LookupsMayFail, Thorough
<1>2. Cardinality(Hosts) \in Nat /\ ~(Budget < Cardinality(Hosts))
  BY FS_CardinalityType DEF Thorough
<1>3. L = Hosts
  BY <1>1, <1>2, FS_Subset DEF Thorough
<1> QED BY <1>1, <1>3

(* The report says that CT has answered only if it said so before this      *)
(* step.                                                                    *)
LEMMA Answers ==
    ASSUME NEW old, NEW new, NEW name, NEW ports,
           \/ new.out = old.out
           \/ \E p : new.out = old.out \cup {About("asset", name, p)}
           \/ \E p : new.out = old.out \cup {About("tls", name, p)}
           \/ new.out = old.out \cup {About("exposure", name, p) : p \in ports}
    PROVE  AnsweredIn(new) => AnsweredIn(old)
<1>1. \A w, n, p : /\ About("coverage", w, 0) # About("asset", n, p)
                   /\ About("coverage", w, 0) # About("tls", n, p)
                   /\ About("coverage", w, 0) # About("exposure", n, p)
  BY DEF About
<1> QED BY <1>1 DEF AnsweredIn

(* A step of a scan past its discovery that passes nothing over, unless the *)
(* context has ended.                                                       *)
LEMMA CompleteStays ==
    ASSUME NEW old, NEW new, Complete(old), old.pc \in {"hosts", "probe", "dial", "tls"},
           new.pc \in {"hosts", "probe", "dial", "tls", "done"},
           new.ch = old.ch, new.steady = old.steady, ~new.expired => ~old.expired,
           AnsweredIn(new) => AnsweredIn(old), ExposedIn(old) \subseteq ExposedIn(new),
           ~new.expired => \A e \in old.steady : StillToCome(old, e) => e \in ExposedIn(new) \/ StillToCome(new, e)
    PROVE  Complete(new)
BY DEF Complete

(* A scan's step passes over no endpoint that was open all along.           *)
LEMMA CompleteScanStep ==
    ASSUME Thorough, TypeOK, NEW s \in Scans, Seen(scan[s], open), Complete(scan[s]),
           Get(s) \/ ScanStep(s) \/ Expire(s)
    PROVE  Complete(scan'[s])
<1>fields. /\ scan[s] \in ScanLocals /\ scan[s].hosts \in SUBSET Hosts /\ scan[s].host \in Hosts
           /\ scan[s].found \in SUBSET Ports /\ scan[s].ports \in SUBSET Ports
           /\ scan[s].ch \in Challenge /\ scan[s].steady \in SUBSET (Hosts \X Ports)
  BY ScanFields DEF Endpoints
<1>1. CASE Get(s) \/ GetFails(s) \/ Taken(s)
  <2>1. ASSUME Get(s) PROVE Complete(scan'[s])
    <3>1. scan'[s] = [IdleScan EXCEPT !.pc = AfterGet(challenge), !.ch = challenge, !.steady = open, !.glimpsed = open]
      BY <2>1, LocalIs DEF Get
    <3>2. scan'[s].pc = AfterGet(challenge) /\ scan'[s].ch = challenge /\ scan'[s].out = {}
      BY <3>1 DEF IdleScan
    <3>3. CASE challenge.state = "none"
      BY <3>2, <3>3 DEF AfterGet, Complete
    <3>4. CASE challenge.state = "pending"
      BY <3>2, <3>4 DEF AfterGet, Complete
    <3>5. CASE challenge.state = "verified"
      BY <3>2, <3>5 DEF AfterGet, Complete
    <3>6. challenge.state \in {"none", "pending", "verified"}
      BY DEF TypeOK, Challenge, NoChallenge
    <3> QED BY <3>3, <3>4, <3>5, <3>6
  <2>2. ASSUME GetFails(s) \/ Taken(s) PROVE Complete(scan'[s])
    <3>1. scan'[s].pc \in {"idle", "failed"}
      BY <2>2, LocalIs DEF GetFails, Taken, IdleScan
    <3> QED BY <3>1 DEF Complete
  <2> QED BY <1>1, <2>1, <2>2
<1>2. CASE CheckPasses(s) \/ CheckFails(s) \/ PutVerified(s) \/ PutVerifiedFails(s)
  <2> DEFINE Before(new) == /\ new.out = scan[s].out /\ scan[s].out = {}
                            /\ new.pc \in {"put", "discover"} \/ (new.pc = "done" /\ new.ch.state = "pending")
  <2>1. ASSUME CheckPasses(s) PROVE Before(scan'[s])
    <3>1. /\ scan'[s] = [scan[s] EXCEPT !.pc = "put", !.ch = [scan[s].ch EXCEPT !.state = "verified"]]
          /\ scan[s].pc = "check"
      BY <2>1, LocalIs DEF CheckPasses
    <3> QED BY <1>fields, <3>1 DEF ScanLocals, Complete
  <2>2. ASSUME CheckFails(s) PROVE Before(scan'[s])
    <3>1. scan'[s] = [scan[s] EXCEPT !.pc = "done"] /\ scan[s].pc = "check"
      BY <2>2, LocalIs DEF CheckFails
    <3> QED BY <1>fields, <3>1 DEF ScanLocals, Complete
  <2>3. ASSUME PutVerified(s) \/ PutVerifiedFails(s) PROVE Before(scan'[s])
    <3>1. scan'[s] = [scan[s] EXCEPT !.pc = "discover"] /\ scan[s].pc = "put"
      BY <2>3, LocalIs DEF PutVerified, PutVerifiedFails
    <3> QED BY <1>fields, <3>1 DEF ScanLocals, Complete
  <2>4. Before(scan'[s])
    BY <1>2, <2>1, <2>2, <2>3
  <2> QED BY <2>4 DEF Complete
<1>3. CASE DiscoverAll(s)
  <2>1. PICK live \in LiveNames(s, Hosts) : scan'[s] =
            [scan[s] EXCEPT !.pc = "hosts", !.hosts = live, !.out = {About("coverage", w, 0) : w \in Wildcards}]
    BY <1>3, LocalIs DEF DiscoverAll
  <2>2. live = Hosts
    BY <1>3, WholeInventory DEF DiscoverAll
  <2>3. scan'[s].pc = "hosts" /\ scan'[s].hosts = Hosts /\ scan'[s].steady = scan[s].steady
    BY <1>fields, <2>1, <2>2 DEF ScanLocals
  <2>4. \A e \in scan'[s].steady : e[1] \in Hosts
    BY <1>fields, <2>3
  <2> QED BY <2>3, <2>4 DEF Complete, StillToCome
<1>4. CASE DiscoverRoot(s)
  <2>1. /\ \E live : scan'[s] = [scan[s] EXCEPT !.pc = "hosts", !.hosts = live]
        /\ scan[s].pc = "discover" /\ (scan[s].expired \/ "ct" \in Faults)
    BY <1>4, LocalIs DEF DiscoverRoot
  <2>2. /\ scan'[s].pc = "hosts" /\ scan'[s].out = scan[s].out /\ scan'[s].expired = scan[s].expired
    BY <1>fields, <2>1 DEF ScanLocals
  <2>3. scan'[s].out = {}
    BY <2>1, <2>2 DEF Complete
  <2>4. scan'[s].expired \/ ~AnsweredIn(scan'[s])
    BY <2>1, <2>2, <2>3 DEF Thorough, AnsweredIn
  <2> QED BY <2>2, <2>4 DEF Complete
<1>5. CASE \E h \in Hosts : NextHost(s, h)
  <2>1. PICK h \in Hosts : NextHost(s, h)
    BY <1>5
  <2>2. /\ scan'[s].pc = "probe" /\ scan'[s].hosts = scan[s].hosts \ {h} /\ scan'[s].host = h
        /\ scan'[s].ports = Ports /\ scan'[s].out = scan[s].out \cup {About("asset", h, 0)}
        /\ scan'[s].ch = scan[s].ch /\ scan'[s].steady = scan[s].steady
        /\ scan'[s].expired = scan[s].expired /\ scan[s].pc = "hosts"
    <3>1. scan'[s] = [scan[s] EXCEPT !.pc = "probe", !.hosts = scan[s].hosts \ {h}, !.host = h, !.ports = Ports, !.found = {},
                                     !.out = scan[s].out \cup {About("asset", h, 0)}] /\ scan[s].pc = "hosts"
      BY <2>1, LocalIs DEF NextHost
    <3> QED BY <1>fields, <3>1 DEF ScanLocals
  <2>3. ExposedIn(scan'[s]) = ExposedIn(scan[s]) /\ (AnsweredIn(scan'[s]) => AnsweredIn(scan[s]))
    BY <2>2, Exposures, Answers
  <2>4. \A e \in scan[s].steady : StillToCome(scan[s], e) => StillToCome(scan'[s], e)
    <3>1. \A e \in scan[s].steady : e[2] \in Ports
      BY <1>fields
    <3> QED BY <2>2, <3>1 DEF StillToCome
  <2> QED BY <2>2, <2>3, <2>4, CompleteStays
<1>6. CASE \E p \in Ports : Dial(s, p)
  <2>1. PICK p \in Ports : Dial(s, p)
    BY <1>6
  <2>2. /\ scan'[s].pc = "dial" /\ scan'[s].hosts = scan[s].hosts /\ scan'[s].host = scan[s].host
        /\ scan'[s].ports = scan[s].ports \ {p} /\ scan'[s].port = p /\ scan'[s].out = scan[s].out
        /\ scan'[s].found = scan[s].found /\ scan'[s].ch = scan[s].ch /\ scan'[s].steady = scan[s].steady
        /\ scan'[s].expired = scan[s].expired /\ scan[s].pc = "probe"
    <3>1. scan'[s] = [scan[s] EXCEPT !.pc = "dial", !.ports = scan[s].ports \ {p}, !.port = p] /\ scan[s].pc = "probe"
      BY <2>1, LocalIs DEF Dial
    <3> QED BY <1>fields, <3>1 DEF ScanLocals
  <2>3. ExposedIn(scan'[s]) = ExposedIn(scan[s]) /\ (AnsweredIn(scan'[s]) => AnsweredIn(scan[s]))
    BY <2>2, Exposures DEF AnsweredIn
  <2>4. \A e \in scan[s].steady : StillToCome(scan[s], e) => StillToCome(scan'[s], e)
    BY <2>2 DEF StillToCome
  <2> QED BY <2>2, <2>3, <2>4, CompleteStays
<1>7. CASE DialAnswers(s) \/ DialFails(s)
  <2> DEFINE Dialled(new) ==
        /\ new.pc = "probe" /\ new.hosts = scan[s].hosts /\ new.host = scan[s].host
        /\ new.ports = scan[s].ports /\ new.out = scan[s].out /\ new.ch = scan[s].ch
        /\ new.steady = scan[s].steady /\ new.expired = scan[s].expired /\ scan[s].pc = "dial"
        /\ scan[s].found \subseteq new.found
        /\ \/ scan[s].port \in new.found
           \/ <<scan[s].host, scan[s].port>> \notin open
           \/ scan[s].expired
  <2>1. ASSUME DialAnswers(s) PROVE Dialled(scan'[s])
    <3>1. scan'[s] = [scan[s] EXCEPT !.pc = "probe", !.found = scan[s].found \cup {scan[s].port}] /\ scan[s].pc = "dial"
      BY <2>1, LocalIs DEF DialAnswers
    <3> QED BY <1>fields, <3>1 DEF ScanLocals
  <2>2. ASSUME DialFails(s) PROVE Dialled(scan'[s])
    <3>1. /\ scan'[s] = [scan[s] EXCEPT !.pc = "probe"] /\ scan[s].pc = "dial"
          /\ <<scan[s].host, scan[s].port>> \notin open \/ scan[s].expired
      BY <2>2, LocalIs DEF DialFails, LookupsMayFail, Thorough
    <3> QED BY <1>fields, <3>1 DEF ScanLocals
  <2>3. Dialled(scan'[s])
    BY <1>7, <2>1, <2>2
  <2>4. ExposedIn(scan'[s]) = ExposedIn(scan[s]) /\ (AnsweredIn(scan'[s]) => AnsweredIn(scan[s]))
    BY <2>3, Exposures DEF AnsweredIn
  <2>5. ASSUME ~scan'[s].expired, NEW e \in scan[s].steady, StillToCome(scan[s], e)
        PROVE  StillToCome(scan'[s], e)
    <3>1. e = <<e[1], e[2]>> /\ e \in open
      BY <1>fields, <2>3 DEF Seen
    <3> QED BY <2>3, <2>5, <3>1 DEF StillToCome
  <2> QED BY <2>3, <2>4, <2>5, CompleteStays
<1>8. CASE ProbeCut(s)
  <2>1. /\ scan'[s] = [scan[s] EXCEPT !.pc = "hosts", !.hosts = scan[s].hosts, !.ports = {}, !.found = {}]
        /\ scan[s].expired
    BY <1>8, LocalIs DEF ProbeCut, HostsAfterCut
  <2>2. scan'[s].pc = "hosts" /\ scan'[s].expired
    BY <1>fields, <2>1 DEF ScanLocals
  <2> QED BY <2>2 DEF Complete
<1>9. CASE ProbeReturns(s)
  <2>1. /\ scan'[s].pc = "tls" /\ scan'[s].hosts = scan[s].hosts
        /\ scan'[s].out = scan[s].out \cup {About("exposure", scan[s].host, p) : p \in scan[s].found}
        /\ scan'[s].ch = scan[s].ch /\ scan'[s].steady = scan[s].steady
        /\ scan'[s].expired = scan[s].expired /\ scan[s].pc = "probe" /\ scan[s].ports = {}
    <3>1. scan'[s] = [scan[s] EXCEPT !.pc = "tls", !.out = Reported(s), !.ports = scan[s].found \cap TLSPorts, !.found = {}]
          /\ scan[s].pc = "probe" /\ scan[s].ports = {}
      BY <1>9, LocalIs DEF ProbeReturns
    <3> QED BY <1>fields, <3>1 DEF Reported, ScanLocals
  <2>2. ExposedIn(scan[s]) \subseteq ExposedIn(scan'[s]) /\ (AnsweredIn(scan'[s]) => AnsweredIn(scan[s]))
    <3>1. ExposedIn(scan[s]) \subseteq ExposedIn(scan'[s])
      BY <2>1 DEF ExposedIn
    <3>2. AnsweredIn(scan'[s]) => AnsweredIn(scan[s])
      BY <2>1, Answers
    <3> QED BY <3>1, <3>2
  <2>3. ASSUME NEW e \in scan[s].steady, StillToCome(scan[s], e)
        PROVE  e \in ExposedIn(scan'[s]) \/ StillToCome(scan'[s], e)
    <3>1. CASE e[1] \in scan[s].hosts
      BY <2>1, <3>1 DEF StillToCome
    <3>2. CASE e[1] = scan[s].host /\ e[2] \in scan[s].found
      BY <1>fields, <2>1, <3>2 DEF ExposedIn, Endpoints
    <3> QED BY <2>1, <2>3, <3>1, <3>2 DEF StillToCome
  <2> QED BY <2>1, <2>2, <2>3, CompleteStays
<1>10. CASE \E p \in Ports : TLSGraded(s, p) \/ TLSQuiet(s, p)
  <2>1. PICK p \in Ports : TLSGraded(s, p) \/ TLSQuiet(s, p)
    BY <1>10
  <2> DEFINE Graded(new) ==
        /\ new.pc = "tls" /\ new.hosts = scan[s].hosts /\ new.ch = scan[s].ch /\ scan[s].pc = "tls"
        /\ new.steady = scan[s].steady /\ new.expired = scan[s].expired
        /\ new.out = scan[s].out \/ new.out = scan[s].out \cup {About("tls", scan[s].host, p)}
  <2>2. ASSUME TLSGraded(s, p) PROVE Graded(scan'[s])
    <3>1. scan'[s] = [scan[s] EXCEPT !.ports = scan[s].ports \ {p}, !.out = scan[s].out \cup {About("tls", scan[s].host, p)}]
          /\ scan[s].pc = "tls"
      BY <2>2, LocalIs DEF TLSGraded
    <3> QED BY <1>fields, <3>1 DEF ScanLocals
  <2>3. ASSUME TLSQuiet(s, p) PROVE Graded(scan'[s])
    <3>1. scan'[s] = [scan[s] EXCEPT !.ports = scan[s].ports \ {p}] /\ scan[s].pc = "tls"
      BY <2>3, LocalIs DEF TLSQuiet
    <3> QED BY <1>fields, <3>1 DEF ScanLocals
  <2>4. Graded(scan'[s])
    BY <2>1, <2>2, <2>3
  <2>5. ExposedIn(scan'[s]) = ExposedIn(scan[s]) /\ (AnsweredIn(scan'[s]) => AnsweredIn(scan[s]))
    BY <2>4, Exposures, Answers
  <2>6. \A e \in scan[s].steady : StillToCome(scan[s], e) => StillToCome(scan'[s], e)
    BY <2>4 DEF StillToCome
  <2> QED BY <2>4, <2>5, <2>6, CompleteStays
<1>11. CASE HostDone(s) \/ Return(s)
  <2>1. /\ scan[s].pc \in {"tls", "hosts"}
        /\ \/ scan'[s] = [scan[s] EXCEPT !.pc = "hosts"]
           \/ scan'[s] = [scan[s] EXCEPT !.pc = "done"] /\ scan[s].hosts = {}
    BY <1>11, LocalIs DEF HostDone, Return
  <2>2. /\ scan'[s].pc \in {"hosts", "done"} /\ scan'[s].hosts = scan[s].hosts /\ scan'[s].out = scan[s].out
        /\ scan'[s].ch = scan[s].ch /\ scan'[s].steady = scan[s].steady /\ scan'[s].expired = scan[s].expired
        /\ scan'[s].pc = "done" => scan[s].hosts = {}
    BY <1>fields, <2>1 DEF ScanLocals
  <2>3. ExposedIn(scan'[s]) = ExposedIn(scan[s]) /\ (AnsweredIn(scan'[s]) => AnsweredIn(scan[s]))
    BY <2>2, Exposures DEF AnsweredIn
  <2>4. \A e \in scan[s].steady : StillToCome(scan[s], e) => StillToCome(scan'[s], e)
    <3>1. \A e : StillToCome(scan[s], e) => e[1] \in scan[s].hosts
      BY <2>1 DEF StillToCome
    <3>2. \A e : e[1] \in scan[s].hosts => StillToCome(scan'[s], e)
      BY <2>2 DEF StillToCome
    <3> QED BY <3>1, <3>2
  <2> QED BY <2>1, <2>2, <2>3, <2>4, CompleteStays
<1>12. CASE Expire(s)
  <2>1. scan'[s] = [scan[s] EXCEPT !.expired = TRUE]
    BY <1>12, LocalIs DEF Expire
  <2>2. scan'[s].pc = scan[s].pc /\ scan'[s].ch = scan[s].ch /\ scan'[s].out = scan[s].out /\ scan'[s].expired
    BY <1>fields, <2>1 DEF ScanLocals
  <2> QED BY <2>2 DEF Complete
<1> QED BY <1>1, <1>2, <1>3, <1>4, <1>5, <1>6, <1>7, <1>8, <1>9, <1>10, <1>11, <1>12 DEF ScanStep

(* A change of the world adds no endpoint that was open all along.          *)
LEMMA CompleteOtherStep ==
    ASSUME TypeOK, NEW r \in Scans, Complete(scan[r]), Owner \/ \E v \in Validators : ValidatorStep(v)
    PROVE  Complete(scan'[r])
<1>1. CASE UNCHANGED scan
  BY <1>1
<1>2. CASE \E endpoints : SetOpen(endpoints)
  <2>1. PICK endpoints : SetOpen(endpoints)
    BY <1>2
  <2>2. scan'[r] = IF scan[r].pc = "idle" THEN IdleScan
            ELSE [scan[r] EXCEPT !.steady = scan[r].steady \cap endpoints,
                                 !.glimpsed = scan[r].glimpsed \cup endpoints]
    BY <2>1 DEF SetOpen
  <2>3. CASE scan[r].pc = "idle"
    <3>1. scan'[r].pc = "idle"
      BY <2>2, <2>3 DEF IdleScan
    <3> QED BY <3>1 DEF Complete
  <2>4. CASE scan[r].pc # "idle"
    <3>1. /\ scan'[r].pc = scan[r].pc /\ scan'[r].ch = scan[r].ch /\ scan'[r].expired = scan[r].expired
          /\ scan'[r].hosts = scan[r].hosts /\ scan'[r].host = scan[r].host /\ scan'[r].ports = scan[r].ports
          /\ scan'[r].port = scan[r].port /\ scan'[r].found = scan[r].found /\ scan'[r].out = scan[r].out
          /\ scan'[r].steady \subseteq scan[r].steady
      BY <2>2, <2>4, ScanFields DEF ScanLocals
    <3>2. ExposedIn(scan'[r]) = ExposedIn(scan[r])
      BY <3>1, Exposures
    <3> QED BY <3>1, <3>2 DEF Complete, StillToCome, AnsweredIn
  <2> QED BY <2>3, <2>4
<1> QED BY <1>1, <1>2 DEF Owner, SetPlaced, ValidatorStep, Validate, PutChallenge, PutChallengeFails, world

(* A verified scan that was not cut short and was answered reports every    *)
(* endpoint that was open from its beginning to its end, however hosts and  *)
(* ports change around it.                                                  *)
THEOREM ReportIsComplete ==
    ASSUME Thorough
    PROVE  Spec => []CompleteUnlessCut
<1> DEFINE Inv == \A s \in Scans : Complete(scan[s])
<1>1. Init => Inv
  BY DEF Init, IdleScan, Complete
<1>2. TypeOK /\ (\A s \in Scans : Seen(scan[s], open)) /\ Inv /\ [Next]_vars => Inv'
  <2> SUFFICES ASSUME TypeOK, \A s \in Scans : Seen(scan[s], open), \A s \in Scans : Complete(scan[s]),
                      [Next]_vars, NEW r \in Scans
               PROVE  Complete(scan'[r])
    OBVIOUS
  <2>1. ASSUME NEW s \in Scans, Get(s) \/ ScanStep(s) \/ Expire(s) PROVE Complete(scan'[r])
    BY <2>1, OwnLocals, CompleteScanStep
  <2>2. ASSUME UNCHANGED vars PROVE Complete(scan'[r])
    BY <2>2 DEF vars
  <2> QED BY <2>1, <2>2, CompleteOtherStep DEF Next
<1>3. Inv => CompleteUnlessCut
  BY DEF CompleteUnlessCut, Complete, StillToCome, Answered, AnsweredIn, Exposed, ExposedIn
<1> QED BY <1>1, <1>2, <1>3, TypeCorrect, SeenHolds, PTL DEF Spec

=============================================================================
