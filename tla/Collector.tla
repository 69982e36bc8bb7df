------------------------------ MODULE Collector ------------------------------
(***************************************************************************)
(* The attack-surface collector of one root domain (asm/collector.go): the *)
(* ownership gate (verify/verify.go), discovery (asm/discover.go) and the  *)
(* port probe (asm/probe.go), run by concurrent scans whose context may    *)
(* end at any moment, next to ValidateTarget, which issues challenges.     *)
(* The owner's records and the hosts' ports change meanwhile.              *)
(***************************************************************************)
EXTENDS Integers, FiniteSets

CONSTANTS Scans, Validators, \* goroutines in Collect, in ValidateTarget
          Hosts, Root,       \* names under the domain; the domain itself
          Ports, TLSPorts,   \* portCatalog; those of it that get a TLS probe
          Wildcards,         \* wildcard names seen in Certificate Transparency
          Budget,            \* ctBudget: candidate names resolved per scan
          Faults,            \* subset of {"store", "ct", "flap", "deadline"}
          MaxTokens,         \* bound on the challenges issued
          MaxChanges         \* bound on the changes of the world

ASSUME HostsAssumption == Root \in Hosts /\ TLSPorts \subseteq Ports
ASSUME BudgetAssumption == Budget \in Nat \ {0}
ASSUME BoundsAssumption == MaxTokens \in Nat /\ MaxChanges \in Nat

VARIABLES challenge,         \* the stored challenge of the domain
          issued,            \* tokens drawn so far: 1..issued
          scan,              \* locals of each Collect
          validator,         \* ValidateTarget: token about to be put, 0 if none
          placed,            \* tokens the owner serves by DNS or HTTP now
          open,              \* endpoints that accept a connection now
          proved,            \* tokens some check has seen placed (history)
          changes            \* changes of the world so far

vars == <<challenge, issued, scan, validator, placed, open, proved, changes>>
world == <<placed, open, changes>>

Endpoints == Hosts \X Ports
NoChallenge == [state |-> "none", token |-> 0]
Challenge == {NoChallenge} \cup [state : {"pending", "verified"}, token : 1..MaxTokens]

(* A finding, by the thing it is about; "port" 0 when it is not about one.  *)
(* tls stands for a check of the TLS grade.                                *)
Finding == [check : {"coverage", "asset", "exposure", "tls"}, name : Hosts \cup Wildcards, port : Ports \cup {0}]
About(check, name, port) == [check |-> check, name |-> name, port |-> port]

(* Its identity: the discriminator of an exposure has the port, that of a   *)
(* TLS grade only the host.                                                *)
Fingerprint(f) == IF f.check = "exposure" THEN <<f.check, f.name, f.port>> ELSE <<f.check, f.name>>

(* steady and glimpsed are history: what has been open since the scan       *)
(* began, and what has been open at some moment of it.                     *)
IdleScan == [pc |-> "idle", ch |-> NoChallenge, expired |-> FALSE, hosts |-> {}, host |-> Root,
             ports |-> {}, port |-> 0, found |-> {}, out |-> {}, steady |-> {}, glimpsed |-> {}]

Running(s) == scan[s].pc \notin {"idle", "done", "failed"}
Probing(s) == scan[s].pc \in {"put", "discover", "hosts", "probe", "dial", "tls"}

Init == /\ challenge = NoChallenge /\ issued = 0
        /\ scan = [s \in Scans |-> IdleScan]
        /\ validator = [v \in Validators |-> 0]
        /\ placed = {} /\ open = {} /\ proved = {} /\ changes = 0

-----------------------------------------------------------------------------
(* ValidateTarget.                                                          *)

(* Get returned none, or failed: its error is ignored.                      *)
NeedsChallenge == issued < MaxTokens /\ (challenge.state = "none" \/ "store" \in Faults)

Validate(v) ==
    /\ validator[v] = 0
    /\ NeedsChallenge
    /\ issued' = issued + 1
    /\ validator' = [validator EXCEPT ![v] = issued + 1]
    /\ UNCHANGED <<challenge, scan, proved, world>>

(* Mutant: the token stays empty.                                           *)
NewChallengeEmpty(v) == [state |-> "pending", token |-> 0]

NewChallenge(v) == [state |-> "pending", token |-> validator[v]]

(* Put overwrites whatever is stored for the domain.                        *)
PutChallenge(v) ==
    /\ validator[v] # 0
    /\ challenge' = NewChallenge(v)
    /\ validator' = [validator EXCEPT ![v] = 0]
    /\ UNCHANGED <<issued, scan, proved, world>>

PutChallengeFails(v) ==
    /\ "store" \in Faults
    /\ validator[v] # 0
    /\ validator' = [validator EXCEPT ![v] = 0]
    /\ UNCHANGED <<challenge, issued, scan, proved, world>>

-----------------------------------------------------------------------------
(* Collect: the gate.                                                       *)

Local(s, locals) == scan' = [scan EXCEPT ![s] = locals]
Unshared == <<challenge, issued, validator, proved, world>>

(* Mutant: a pending challenge is not looked at again.                      *)
AfterGetNoRecheck(ch) == IF ch.state = "verified" THEN "discover" ELSE "done"

(* Where Collect goes on with the challenge it read.                        *)
AfterGet(ch) == CASE ch.state = "none" -> "done"
                  [] ch.state = "pending" -> "check"
                  [] ch.state = "verified" -> "discover"

Get(s) ==
    /\ scan[s].pc = "idle"
    /\ Local(s, [IdleScan EXCEPT !.pc = AfterGet(challenge), !.ch = challenge, !.steady = open, !.glimpsed = open])
    /\ UNCHANGED Unshared

GetFails(s) ==
    /\ "store" \in Faults
    /\ scan[s].pc = "idle"
    /\ Local(s, [IdleScan EXCEPT !.pc = "failed"])
    /\ UNCHANGED Unshared

(* Mutant: a proof for any token will do.                                   *)
SatisfiedByAny(s) == ~scan[s].expired /\ placed # {}

(* Satisfied can find the token of the challenge it was given.              *)
Satisfied(s) == ~scan[s].expired /\ scan[s].ch.token \in placed

CheckPasses(s) ==
    /\ scan[s].pc = "check"
    /\ Satisfied(s)
    /\ proved' = proved \cup (placed \cap {scan[s].ch.token})
    /\ Local(s, [scan[s] EXCEPT !.pc = "put", !.ch = [scan[s].ch EXCEPT !.state = "verified"]])
    /\ UNCHANGED <<challenge, issued, validator, world>>

(* Not placed, or a lookup failed: pending, nothing to report, no error.    *)
CheckFails(s) ==
    /\ scan[s].pc = "check"
    /\ Local(s, [scan[s] EXCEPT !.pc = "done"])
    /\ UNCHANGED Unshared

(* The write back; an error of Put is ignored.                              *)
PutVerified(s) ==
    /\ scan[s].pc = "put"
    /\ challenge' = scan[s].ch
    /\ Local(s, [scan[s] EXCEPT !.pc = "discover"])
    /\ UNCHANGED <<issued, validator, proved, world>>

PutVerifiedFails(s) ==
    /\ "store" \in Faults
    /\ scan[s].pc = "put"
    /\ Local(s, [scan[s] EXCEPT !.pc = "discover"])
    /\ UNCHANGED Unshared

-----------------------------------------------------------------------------
(* Discover.                                                                *)

LookupsMayFail(s) == scan[s].expired \/ "flap" \in Faults

(* The inventories resolving names can give: as many as the budget allows,  *)
(* in no particular order, none of them once the context has ended.        *)
LiveNames(s, names) ==
    LET tried == IF Budget < Cardinality(names) THEN Budget ELSE Cardinality(names)
    IN {{Root} \cup L : L \in {L \in SUBSET names : /\ Cardinality(L) <= tried
                                                    /\ LookupsMayFail(s) \/ Cardinality(L) = tried
                                                    /\ scan[s].expired => L = {}}}

(* Certificate Transparency answers with every name and every wildcard.     *)
DiscoverAll(s) ==
    /\ scan[s].pc = "discover" /\ ~scan[s].expired
    /\ \E live \in LiveNames(s, Hosts) :
           Local(s, [scan[s] EXCEPT !.pc = "hosts", !.hosts = live,
                                    !.out = {About("coverage", w, 0) : w \in Wildcards}])
    /\ UNCHANGED Unshared

(* It does not, and the scan goes on with the root alone.                   *)
DiscoverRoot(s) ==
    /\ scan[s].pc = "discover" /\ (scan[s].expired \/ "ct" \in Faults)
    /\ \E live \in LiveNames(s, {Root}) : Local(s, [scan[s] EXCEPT !.pc = "hosts", !.hosts = live])
    /\ UNCHANGED Unshared

-----------------------------------------------------------------------------
(* Collect: the hosts of the inventory, Probe and tlsFindings.              *)

NextHost(s, h) ==
    /\ scan[s].pc = "hosts" /\ h \in scan[s].hosts
    /\ Local(s, [scan[s] EXCEPT !.pc = "probe", !.hosts = scan[s].hosts \ {h}, !.host = h, !.ports = Ports, !.found = {},
                                !.out = scan[s].out \cup {About("asset", h, 0)}])
    /\ UNCHANGED Unshared

Dial(s, p) ==
    /\ scan[s].pc = "probe" /\ ~scan[s].expired /\ p \in scan[s].ports
    /\ Local(s, [scan[s] EXCEPT !.pc = "dial", !.ports = scan[s].ports \ {p}, !.port = p])
    /\ UNCHANGED Unshared

DialAnswers(s) ==
    /\ scan[s].pc = "dial" /\ ~scan[s].expired
    /\ <<scan[s].host, scan[s].port>> \in open
    /\ Local(s, [scan[s] EXCEPT !.pc = "probe", !.found = scan[s].found \cup {scan[s].port}])
    /\ UNCHANGED Unshared

(* Every error of a dial counts as a closed port, also that of a context    *)
(* that ended during it.                                                   *)
DialFails(s) ==
    /\ scan[s].pc = "dial"
    /\ <<scan[s].host, scan[s].port>> \notin open \/ LookupsMayFail(s)
    /\ Local(s, [scan[s] EXCEPT !.pc = "probe"])
    /\ UNCHANGED Unshared

(* Mutant: a host whose probe failed is tried again.                        *)
HostsAfterCutAgain(s) == scan[s].hosts \cup {scan[s].host}

HostsAfterCut(s) == scan[s].hosts

(* The context ended with ports left: what Probe had found is dropped with  *)
(* its error, and Collect goes on to the next host.                        *)
ProbeCut(s) ==
    /\ scan[s].pc = "probe" /\ scan[s].expired /\ scan[s].ports # {}
    /\ Local(s, [scan[s] EXCEPT !.pc = "hosts", !.hosts = HostsAfterCut(s), !.ports = {}, !.found = {}])
    /\ UNCHANGED Unshared

(* Mutants: the exposures of earlier hosts are lost; every exposure is put  *)
(* down to the root.                                                       *)
ReportedAnew(s) == {f \in scan[s].out : f.check # "exposure"}
                       \cup {About("exposure", scan[s].host, p) : p \in scan[s].found}
ReportedForRoot(s) == scan[s].out \cup {About("exposure", Root, p) : p \in scan[s].found}

Reported(s) == scan[s].out \cup {About("exposure", scan[s].host, p) : p \in scan[s].found}

(* Probe returns; its HTTPS ports are looked at in turn.                    *)
ProbeReturns(s) ==
    /\ scan[s].pc = "probe" /\ scan[s].ports = {}
    /\ Local(s, [scan[s] EXCEPT !.pc = "tls", !.out = Reported(s), !.ports = scan[s].found \cap TLSPorts, !.found = {}])
    /\ UNCHANGED Unshared

TLSGraded(s, p) ==
    /\ scan[s].pc = "tls" /\ p \in scan[s].ports
    /\ ~scan[s].expired /\ <<scan[s].host, p>> \in open
    /\ Local(s, [scan[s] EXCEPT !.ports = scan[s].ports \ {p}, !.out = scan[s].out \cup {About("tls", scan[s].host, p)}])
    /\ UNCHANGED Unshared

(* Nothing to report of it, or no handshake.                                *)
TLSQuiet(s, p) ==
    /\ scan[s].pc = "tls" /\ p \in scan[s].ports
    /\ Local(s, [scan[s] EXCEPT !.ports = scan[s].ports \ {p}])
    /\ UNCHANGED Unshared

HostDone(s) ==
    /\ scan[s].pc = "tls" /\ scan[s].ports = {}
    /\ Local(s, [scan[s] EXCEPT !.pc = "hosts"])
    /\ UNCHANGED Unshared

Return(s) ==
    /\ scan[s].pc = "hosts" /\ scan[s].hosts = {}
    /\ Local(s, [scan[s] EXCEPT !.pc = "done"])
    /\ UNCHANGED Unshared

(* The caller takes the result.                                             *)
Taken(s) ==
    /\ scan[s].pc \in {"done", "failed"}
    /\ Local(s, IdleScan)
    /\ UNCHANGED Unshared

(* The scan's context ends: ScanTimeout, Stop, or the HTTP request of a     *)
(* scan-now that went away.                                                *)
Expire(s) ==
    /\ "deadline" \in Faults
    /\ Running(s) /\ ~scan[s].expired
    /\ Local(s, [scan[s] EXCEPT !.expired = TRUE])
    /\ UNCHANGED Unshared

-----------------------------------------------------------------------------
(* The world.                                                               *)

SetPlaced(tokens) ==
    /\ changes < MaxChanges /\ changes' = changes + 1
    /\ placed' = tokens
    /\ UNCHANGED <<challenge, issued, scan, validator, open, proved>>

SetOpen(endpoints) ==
    /\ changes < MaxChanges /\ changes' = changes + 1
    /\ open' = endpoints
    /\ scan' = [s \in Scans |-> IF scan[s].pc = "idle" THEN IdleScan
                                ELSE [scan[s] EXCEPT !.steady = scan[s].steady \cap endpoints, !.glimpsed = scan[s].glimpsed \cup endpoints]]
    /\ UNCHANGED <<challenge, issued, validator, placed, proved>>

Owner == \/ \E t \in 1..issued : t \notin placed /\ SetPlaced(placed \cup {t})
         \/ \E t \in placed : SetPlaced(placed \ {t})
         \/ \E e \in Endpoints \ open : SetOpen(open \cup {e})
         \/ \E e \in open : SetOpen(open \ {e})

ScanStep(s) ==
    \/ GetFails(s) \/ CheckPasses(s) \/ CheckFails(s) \/ PutVerified(s) \/ PutVerifiedFails(s)
    \/ DiscoverAll(s) \/ DiscoverRoot(s)
    \/ \E h \in Hosts : NextHost(s, h)
    \/ \E p \in Ports : Dial(s, p) \/ TLSGraded(s, p) \/ TLSQuiet(s, p)
    \/ DialAnswers(s) \/ DialFails(s) \/ ProbeCut(s) \/ ProbeReturns(s) \/ HostDone(s)
    \/ Return(s) \/ Taken(s)

ValidatorStep(v) == Validate(v) \/ PutChallenge(v) \/ PutChallengeFails(v)

Next == \/ \E s \in Scans : Get(s) \/ ScanStep(s) \/ Expire(s)
        \/ \E v \in Validators : ValidatorStep(v)
        \/ Owner

Spec == Init /\ [][Next]_vars

(* Collect has no wait of its own without a timeout, so it goes on; the     *)
(* scheduler calls it again and again; and neither does every lookup miss a *)
(* record that stays in place nor every store call fail for ever.           *)
Fairness == /\ \A s \in Scans : /\ SF_vars(Get(s)) /\ WF_vars(ScanStep(s))
                                /\ SF_vars(CheckPasses(s)) /\ SF_vars(PutVerified(s))
            /\ \A v \in Validators : WF_vars(PutChallenge(v))

FairSpec == Spec /\ Fairness

-----------------------------------------------------------------------------
(* Properties.                                                              *)

ScanLocals == [pc : {"idle", "check", "put", "discover", "hosts", "probe", "dial", "tls", "done", "failed"},
               ch : Challenge, expired : BOOLEAN, hosts : SUBSET Hosts, host : Hosts,
               ports : SUBSET Ports, port : Ports \cup {0}, found : SUBSET Ports, out : SUBSET Finding,
               steady : SUBSET Endpoints, glimpsed : SUBSET Endpoints]

(* The type of every variable.                                              *)
TypeOK == /\ challenge \in Challenge
          /\ issued \in 0..MaxTokens
          /\ scan \in [Scans -> ScanLocals]
          /\ validator \in [Validators -> 0..MaxTokens]
          /\ placed \subseteq 1..MaxTokens
          /\ open \subseteq Endpoints
          /\ proved \subseteq 1..MaxTokens
          /\ changes \in 0..MaxChanges

(* The gate: a domain stands as verified, and a scan looks up its names and *)
(* dials its hosts, only with a token that some check has seen in place;   *)
(* collector.go:115-125 with its copy of the challenge, while ValidateTarget*)
(* may have put another one in the meantime.                               *)
ProvedBeforeProbed ==
    /\ challenge.state = "verified" => challenge.token \in proved
    /\ \A s \in Scans : Probing(s) => scan[s].ch.state = "verified" /\ scan[s].ch.token \in proved

(* A report without an error has every endpoint that was open from the      *)
(* beginning of a verified scan to its end; the engine counts what a       *)
(* report lacks towards closing it.                                        *)
Exposed(s) == {e \in Endpoints : About("exposure", e[1], e[2]) \in scan[s].out}
CompleteReport ==
    \A s \in Scans : scan[s].pc = "done" /\ scan[s].ch.state = "verified" => scan[s].steady \subseteq Exposed(s)

(* The same of a scan whose context did not end and which Certificate       *)
(* Transparency answered, with every wildcard it knows; dials and lookups   *)
(* do not fail of themselves (no "flap").                                  *)
Answered(s) == \A w \in Wildcards : About("coverage", w, 0) \in scan[s].out
CompleteUnlessCut ==
    \A s \in Scans : scan[s].pc = "done" /\ scan[s].ch.state = "verified" /\ ~scan[s].expired /\ Answered(s)
                     => scan[s].steady \subseteq Exposed(s)

(* A report has no endpoint that was closed during the whole scan, and no   *)
(* TLS grade of a port it does not report open (collector.go:160-169).     *)
NothingInvented ==
    \A s \in Scans : /\ Exposed(s) \subseteq scan[s].glimpsed
                     /\ \A f \in scan[s].out : f.check = "tls" => <<f.name, f.port>> \in Exposed(s)

(* Two problems of one report are two findings: no two entries share a      *)
(* fingerprint (finding.go:130-134).                                       *)
DistinctProblems ==
    \A s \in Scans : \A f, g \in scan[s].out : Fingerprint(f) = Fingerprint(g) => f = g

(* The challenge the user was told to place stays the one that is checked   *)
(* (collector.go:88: "if this domain has none yet").                       *)
ChallengeKept == [][challenge.state # "none" => challenge'.token = challenge.token]_vars

(* A scan does not begin to look into a domain whose token is gone          *)
(* (verify.go:10-11).                                                      *)
PausesWhenTokenGone ==
    [][\A s \in Scans : scan[s].pc = "idle" /\ scan'[s].pc = "discover" => challenge.token \in placed]_vars

(* Every scan comes to an end, whatever its context does.                   *)
ScansEnd == \A s \in Scans : Running(s) ~> ~Running(s)

(* "Then it verifies automatically on the next scan" (verify.go:97): a      *)
(* domain whose token stays in place is verified in the end.               *)
InPlace == challenge.state # "none" /\ challenge.token \in placed
VerifiedInTheEnd == (<>[]InPlace) => <>(challenge.state = "verified")
=============================================================================
