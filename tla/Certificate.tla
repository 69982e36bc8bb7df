----------------------------- MODULE Certificate -----------------------------
(***************************************************************************)
(* The TLS posture of one host: what the probe grades                      *)
(* (internal/tlsprobe/tlsprobe.go), what the collector makes of the grades *)
(* (asm/collector.go, tlsFindings) and what scan after scan leaves of them *)
(* in the findings table (store/reconcile.go), while time passes, the      *)
(* owner replaces certificates, and dials and whole scans fail.            *)
(*                                                                         *)
(* A scan is one goroutine and the scans of the host follow each other;    *)
(* Reconcile has the overlapping ones.  Time is counted in half days.      *)
(***************************************************************************)
EXTENDS Integers, FiniteSets, TLC

CONSTANTS Ports,          \* HTTPS ports of the host that accept connections
          Moments,        \* instants at which something may happen
          Deployments,    \* what a server may present: certificate and parameters
          AtFirst,        \* what it may present in the beginning (a bound)
          WeakCiphers,    \* tls.InsecureCipherSuites
          WeakSignatures, \* with SHA-1 or MD5
          ResolveAfter,   \* ModuleInfo.ResolveAfter
          MaxEvents       \* bound on replacements, decisions, failed dials and scans

ASSUME PortsAssumption == IsFiniteSet(Ports) /\ Ports # {}
ASSUME AtFirstAssumption == AtFirst \subseteq Deployments
ASSUME DeploymentsAssumption == \A d \in Deployments : d.notAfter \in Int
ASSUME MomentsAssumption == Moments \subseteq Nat
ASSUME ResolveAfterAssumption == ResolveAfter \in Nat \ {0}
ASSUME MaxEventsAssumption == MaxEvents \in Nat

VARIABLES now,            \* the clock
          served,         \* what each port presents
          scan,           \* the scan in progress
          rows,           \* the findings table, TLS checks of this host
          origins,        \* ports and deployments that gave a row its severity (history)
          patience,       \* scans that may still miss a port last seen near expiry (history)
          calm,           \* how many scans in a row found the same faults (history)
          events          \* replacements, decisions and failures so far

vars == <<now, served, scan, rows, origins, patience, calm, events>>
history == <<origins, patience, calm>>

Severities == {"medium", "high", "critical"}
Rank(severity) == CASE severity = "medium" -> 1 [] severity = "high" -> 2 [] severity = "critical" -> 3

-----------------------------------------------------------------------------
(* The grades of one handshake d at instant t.                              *)

Grade(check, severity, discriminator) ==
    [check |-> check, severity |-> severity, discriminator |-> discriminator]

Days(ticks) == ticks \div 2

Expired(d, t) == t > d.notAfter

(* Mutant: the last day alone is critical.                                  *)
UrgencyOfLastDay(daysLeft) ==
    IF daysLeft = 1 THEN "critical" ELSE IF daysLeft <= 7 THEN "high" ELSE "medium"

Urgency(daysLeft) ==
    IF daysLeft <= 1 THEN "critical" ELSE IF daysLeft <= 7 THEN "high" ELSE "medium"

(* Mutant: the last hours before the end are left to tls.expired.           *)
GradeExpiryGap(d, t) ==
    CASE Expired(d, t) -> {Grade("tls.expired", "critical", "")}
      [] Days(d.notAfter - t) \in 1..30 -> {Grade("tls.expiry", Urgency(Days(d.notAfter - t)), "")}
      [] OTHER -> {}

(* Whole days left decide, so the 30 days begin 31 days before the end.     *)
GradeExpiry(d, t) ==
    CASE Expired(d, t) -> {Grade("tls.expired", "critical", "")}
      [] Days(d.notAfter - t) \in 0..30 -> {Grade("tls.expiry", Urgency(Days(d.notAfter - t)), "")}
      [] OTHER -> {}

GradeHostname(d) == IF d.covers THEN {} ELSE {Grade("tls.hostname_mismatch", "high", "")}

(* crypto/x509: a chain to a trusted root, at an instant it is valid.       *)
Verifies(d, t) == d.anchored /\ ~Expired(d, t)

(* A lone certificate that is not its own issuer is taken for one whose     *)
(* intermediates are missing, whatever made the verification fail.         *)
GradeChain(d, t) ==
    IF Verifies(d, t) THEN {}
    ELSE IF d.length = 1 /\ ~d.selfIssued THEN {Grade("tls.incomplete_chain", "medium", "")}
    ELSE {Grade("tls.untrusted_chain", "high", "")}

GradeProtocol(d) ==
    IF d.version >= 12 THEN {} ELSE {Grade("tls.weak_protocol", "high", d.version)}

GradeCipher(d) ==
    IF d.cipher \in WeakCiphers THEN {Grade("tls.weak_cipher", "high", d.cipher)} ELSE {}

(* rsaBits is 0 for another kind of key.                                    *)
GradeKeyStrength(d) ==
    IF d.rsaBits \in 1..2047 THEN {Grade("tls.weak_key", "high", d.rsaBits)} ELSE {}

GradeSignature(d) ==
    IF d.signature \in WeakSignatures THEN {Grade("tls.legacy_signature", "high", d.signature)} ELSE {}

Probe(d, t) ==
    UNION {GradeExpiry(d, t), GradeHostname(d), GradeChain(d, t), GradeProtocol(d),
           GradeCipher(d), GradeKeyStrength(d), GradeSignature(d)}

(* The host is fixed, and the port is not part of the identity.             *)
Fingerprint(g) == <<g.check, ToString(g.discriminator)>>

(* Findings as Reconcile keeps them: of two grades with one fingerprint the *)
(* one that comes later in the list is left.                               *)
Findings(grades) ==
    [f \in {Fingerprint(g) : g \in grades} |-> (CHOOSE g \in grades : Fingerprint(g) = f).severity]

(* Collect appends the findings of one port to those before it.             *)
Appended(report, later) ==
    [f \in DOMAIN report \cup DOMAIN later |-> IF f \in DOMAIN later THEN later[f] ELSE report[f]]

(* tlsFindings, for every handshake there may be.                           *)
TLSFindings == [d \in Deployments |-> [t \in Moments |-> Findings(Probe(d, t))]]

Fingerprints == UNION {DOMAIN TLSFindings[d][t] : d \in Deployments, t \in Moments}
ExpiryFindings == {Fingerprint(Grade("tls.expired", "critical", "")), Fingerprint(Grade("tls.expiry", "critical", ""))}
ASSUME ExpiryAssumption == ExpiryFindings \subseteq Fingerprints

-----------------------------------------------------------------------------
(* The table.                                                               *)

NoRow == [status |-> "none", streak |-> 0, severity |-> "none"]
Attended(row) == row.status \in {"open", "acknowledged"}
Shown(row) == row.status \in {"open", "acknowledged", "suppressed"}

Unseen == [looked |-> FALSE]
(* A scan before its first dial, which is also the pause between two.       *)
NoScan == [todo |-> Ports, report |-> <<>>, saw |-> [p \in Ports |-> Unseen]]

Init == /\ now \in Moments /\ \A t \in Moments : now <= t
        /\ served \in [Ports -> AtFirst]
        /\ scan = NoScan
        /\ rows = [f \in Fingerprints |-> NoRow]
        /\ origins = [f \in Fingerprints |-> {}]
        /\ patience = [p \in Ports |-> 0]
        /\ calm = [faults |-> {}, scans |-> 0]
        /\ events = 0

-----------------------------------------------------------------------------
(* The world.                                                               *)

TimePasses ==
    /\ \E t \in Moments : t > now /\ now' = t
    /\ UNCHANGED <<served, scan, rows, history, events>>

(* The owner installs a certificate or changes the server's parameters.     *)
Replace(p, d) ==
    /\ events < MaxEvents
    /\ served' = [served EXCEPT ![p] = d]
    /\ events' = events + 1
    /\ UNCHANGED <<now, scan, rows, history>>

(* The user opens, acknowledges or suppresses a finding on record.          *)
Decide(f, status) ==
    /\ events < MaxEvents
    /\ rows[f].status # "none"
    /\ rows' = [rows EXCEPT ![f].status = status]
    /\ events' = events + 1
    /\ calm' = [calm EXCEPT !.scans = 0]
    /\ UNCHANGED <<now, served, scan, origins, patience>>

-----------------------------------------------------------------------------
(* A scan.                                                                  *)

(* What a dial sees, for the properties: the deployment, its faults, and    *)
(* whether its certificate is within 31 days of its end, or past it.       *)
Faults(p) == DOMAIN TLSFindings[served[p]][now]
View(p) == [looked |-> TRUE, deployment |-> served[p], faults |-> Faults(p),
            near |-> served[p].notAfter - now < 31 * 2]

(* The ports come in the order of a Go map, that is in any.  The grades of  *)
(* this port follow those of the ports before it.                          *)
DialSucceeds(p) ==
    /\ p \in scan.todo
    /\ scan' = [scan EXCEPT !.todo = @ \ {p},
                            !.report = Appended(scan.report, TLSFindings[served[p]][now]),
                            !.saw[p] = View(p)]
    /\ UNCHANGED <<now, served, rows, history, events>>

(* The port does not answer, or not with TLS: no finding and no error.      *)
DialFails(p) ==
    /\ p \in scan.todo
    /\ events < MaxEvents
    /\ scan' = [scan EXCEPT !.todo = @ \ {p}]
    /\ events' = events + 1
    /\ UNCHANGED <<now, served, rows, history>>

(* Collect or Reconcile's List or first Upsert returns an error.            *)
ScanFails ==
    /\ scan # NoScan
    /\ events < MaxEvents
    /\ scan' = NoScan
    /\ events' = events + 1
    /\ UNCHANGED <<now, served, rows, history>>

Sighted(row, severity) ==
    [status |-> IF Shown(row) THEN row.status ELSE "open", streak |-> 0, severity |-> severity]

(* Mutant: > for >= at the threshold.                                       *)
MissedOneMore(row) ==
    IF ~Attended(row) THEN row
    ELSE [row EXCEPT !.streak = @ + 1, !.status = IF row.streak + 1 > ResolveAfter THEN "resolved" ELSE @]

Missed(row) ==
    IF ~Attended(row) THEN row
    ELSE [row EXCEPT !.streak = @ + 1, !.status = IF row.streak + 1 >= ResolveAfter THEN "resolved" ELSE @]

(* The table when Reconcile has written the rows of these findings.         *)
Reconciled(written) ==
    [f \in Fingerprints |->
        IF f \notin written THEN rows[f]
        ELSE IF f \in DOMAIN scan.report THEN Sighted(rows[f], scan.report[f]) ELSE Missed(rows[f])]

(* The ports whose certificate, as seen, has the finding.                   *)
Sources(views, f) == {p \in Ports : views[p].looked /\ f \in views[p].faults}

(* The rows of these findings now have the severity this scan has graded.   *)
OriginsOf(written) ==
    [f \in Fingerprints |-> IF f \in written \cap DOMAIN scan.report
                             THEN {<<p, scan.saw[p].deployment>> : p \in Sources(scan.saw, f)} ELSE origins[f]]

Patience(p) ==
    IF ~scan.saw[p].looked THEN IF patience[p] = 0 THEN 0 ELSE patience[p] - 1
    ELSE IF scan.saw[p].near THEN ResolveAfter ELSE 0

Reconcile ==
    /\ scan.todo = {}
    /\ rows' = Reconciled(Fingerprints)
    /\ scan' = NoScan
    /\ origins' = OriginsOf(Fingerprints)
    /\ patience' = [p \in Ports |-> Patience(p)]
    /\ calm' = [faults |-> DOMAIN scan.report,
                scans |-> IF DOMAIN scan.report # calm.faults THEN 1
                          ELSE IF calm.scans < ResolveAfter THEN calm.scans + 1 ELSE ResolveAfter]
    /\ UNCHANGED <<now, served, events>>

(* The rows that Reconcile has to write.                                    *)
Due == DOMAIN scan.report \cup {f \in Fingerprints : Attended(rows[f])}

(* An Upsert fails after others have been made, of the findings reported    *)
(* first and then of those absent: the scan ends in an error and what is    *)
(* written stays.  (Of a finding that two ports report, the severity of the *)
(* earlier one may be what is left; no property is about it.)               *)
ReconcileFails ==
    /\ scan.todo = {}
    /\ events < MaxEvents
    /\ \E written \in SUBSET Due \ {{}, Due} :
          /\ written \subseteq DOMAIN scan.report \/ DOMAIN scan.report \subseteq written
          /\ rows' = Reconciled(written)
          /\ origins' = OriginsOf(written)
          /\ patience' = [p \in Ports |-> IF written \subseteq DOMAIN scan.report THEN patience[p] ELSE Patience(p)]
    /\ scan' = NoScan
    /\ calm' = [calm EXCEPT !.scans = 0]
    /\ events' = events + 1
    /\ UNCHANGED <<now, served>>

Next ==
    \/ TimePasses
    \/ \E p \in Ports, d \in Deployments : Replace(p, d)
    \/ \E f \in Fingerprints, status \in {"open", "acknowledged", "suppressed"} : Decide(f, status)
    \/ \E p \in Ports : DialSucceeds(p) \/ DialFails(p)
    \/ ScanFails
    \/ Reconcile \/ ReconcileFails

Spec == Init /\ [][Next]_vars

-----------------------------------------------------------------------------
(* Properties.                                                              *)

(* Every row, report and view holds only values the code can write.         *)
TypeOK ==
    /\ now \in Moments
    /\ served \in [Ports -> Deployments]
    /\ scan.todo \subseteq Ports
    /\ DOMAIN scan.report \subseteq Fingerprints
    /\ \A f \in DOMAIN scan.report : scan.report[f] \in Severities
    /\ \A f \in Fingerprints :
          /\ rows[f].status \in {"none", "open", "acknowledged", "suppressed", "resolved"}
          /\ rows[f].severity \in Severities \cup {"none"}
          /\ (rows[f].status = "none") = (rows[f] = NoRow)
    /\ calm.scans \in 0..ResolveAfter

(* A certificate seen within 31 days of its end or past it has a finding on *)
(* the dashboard, across the hand-over from tls.expiry to tls.expired, the  *)
(* user's decisions and misses, until it is replaced or ResolveAfter scans  *)
(* in a row have missed it (gradeExpiry, Reconcile's absences).            *)
WatchedToTheEnd ==
    \A p \in Ports : patience[p] > 0 => \E f \in ExpiryFindings : Shown(rows[f])

(* When ResolveAfter scans in a row have found the same faults the table    *)
(* shows exactly these, but for what the user has suppressed (Reconcile).   *)
AgreesWhenCalm ==
    calm.scans = ResolveAfter =>
        \A f \in Fingerprints : IF f \in calm.faults THEN Shown(rows[f]) ELSE ~Attended(rows[f])

(* A finding that one port has, with one certificate, only grows more       *)
(* severe on record: over misses, closing and reopening, decisions and      *)
(* scans that fail at any moment (the ladder of gradeExpiry, the refresh in *)
(* Reconcile).                                                             *)
GrowsMoreSevere(f) ==
    (\E p \in Ports, d \in Deployments : origins[f] = {<<p, d>>} /\ origins'[f] = {<<p, d>>})
    => Rank(rows'[f].severity) >= Rank(rows[f].severity)
SeverityOnlyRises == [][\A f \in Fingerprints : GrowsMoreSevere(f)]_vars

-----------------------------------------------------------------------------
(* What does not hold; the runs by hand that show it are in the README.     *)

(* SeverityOnlyRises for a host with two ports near expiry: which severity  *)
(* the one finding keeps is up to the order of a Go map (asm/probe.go).     *)
HostOnlyGrowsWorse(f) ==
    origins[f] # {} /\ origins'[f] = origins[f] => Rank(rows'[f].severity) >= Rank(rows[f].severity)
HostSeverityOnlyRises == [][\A f \in Fingerprints : HostOnlyGrowsWorse(f)]_vars

(* A finding suppressed for one certificate does not silence the same       *)
(* finding about a later one: Reconcile never closes a suppressed row.      *)
SuppressionEndsWithFault ==
    calm.scans = ResolveAfter =>
        \A f \in Fingerprints \ calm.faults : rows[f].status # "suppressed"

(* A chain is blamed only when it does not lead to a trusted root, not      *)
(* because the certificate has expired (gradeChain verifies at now).        *)
ChainBlamedFairly ==
    \A p \in Ports : scan.saw[p].looked =>
        \A f \in scan.saw[p].faults :
            f[1] \in {"tls.incomplete_chain", "tls.untrusted_chain"} => ~scan.saw[p].deployment.anchored
=============================================================================
