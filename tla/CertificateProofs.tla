-------------------------- MODULE CertificateProofs --------------------------
(***************************************************************************)
(* What holds of the TLS findings of a host for every ladder of instants,  *)
(* every set of ports and deployments and every threshold: a certificate   *)
(* near its end keeps a finding, the table agrees with the servers once    *)
(* they are calm, and severities only rise.                                *)
(***************************************************************************)
EXTENDS Certificate, TLAPS

USE AtFirstAssumption, DeploymentsAssumption, MomentsAssumption, ResolveAfterAssumption,
    MaxEventsAssumption, ExpiryAssumption

Known == [status : {"open", "acknowledged", "suppressed", "resolved"}, streak : Nat, severity : Severities]
Row == Known \cup {NoRow}
Seen == [looked : {TRUE}, deployment : Deployments, faults : SUBSET Fingerprints, near : BOOLEAN]
Views == Seen \cup {Unseen}
Reports == UNION {[D -> Severities] : D \in SUBSET Fingerprints}

Typed ==
    /\ now \in Moments
    /\ served \in [Ports -> Deployments]
    /\ scan \in [todo : SUBSET Ports, report : Reports, saw : [Ports -> Views]]
    /\ rows \in [Fingerprints -> Row]
    /\ origins \in [Fingerprints -> SUBSET (Ports \X Deployments)]
    /\ patience \in [Ports -> 0..ResolveAfter]
    /\ calm \in [faults : SUBSET Fingerprints, scans : 0..ResolveAfter]
    /\ events \in Nat

(* The report has exactly the faults of the ports the scan has reached, and *)
(* a certificate near its end is among them.                               *)
ScanSound ==
    /\ \A f \in Fingerprints : f \in DOMAIN scan.report <=> Sources(scan.saw, f) # {}
    /\ \A p \in scan.todo : ~scan.saw[p].looked
    /\ \A p \in Ports : scan.saw[p].looked /\ scan.saw[p].near =>
          \E f \in ExpiryFindings : f \in scan.saw[p].faults

(* The finding that watches a certificate can be missed as often as the     *)
(* port may still be.                                                      *)
Watched ==
    \A p \in Ports : patience[p] > 0 =>
        \E f \in ExpiryFindings : Shown(rows[f]) /\ rows[f].streak + patience[p] <= ResolveAfter

(* As many scans in a row as found the same faults have missed any other.   *)
Settling ==
    calm.scans > 0 => \A f \in Fingerprints :
        IF f \in calm.faults THEN Shown(rows[f])
        ELSE Attended(rows[f]) => calm.scans <= rows[f].streak /\ rows[f].streak < ResolveAfter

(* A severity comes from a handshake that has taken place.                  *)
GradedBefore(severity, d, f) ==
    \E t \in Moments : /\ t <= now /\ f \in DOMAIN TLSFindings[d][t]
                       /\ severity = TLSFindings[d][t][f]

(* The one certificate with a finding gave it its severity, in the table    *)
(* and in the report, and that of the report is not below that of the table.*)
Graded ==
    \A f \in Fingerprints, p \in Ports :
        /\ \A d \in Deployments : origins[f] = {<<p, d>>} => GradedBefore(rows[f].severity, d, f)
        /\ Sources(scan.saw, f) = {p} => GradedBefore(scan.report[f], scan.saw[p].deployment, f)
        /\ origins[f] = {<<p, scan.saw[p].deployment>>} /\ Sources(scan.saw, f) = {p}
           => Rank(scan.report[f]) >= Rank(rows[f].severity)

-----------------------------------------------------------------------------
(* The grades.                                                              *)

(* The severity of every check but tls.expiry, which has a ladder.          *)
FixedSeverity(check) ==
    IF check = "tls.expired" THEN "critical"
    ELSE IF check = "tls.incomplete_chain" THEN "medium" ELSE "high"

(* A check has one severity, but for the ladder of days.                    *)
LEMMA SeverityOfGrade ==
    ASSUME NEW d \in Deployments, NEW t \in Moments, NEW g \in Probe(d, t)
    PROVE  IF g.check = "tls.expiry" THEN g.severity = Urgency(Days(d.notAfter - t))
           ELSE g.severity = FixedSeverity(g.check)
<1> DEFINE Goal == IF g.check = "tls.expiry" THEN g.severity = Urgency(Days(d.notAfter - t))
                   ELSE g.severity = FixedSeverity(g.check)
<1> SUFFICES Goal
  OBVIOUS
<1>0. ASSUME NEW check, NEW severity, NEW discriminator, g = Grade(check, severity, discriminator)
      PROVE  g.check = check /\ g.severity = severity
  BY <1>0 DEF Grade
<1>1. CASE g \in GradeExpiry(d, t)
  <2>1. CASE g = Grade("tls.expired", "critical", "")
    <3>1. g.check = "tls.expired" /\ g.severity = "critical"
      BY <2>1, <1>0
    <3> QED BY <3>1 DEF FixedSeverity
  <2>2. CASE g = Grade("tls.expiry", Urgency(Days(d.notAfter - t)), "")
    <3>1. g.check = "tls.expiry" /\ g.severity = Urgency(Days(d.notAfter - t))
      BY <2>2, <1>0
    <3> QED BY <3>1
  <2> QED BY <1>1, <2>1, <2>2, Zenon DEF GradeExpiry
<1>2. CASE g \in GradeChain(d, t)
  <2>1. CASE g = Grade("tls.incomplete_chain", "medium", "")
    <3>1. g.check = "tls.incomplete_chain" /\ g.severity = "medium"
      BY <2>1, <1>0
    <3> QED BY <3>1 DEF FixedSeverity
  <2>2. CASE g = Grade("tls.untrusted_chain", "high", "")
    <3>1. g.check = "tls.untrusted_chain" /\ g.severity = "high"
      BY <2>2, <1>0
    <3> QED BY <3>1 DEF FixedSeverity
  <2> QED BY <1>2, <2>1, <2>2, Zenon DEF GradeChain
<1>3. ASSUME NEW check \in {"tls.hostname_mismatch", "tls.weak_protocol", "tls.weak_cipher",
                            "tls.weak_key", "tls.legacy_signature"}, NEW discriminator,
             g = Grade(check, "high", discriminator)
      PROVE  Goal
  <2>1. g.check = check /\ g.severity = "high"
    BY <1>3, <1>0
  <2> QED BY <2>1 DEF FixedSeverity
<1> HIDE DEF Goal
<1>4. CASE g \in GradeHostname(d)
  <2>1. g = Grade("tls.hostname_mismatch", "high", "")
    BY <1>4, Zenon DEF GradeHostname
  <2> QED BY <2>1, <1>3
<1>5. CASE g \in GradeProtocol(d)
  <2>1. g = Grade("tls.weak_protocol", "high", d.version)
    BY <1>5, Zenon DEF GradeProtocol
  <2> QED BY <2>1, <1>3
<1>6. CASE g \in GradeCipher(d)
  <2>1. g = Grade("tls.weak_cipher", "high", d.cipher)
    BY <1>6, Zenon DEF GradeCipher
  <2> QED BY <2>1, <1>3
<1>7. CASE g \in GradeKeyStrength(d)
  <2>1. g = Grade("tls.weak_key", "high", d.rsaBits)
    BY <1>7 DEF GradeKeyStrength
  <2> QED BY <2>1, <1>3
<1>8. CASE g \in GradeSignature(d)
  <2>1. g = Grade("tls.legacy_signature", "high", d.signature)
    BY <1>8, Zenon DEF GradeSignature
  <2> QED BY <2>1, <1>3
<1> QED BY <1>1, <1>2, <1>4, <1>5, <1>6, <1>7, <1>8 DEF Probe, Goal

(* Fewer days left never lower the severity.                                *)
LEMMA LadderRises ==
    ASSUME NEW m \in Int, NEW n \in Int, n <= m
    PROVE  Rank(Urgency(Days(n))) >= Rank(Urgency(Days(m)))
<1>1. Days(n) \in Int /\ Days(m) \in Int /\ Days(n) <= Days(m)
  BY DEF Days
<1>2. Rank("medium") = 1 /\ Rank("high") = 2 /\ Rank("critical") = 3
  BY DEF Rank
<1> QED BY <1>1, <1>2 DEF Urgency

(* The findings of one handshake: which they are, and their severities.     *)
LEMMA FindingsOfProbe ==
    ASSUME NEW d \in Deployments, NEW t \in Moments
    PROVE  /\ DOMAIN TLSFindings[d][t] = {Fingerprint(g) : g \in Probe(d, t)}
           /\ DOMAIN TLSFindings[d][t] \subseteq Fingerprints
           /\ \A f \in DOMAIN TLSFindings[d][t] :
                 \E g \in Probe(d, t) : Fingerprint(g) = f /\ TLSFindings[d][t][f] = g.severity
           /\ TLSFindings[d][t] = [f \in DOMAIN TLSFindings[d][t] |-> TLSFindings[d][t][f]]
<1>1. TLSFindings[d][t] = Findings(Probe(d, t))
  BY DEF TLSFindings
<1>2. Findings(Probe(d, t)) = [f \in {Fingerprint(g) : g \in Probe(d, t)} |->
                                  (CHOOSE g \in Probe(d, t) : Fingerprint(g) = f).severity]
  BY DEF Findings
<1>3. DOMAIN TLSFindings[d][t] = {Fingerprint(g) : g \in Probe(d, t)}
  BY <1>1, <1>2
<1>4. DOMAIN TLSFindings[d][t] \subseteq Fingerprints
  BY DEF Fingerprints
<1>5. ASSUME NEW f \in DOMAIN TLSFindings[d][t]
      PROVE  \E g \in Probe(d, t) : Fingerprint(g) = f /\ TLSFindings[d][t][f] = g.severity
  <2> DEFINE h == CHOOSE g \in Probe(d, t) : Fingerprint(g) = f
  <2>1. \E g \in Probe(d, t) : Fingerprint(g) = f
    BY <1>3
  <2>2. h \in Probe(d, t) /\ Fingerprint(h) = f
    BY <2>1
  <2>3. TLSFindings[d][t][f] = h.severity
    BY <1>1, <1>2, <1>3
  <2> QED BY <2>2, <2>3
<1>6. TLSFindings[d][t] = [f \in DOMAIN TLSFindings[d][t] |-> TLSFindings[d][t][f]]
  BY <1>1, <1>2
<1> QED BY <1>3, <1>4, <1>5, <1>6

(* A probe only writes the three severities.                                *)
LEMMA FindingsTyped ==
    ASSUME NEW d \in Deployments, NEW t \in Moments
    PROVE  \A f \in DOMAIN TLSFindings[d][t] : TLSFindings[d][t][f] \in Severities
<1> SUFFICES ASSUME NEW f \in DOMAIN TLSFindings[d][t]
             PROVE  TLSFindings[d][t][f] \in Severities
  OBVIOUS
<1>1. PICK g \in Probe(d, t) : TLSFindings[d][t][f] = g.severity
  <2>1. \A h \in DOMAIN TLSFindings[d][t] :
            \E g \in Probe(d, t) : Fingerprint(g) = h /\ TLSFindings[d][t][h] = g.severity
    BY FindingsOfProbe
  <2> QED BY <2>1
<1> QED BY <1>1, SeverityOfGrade DEF Urgency, FixedSeverity, Severities

(* From one instant to a later one a finding about one certificate never    *)
(* becomes less severe.                                                    *)
LEMMA FindingRises ==
    ASSUME NEW d \in Deployments, NEW t \in Moments, NEW u \in Moments, t <= u, NEW f,
           f \in DOMAIN TLSFindings[d][t], f \in DOMAIN TLSFindings[d][u]
    PROVE  Rank(TLSFindings[d][u][f]) >= Rank(TLSFindings[d][t][f])
<1>1. PICK g \in Probe(d, t) : Fingerprint(g) = f /\ TLSFindings[d][t][f] = g.severity
  BY FindingsOfProbe
<1>2. PICK h \in Probe(d, u) : Fingerprint(h) = f /\ TLSFindings[d][u][f] = h.severity
  BY FindingsOfProbe
<1>3. g.check = h.check
  BY <1>1, <1>2 DEF Fingerprint
<1>4. CASE g.check = "tls.expiry"
  <2>1. /\ g.severity = Urgency(Days(d.notAfter - t))
        /\ h.severity = Urgency(Days(d.notAfter - u))
    BY <1>3, <1>4, SeverityOfGrade
  <2>2. /\ d.notAfter - t \in Int /\ d.notAfter - u \in Int
        /\ d.notAfter - u <= d.notAfter - t
    OBVIOUS
  <2>3. Rank(Urgency(Days(d.notAfter - u))) >= Rank(Urgency(Days(d.notAfter - t)))
    BY <2>2, LadderRises
  <2> QED BY <1>1, <1>2, <2>1, <2>3
<1>5. CASE g.check # "tls.expiry"
  <2>1. g.severity = FixedSeverity(g.check) /\ h.severity = FixedSeverity(g.check)
    BY <1>3, <1>5, SeverityOfGrade
  <2>2. Rank(FixedSeverity(g.check)) \in Int
    BY DEF FixedSeverity, Rank
  <2> QED BY <1>1, <1>2, <2>1, <2>2
<1> QED BY <1>4, <1>5

(* Past its end, and for the 31 days before it, a certificate has one of    *)
(* the two findings, whatever else is wrong with it.                       *)
LEMMA NearEndIsFound ==
    ASSUME NEW d \in Deployments, NEW t \in Moments, d.notAfter - t < 31 * 2
    PROVE  \E f \in ExpiryFindings : f \in DOMAIN TLSFindings[d][t]
<1>1. PICK g : g \in GradeExpiry(d, t) /\ Fingerprint(g) \in ExpiryFindings
  <2>1. CASE Expired(d, t)
    <3>1. Days(d.notAfter - t) \notin 0..30
      BY <2>1 DEF Expired, Days
    <3>2. Grade("tls.expired", "critical", "") \in GradeExpiry(d, t)
      BY <2>1, <3>1, Zenon DEF GradeExpiry
    <3> QED BY <3>2 DEF ExpiryFindings
  <2>2. CASE ~Expired(d, t)
    <3>1. d.notAfter - t \in 0..61
      BY <2>2 DEF Expired
    <3>2. Days(d.notAfter - t) \in 0..30
      BY <3>1 DEF Days
    <3>3. Grade("tls.expiry", Urgency(Days(d.notAfter - t)), "") \in GradeExpiry(d, t)
      BY <2>2, <3>2 DEF GradeExpiry
    <3>4. Fingerprint(Grade("tls.expiry", Urgency(Days(d.notAfter - t)), ""))
              = Fingerprint(Grade("tls.expiry", "critical", ""))
      BY DEF Fingerprint, Grade
    <3> QED BY <3>3, <3>4 DEF ExpiryFindings
  <2> QED BY <2>1, <2>2
<1>2. g \in Probe(d, t)
  BY <1>1 DEF Probe
<1>3. DOMAIN TLSFindings[d][t] = {Fingerprint(h) : h \in Probe(d, t)}
  BY FindingsOfProbe
<1> QED BY <1>1, <1>2, <1>3

-----------------------------------------------------------------------------
(* Types.                                                                   *)

(* The findings of a handshake are a report.                                *)
LEMMA FindingsAreAReport ==
    ASSUME NEW d \in Deployments, NEW t \in Moments
    PROVE  TLSFindings[d][t] \in Reports
<1> DEFINE D == DOMAIN TLSFindings[d][t]
<1>1. D \in SUBSET Fingerprints
  BY FindingsOfProbe
<1>2. TLSFindings[d][t] = [f \in D |-> TLSFindings[d][t][f]]
  BY FindingsOfProbe
<1>3. \A f \in D : TLSFindings[d][t][f] \in Severities
  BY FindingsTyped
<1>4. TLSFindings[d][t] \in [D -> Severities]
  BY <1>2, <1>3
<1> QED BY <1>1, <1>4 DEF Reports

(* What the report says: the later grades where they say something.         *)
LEMMA AppendedReport ==
    ASSUME NEW report \in Reports, NEW later \in Reports
    PROVE  /\ Appended(report, later) \in Reports
           /\ DOMAIN Appended(report, later) = DOMAIN report \cup DOMAIN later
           /\ \A f \in DOMAIN later : Appended(report, later)[f] = later[f]
           /\ \A f \in DOMAIN report \ DOMAIN later : Appended(report, later)[f] = report[f]
<1>1. PICK R \in SUBSET Fingerprints : report \in [R -> Severities]
  BY DEF Reports
<1>2. PICK L \in SUBSET Fingerprints : later \in [L -> Severities]
  BY DEF Reports
<1>3. Appended(report, later) = [f \in R \cup L |-> IF f \in L THEN later[f] ELSE report[f]]
  BY <1>1, <1>2 DEF Appended
<1>4. Appended(report, later) \in [R \cup L -> Severities]
  BY <1>1, <1>2, <1>3
<1>5. R \cup L \in SUBSET Fingerprints
  OBVIOUS
<1>6. Appended(report, later) \in Reports
  BY <1>4, <1>5 DEF Reports
<1> QED BY <1>1, <1>2, <1>3, <1>6

(* What a dial sees is a view of the port.                                  *)
LEMMA ViewTyped ==
    ASSUME Typed, NEW p \in Ports
    PROVE  View(p) \in Seen
<1>1. served[p] \in Deployments /\ now \in Moments
  BY DEF Typed
<1>2. Faults(p) \in SUBSET Fingerprints
  BY <1>1, FindingsOfProbe DEF Faults
<1>3. (served[p].notAfter - now < 31 * 2) \in BOOLEAN
  OBVIOUS
<1> QED BY <1>1, <1>2, <1>3, Zenon DEF View, Seen

(* A dial adds its port's findings and view to the scan.                    *)
LEMMA DialEffect ==
    ASSUME Typed, NEW p \in Ports, DialSucceeds(p)
    PROVE  /\ scan' \in [todo : SUBSET Ports, report : Reports, saw : [Ports -> Views]]
           /\ scan'.todo = scan.todo \ {p}
           /\ scan'.saw = [scan.saw EXCEPT ![p] = View(p)]
           /\ scan'.report = Appended(scan.report, TLSFindings[served[p]][now])
<1> DEFINE todo == scan.todo \ {p}
           report == Appended(scan.report, TLSFindings[served[p]][now])
           saw == [scan.saw EXCEPT ![p] = View(p)]
<1>1. scan \in [todo : SUBSET Ports, report : Reports, saw : [Ports -> Views]]
  BY DEF Typed
<1>2. scan' = [scan EXCEPT !.todo = todo, !.report = report, !.saw = saw]
  BY DEF DialSucceeds
<1>3. View(p) \in Views
  BY ViewTyped DEF Views
<1>4. report \in Reports
  BY <1>1, FindingsAreAReport, AppendedReport DEF Typed
<1>5. todo \in SUBSET Ports /\ saw \in [Ports -> Views]
  BY <1>1, <1>3
<1> HIDE DEF todo, report, saw
<1>6. scan' = [todo |-> todo, report |-> report, saw |-> saw]
  BY <1>1, <1>2
<1>7. /\ scan' \in [todo : SUBSET Ports, report : Reports, saw : [Ports -> Views]]
      /\ scan'.todo = todo /\ scan'.report = report /\ scan'.saw = saw
  BY <1>4, <1>5, <1>6
<1> QED BY <1>7 DEF todo, report, saw

(* A scan that has not begun.                                               *)
LEMMA NoScanTyped ==
    /\ NoScan \in [todo : SUBSET Ports, report : Reports, saw : [Ports -> Views]]
    /\ NoScan.todo = Ports /\ NoScan.report = <<>> /\ DOMAIN NoScan.report = {}
    /\ \A p \in Ports : NoScan.saw[p] = Unseen
<1>1. <<>> \in [{} -> Severities] /\ DOMAIN <<>> = {}
  OBVIOUS
<1>2. <<>> \in Reports
  BY <1>1 DEF Reports
<1>3. [p \in Ports |-> Unseen] \in [Ports -> Views]
  BY DEF Views
<1> QED BY <1>1, <1>2, <1>3 DEF NoScan

(* A finding that is seen is shown, with no absences, as it was graded.     *)
LEMMA SightedRow ==
    ASSUME NEW row \in Row, NEW severity \in Severities
    PROVE  /\ Sighted(row, severity) \in Known
           /\ Shown(Sighted(row, severity))
           /\ Sighted(row, severity).streak = 0 /\ Sighted(row, severity).severity = severity
BY DEF Sighted, Known, Row, Shown

(* One that is missed counts an absence while somebody cares, and is closed *)
(* when they have become enough.                                           *)
LEMMA MissedRow ==
    ASSUME NEW row \in Row
    PROVE  /\ Missed(row) \in Row
           /\ Missed(row).severity = row.severity
           /\ ~Attended(row) => Missed(row) = row
           /\ Attended(row) => /\ Missed(row).streak = row.streak + 1
                               /\ row.streak + 1 < ResolveAfter => Missed(row).status = row.status
                               /\ row.streak + 1 >= ResolveAfter => Missed(row).status = "resolved"
<1>1. CASE ~Attended(row)
  BY <1>1 DEF Missed
<1>2. CASE Attended(row)
  <2>1. row \in Known
    BY <1>2 DEF Row, NoRow, Attended
  <2>2. /\ row.streak \in Nat /\ row.streak + 1 \in Nat /\ ResolveAfter \in Nat
        /\ (row.streak + 1 >= ResolveAfter) = ~(row.streak + 1 < ResolveAfter)
    BY <2>1 DEF Known
  <2>3. CASE row.streak + 1 >= ResolveAfter
    <3>1. Missed(row) = [row EXCEPT !.streak = row.streak + 1, !.status = "resolved"]
      BY <1>2, <2>3 DEF Missed
    <3>2. Missed(row) \in Known /\ Missed(row).severity = row.severity
              /\ Missed(row).streak = row.streak + 1 /\ Missed(row).status = "resolved"
      BY <2>1, <2>2, <3>1 DEF Known
    <3> QED BY <1>2, <2>2, <2>3, <3>2 DEF Row
  <2>4. CASE row.streak + 1 < ResolveAfter
    <3>1. Missed(row) = [row EXCEPT !.streak = row.streak + 1, !.status = row.status]
      BY <1>2, <2>2, <2>4 DEF Missed
    <3>2. Missed(row) \in Known /\ Missed(row).severity = row.severity
              /\ Missed(row).streak = row.streak + 1 /\ Missed(row).status = row.status
      BY <2>1, <2>2, <3>1 DEF Known
    <3> QED BY <1>2, <2>2, <2>4, <3>2 DEF Row
  <2> QED BY <2>2, <2>3, <2>4
<1> QED BY <1>1, <1>2

(* The table when some or all of a scan is written.                         *)
LEMMA TableAfterScan ==
    ASSUME Typed, NEW written
    PROVE  /\ Reconciled(written) \in [Fingerprints -> Row]
           /\ \A f \in Fingerprints :
                 /\ f \notin written => Reconciled(written)[f] = rows[f]
                 /\ f \in written /\ f \in DOMAIN scan.report =>
                       Reconciled(written)[f] = Sighted(rows[f], scan.report[f])
                 /\ f \in written /\ f \notin DOMAIN scan.report => Reconciled(written)[f] = Missed(rows[f])
           /\ \A f \in DOMAIN scan.report : f \in Fingerprints /\ scan.report[f] \in Severities
<1>0. scan.report \in Reports /\ rows \in [Fingerprints -> Row]
  BY DEF Typed
<1>1. PICK D \in SUBSET Fingerprints : scan.report \in [D -> Severities]
  BY <1>0 DEF Reports
<1> DEFINE new(f) == IF f \notin written THEN rows[f]
                     ELSE IF f \in DOMAIN scan.report THEN Sighted(rows[f], scan.report[f]) ELSE Missed(rows[f])
<1>2. ASSUME NEW f \in Fingerprints
      PROVE  new(f) \in Row
  <2>1. CASE f \in DOMAIN scan.report
    <3>1. scan.report[f] \in Severities /\ rows[f] \in Row
      BY <1>0, <1>1, <2>1
    <3> QED BY <2>1, <3>1, SightedRow DEF Row
  <2>2. CASE f \notin DOMAIN scan.report
    BY <1>0, <2>2, MissedRow
  <2> QED BY <2>1, <2>2
<1>3. Reconciled(written) = [f \in Fingerprints |-> new(f)]
  BY DEF Reconciled
<1>4. \A f \in Fingerprints : Reconciled(written)[f] = new(f)
  BY <1>3
<1>5. Reconciled(written) \in [Fingerprints -> Row]
  <2> HIDE DEF new
  <2> QED BY <1>2, <1>3
<1> QED BY <1>1, <1>4, <1>5

(* Where a row that is written, and one that is not, has its severity from. *)
LEMMA OriginsAfterScan ==
    ASSUME Typed, NEW written
    PROVE  /\ OriginsOf(written) \in [Fingerprints -> SUBSET (Ports \X Deployments)]
           /\ \A f \in Fingerprints, p \in Ports, d \in Deployments :
                 OriginsOf(written)[f] = {<<p, d>>} =>
                     IF f \in written /\ f \in DOMAIN scan.report
                     THEN Sources(scan.saw, f) = {p} /\ scan.saw[p].deployment = d
                     ELSE origins[f] = {<<p, d>>}
<1> DEFINE from(f) == {<<p, scan.saw[p].deployment>> : p \in Sources(scan.saw, f)}
<1>1. /\ scan.saw \in [Ports -> Views]
      /\ origins \in [Fingerprints -> SUBSET (Ports \X Deployments)]
  BY DEF Typed
<1>2. ASSUME NEW f, NEW p \in Sources(scan.saw, f)
      PROVE  p \in Ports /\ scan.saw[p].deployment \in Deployments
  <2>1. p \in Ports /\ scan.saw[p].looked /\ scan.saw[p] \in Views
    BY <1>1, <1>2 DEF Sources
  <2>2. scan.saw[p] # Unseen
    BY <2>1 DEF Unseen
  <2> QED BY <2>1, <2>2 DEF Views, Seen
<1>3. \A f : from(f) \in SUBSET (Ports \X Deployments)
  BY <1>2
<1>4. OriginsOf(written) = [f \in Fingerprints |-> IF f \in written \cap DOMAIN scan.report THEN from(f) ELSE origins[f]]
  BY DEF OriginsOf
<1>5. ASSUME NEW f, NEW p, NEW d, from(f) = {<<p, d>>}
      PROVE  Sources(scan.saw, f) = {p} /\ scan.saw[p].deployment = d
  <2>1. \A q \in Sources(scan.saw, f) : <<q, scan.saw[q].deployment>> = <<p, d>>
    BY <1>5
  <2>2. \E q \in Sources(scan.saw, f) : <<p, d>> = <<q, scan.saw[q].deployment>>
    BY <1>5
  <2> QED BY <2>1, <2>2
<1> HIDE DEF from
<1>6. OriginsOf(written) \in [Fingerprints -> SUBSET (Ports \X Deployments)]
  BY <1>1, <1>3, <1>4
<1>7. \A f \in Fingerprints : OriginsOf(written)[f] = IF f \in written \cap DOMAIN scan.report THEN from(f) ELSE origins[f]
  BY <1>4
<1> QED BY <1>5, <1>6, <1>7

(* A decision changes the status of a row on record, and nothing else.      *)
LEMMA DecidedRow ==
    ASSUME Typed, NEW f \in Fingerprints, NEW status \in {"open", "acknowledged", "suppressed"},
           Decide(f, status)
    PROVE  /\ rows' \in [Fingerprints -> Row]
           /\ \A g \in Fingerprints :
                 /\ rows'[g].streak = rows[g].streak /\ rows'[g].severity = rows[g].severity
                 /\ Shown(rows[g]) => Shown(rows'[g])
           /\ calm' \in [faults : SUBSET Fingerprints, scans : 0..ResolveAfter] /\ calm'.scans = 0
           /\ events' \in Nat
           /\ UNCHANGED <<now, served, scan, origins, patience>>
<1>1. rows \in [Fingerprints -> Row] /\ calm \in [faults : SUBSET Fingerprints, scans : 0..ResolveAfter]
  BY DEF Typed
<1>2. rows[f] \in Known
  BY <1>1 DEF Decide, Row, NoRow
<1> DEFINE new == [rows[f] EXCEPT !.status = status]
<1>3. new \in Known /\ new.streak = rows[f].streak /\ new.severity = rows[f].severity /\ Shown(new)
  BY <1>2 DEF Known, Shown
<1>4. rows' = [rows EXCEPT ![f] = new]
  BY DEF Decide
<1> HIDE DEF new
<1>5. rows' \in [Fingerprints -> Row]
  BY <1>1, <1>3, <1>4 DEF Row
<1>6. \A g \in Fingerprints : rows'[g] = IF g = f THEN new ELSE rows[g]
  BY <1>1, <1>4
<1>7. 0 \in 0..ResolveAfter /\ calm' = [calm EXCEPT !.scans = 0]
  BY DEF Decide
<1>8. calm' \in [faults : SUBSET Fingerprints, scans : 0..ResolveAfter] /\ calm'.scans = 0
  BY <1>1, <1>7
<1>9. events' \in Nat
  BY DEF Decide, Typed
<1>10. UNCHANGED <<now, served, scan, origins, patience>>
  BY DEF Decide
<1> QED BY <1>3, <1>5, <1>6, <1>8, <1>9, <1>10

(* Every step keeps the types.                                              *)
LEMMA StepKeepsTypes == Typed /\ [Next]_vars => Typed'
<1> SUFFICES ASSUME Typed, [Next]_vars
             PROVE  Typed'
  OBVIOUS
<1> USE DEF history
<1>0. /\ scan \in [todo : SUBSET Ports, report : Reports, saw : [Ports -> Views]]
      /\ rows \in [Fingerprints -> Row]
  BY DEF Typed
<1>1. CASE TimePasses
  BY <1>1 DEF TimePasses, Typed
<1>2. ASSUME NEW p \in Ports, NEW d \in Deployments, Replace(p, d)
      PROVE  Typed'
  BY <1>2 DEF Replace, Typed
<1>3. ASSUME NEW f \in Fingerprints, NEW status \in {"open", "acknowledged", "suppressed"},
             Decide(f, status)
      PROVE  Typed'
  <2>1. /\ rows' \in [Fingerprints -> Row]
        /\ calm' \in [faults : SUBSET Fingerprints, scans : 0..ResolveAfter]
        /\ events' \in Nat
        /\ UNCHANGED <<now, served, scan, origins, patience>>
    BY <1>3, DecidedRow
  <2> QED BY <2>1 DEF Typed
<1>4. ASSUME NEW p \in Ports, DialSucceeds(p)
      PROVE  Typed'
  <2>1. scan' \in [todo : SUBSET Ports, report : Reports, saw : [Ports -> Views]]
    BY <1>4, DialEffect
  <2> QED BY <1>4, <2>1 DEF DialSucceeds, Typed
<1>5. ASSUME NEW p \in Ports, DialFails(p)
      PROVE  Typed'
  <2>1. scan' \in [todo : SUBSET Ports, report : Reports, saw : [Ports -> Views]]
    BY <1>0, <1>5 DEF DialFails
  <2> QED BY <1>5, <2>1 DEF DialFails, Typed
<1>6. CASE ScanFails
  BY <1>6, NoScanTyped DEF ScanFails, Typed
<1>7. CASE Reconcile
  <2>1. rows' \in [Fingerprints -> Row]
    BY <1>7, TableAfterScan DEF Reconcile
  <2>2. origins' \in [Fingerprints -> SUBSET (Ports \X Deployments)] /\ scan' = NoScan
    BY <1>7, OriginsAfterScan DEF Reconcile
  <2>3. \A p \in Ports : Patience(p) \in 0..ResolveAfter
    BY DEF Patience, Typed
  <2>4. patience' \in [Ports -> 0..ResolveAfter]
    BY <1>7, <2>3 DEF Reconcile
  <2>5. DOMAIN scan.report \in SUBSET Fingerprints
    BY <1>0 DEF Reports
  <2>6. (IF DOMAIN scan.report # calm.faults THEN 1
         ELSE IF calm.scans < ResolveAfter THEN calm.scans + 1 ELSE ResolveAfter) \in 0..ResolveAfter
    BY DEF Typed
  <2>7. calm' \in [faults : SUBSET Fingerprints, scans : 0..ResolveAfter]
    BY <1>7, <2>5, <2>6 DEF Reconcile
  <2> QED BY <1>7, <2>1, <2>2, <2>4, <2>7, NoScanTyped DEF Reconcile, Typed
<1>9. CASE ReconcileFails
  <2>1. PICK written :
            /\ rows' = Reconciled(written) /\ origins' = OriginsOf(written)
            /\ patience' = [p \in Ports |-> IF written \subseteq DOMAIN scan.report THEN patience[p] ELSE Patience(p)]
    BY <1>9 DEF ReconcileFails
  <2>2. rows' \in [Fingerprints -> Row] /\ origins' \in [Fingerprints -> SUBSET (Ports \X Deployments)]
    BY <2>1, TableAfterScan, OriginsAfterScan
  <2>3. \A p \in Ports : Patience(p) \in 0..ResolveAfter /\ patience[p] \in 0..ResolveAfter
    BY DEF Patience, Typed
  <2>4. patience' \in [Ports -> 0..ResolveAfter]
    BY <2>1, <2>3
  <2>5. 0 \in 0..ResolveAfter
    OBVIOUS
  <2>6. calm' \in [faults : SUBSET Fingerprints, scans : 0..ResolveAfter]
    BY <1>9, <2>5 DEF ReconcileFails, Typed
  <2>7. scan' = NoScan /\ events' \in Nat /\ UNCHANGED <<now, served>>
    BY <1>9 DEF ReconcileFails, Typed
  <2> QED BY <2>2, <2>4, <2>6, <2>7, NoScanTyped DEF Typed
<1>8. CASE UNCHANGED vars
  BY <1>8 DEF vars, Typed
<1> QED BY <1>1, <1>2, <1>3, <1>4, <1>5, <1>6, <1>7, <1>8, <1>9 DEF Next

(* Types hold from the start.                                               *)
LEMMA TypedHolds == Spec => []Typed
<1>1. Init => Typed
  <2> SUFFICES ASSUME Init
               PROVE  Typed
    OBVIOUS
  <2>1. scan \in [todo : SUBSET Ports, report : Reports, saw : [Ports -> Views]]
    BY NoScanTyped DEF Init
  <2>2. /\ now \in Moments /\ served \in [Ports -> Deployments]
        /\ events \in Nat
    BY DEF Init
  <2>3. rows \in [Fingerprints -> Row] /\ origins \in [Fingerprints -> SUBSET (Ports \X Deployments)]
    BY DEF Init, Row
  <2>4. patience \in [Ports -> 0..ResolveAfter] /\ calm \in [faults : SUBSET Fingerprints, scans : 0..ResolveAfter]
    BY DEF Init
  <2> QED BY <2>1, <2>2, <2>3, <2>4 DEF Typed
<1>2. Typed /\ [Next]_vars => Typed'
  BY StepKeepsTypes
<1> QED BY <1>1, <1>2, PTL DEF Spec

(* Every variable has its type; a row reads "none" exactly while there is   *)
(* none (Reconcile never deletes, a decision needs a row).                  *)
THEOREM TypeCorrect == Spec => []TypeOK
<1>1. Typed => TypeOK
  <2> SUFFICES ASSUME Typed
               PROVE  TypeOK
    OBVIOUS
  <2>1. DOMAIN scan.report \subseteq Fingerprints /\ \A f \in DOMAIN scan.report : scan.report[f] \in Severities
    BY DEF Typed, Reports
  <2>2. ASSUME NEW f \in Fingerprints
        PROVE  /\ rows[f].status \in {"none", "open", "acknowledged", "suppressed", "resolved"}
               /\ rows[f].severity \in Severities \cup {"none"}
               /\ (rows[f].status = "none") = (rows[f] = NoRow)
    <3>1. CASE rows[f] = NoRow
      BY <3>1 DEF NoRow
    <3>2. CASE rows[f] \in Known
      <4>1. rows[f].status # "none" /\ rows[f] # NoRow
        BY <3>2 DEF Known, NoRow
      <4> QED BY <3>2, <4>1 DEF Known
    <3>3. rows[f] \in Row
      BY DEF Typed
    <3> QED BY <3>1, <3>2, <3>3 DEF Row
  <2>3. scan.todo \subseteq Ports /\ now \in Moments /\ served \in [Ports -> Deployments]
            /\ calm.scans \in 0..ResolveAfter
    BY DEF Typed
  <2> QED BY <2>1, <2>2, <2>3 DEF TypeOK
<1> QED BY <1>1, TypedHolds, PTL

-----------------------------------------------------------------------------
(* The scan in progress.                                                    *)

(* A port dialled for the first time is added to the sources of its faults. *)
LEMMA DialSources ==
    ASSUME Typed, ScanSound, NEW p \in Ports, DialSucceeds(p)
    PROVE  /\ ~scan.saw[p].looked
           /\ View(p).looked /\ View(p).faults = Faults(p) /\ View(p).deployment = served[p]
           /\ scan'.saw[p] = View(p) /\ \A q \in Ports \ {p} : scan'.saw[q] = scan.saw[q]
           /\ \A f \in Fingerprints :
                 Sources(scan'.saw, f) = IF f \in Faults(p) THEN Sources(scan.saw, f) \cup {p}
                                         ELSE Sources(scan.saw, f)
<1>1. ~scan.saw[p].looked
  BY DEF DialSucceeds, ScanSound
<1>2. View(p).looked /\ View(p).faults = Faults(p) /\ View(p).deployment = served[p]
  BY DEF View
<1>3. scan'.saw = [scan.saw EXCEPT ![p] = View(p)] /\ scan.saw \in [Ports -> Views]
  BY DialEffect DEF Typed
<1>4. scan'.saw[p] = View(p) /\ \A q \in Ports \ {p} : scan'.saw[q] = scan.saw[q]
  BY <1>3
<1>5. \A f \in Fingerprints :
          Sources(scan'.saw, f) = IF f \in Faults(p) THEN Sources(scan.saw, f) \cup {p}
                                  ELSE Sources(scan.saw, f)
  BY <1>1, <1>2, <1>4 DEF Sources
<1> QED BY <1>1, <1>2, <1>4, <1>5

(* A scan that has not begun has no sources.                                *)
LEMMA NoSources == \A f : Sources(NoScan.saw, f) = {}
BY NoScanTyped DEF Sources, Unseen

(* Report and views stay in step.                                           *)
LEMMA StepKeepsScanSound == Typed /\ ScanSound /\ [Next]_vars => ScanSound'
<1> SUFFICES ASSUME Typed, ScanSound, [Next]_vars
             PROVE  ScanSound'
  OBVIOUS
<1> USE DEF history
<1>1. ASSUME scan' = scan
      PROVE  ScanSound'
  BY <1>1 DEF ScanSound, Sources
<1>2. ASSUME scan' = NoScan
      PROVE  ScanSound'
  <2>1. \A f \in Fingerprints : f \notin DOMAIN scan'.report /\ Sources(scan'.saw, f) = {}
    BY <1>2, NoScanTyped, NoSources
  <2>2. \A p \in Ports : ~scan'.saw[p].looked
    BY <1>2, NoScanTyped DEF Unseen
  <2>3. scan'.todo = Ports
    BY <1>2, NoScanTyped
  <2> QED BY <2>1, <2>2, <2>3 DEF ScanSound, Sources
<1>3. ASSUME NEW p \in Ports, DialSucceeds(p)
      PROVE  ScanSound'
  <2>1. served[p] \in Deployments /\ now \in Moments /\ scan.report \in Reports
    BY DEF Typed
  <2>2. /\ scan'.todo = scan.todo \ {p}
        /\ scan'.report = Appended(scan.report, TLSFindings[served[p]][now])
    BY <1>3, DialEffect
  <2>3. DOMAIN scan'.report = DOMAIN scan.report \cup Faults(p)
    <3> DEFINE later == TLSFindings[served[p]][now]
    <3>1. later \in Reports
      BY <2>1, FindingsAreAReport
    <3> HIDE DEF later
    <3>2. DOMAIN Appended(scan.report, later) = DOMAIN scan.report \cup DOMAIN later
      BY <2>1, <3>1, AppendedReport
    <3> QED BY <2>2, <3>2 DEF Faults, later
  <2>4. \A f \in Fingerprints : f \in DOMAIN scan'.report <=> Sources(scan'.saw, f) # {}
    BY <1>3, <2>3, DialSources DEF ScanSound
  <2>5. scan.todo \subseteq Ports
    BY DEF Typed
  <2>6. \A q \in scan'.todo : ~scan'.saw[q].looked
    BY <1>3, <2>2, <2>5, DialSources DEF ScanSound
  <2>7. View(p).near => \E f \in ExpiryFindings : f \in View(p).faults
    <3>1. View(p).near = (served[p].notAfter - now < 31 * 2)
      BY DEF View
    <3>2. View(p).faults = DOMAIN TLSFindings[served[p]][now]
      BY DEF View, Faults
    <3> QED BY <2>1, <3>1, <3>2, NearEndIsFound
  <2>8. ASSUME NEW q \in Ports, scan'.saw[q].looked, scan'.saw[q].near
        PROVE  \E f \in ExpiryFindings : f \in scan'.saw[q].faults
    <3>1. CASE q = p
      BY <1>3, <2>7, <2>8, <3>1, DialSources
    <3>2. CASE q # p
      <4>1. scan'.saw[q] = scan.saw[q]
        BY <1>3, <3>2, DialSources
      <4> QED BY <2>8, <4>1 DEF ScanSound
    <3> QED BY <3>1, <3>2
  <2> QED BY <2>4, <2>6, <2>8 DEF ScanSound, Sources
<1>4. ASSUME NEW p \in Ports, DialFails(p)
      PROVE  ScanSound'
  <2>1. scan \in [todo : SUBSET Ports, report : Reports, saw : [Ports -> Views]]
    BY DEF Typed
  <2>2. scan'.todo \subseteq scan.todo /\ scan'.report = scan.report /\ scan'.saw = scan.saw
    BY <1>4, <2>1 DEF DialFails
  <2> QED BY <2>2 DEF ScanSound, Sources
<1> QED BY <1>1, <1>2, <1>3, <1>4
        DEF Next, TimePasses, Replace, Decide, ScanFails, Reconcile, ReconcileFails, vars

-----------------------------------------------------------------------------
(* The table.                                                               *)

(* A scan either sees the certificate near its end and shows a finding of   *)
(* it without absences, or uses up one of the misses that are left.        *)
LEMMA StepKeepsWatched == Typed /\ ScanSound /\ Watched /\ [Next]_vars => Watched'
<1> SUFFICES ASSUME Typed, ScanSound, Watched, [Next]_vars
             PROVE  Watched'
  OBVIOUS
<1> USE DEF history
<1>1. ASSUME UNCHANGED <<rows, patience>>
      PROVE  Watched'
  BY <1>1 DEF Watched
<1>2. ASSUME NEW f \in Fingerprints, NEW status \in {"open", "acknowledged", "suppressed"},
             Decide(f, status)
      PROVE  Watched'
  BY <1>2, DecidedRow DEF Watched
<1>3. ASSUME NEW written, DOMAIN scan.report \subseteq written, rows' = Reconciled(written),
             \A p \in Ports : patience'[p] = Patience(p)
      PROVE  Watched'
  <2> SUFFICES ASSUME NEW p \in Ports, patience'[p] > 0
               PROVE  \E f \in ExpiryFindings : Shown(rows'[f]) /\ rows'[f].streak + patience'[p] <= ResolveAfter
    BY DEF Watched
  <2>0. /\ rows \in [Fingerprints -> Row] /\ scan.report \in Reports
        /\ patience[p] \in 0..ResolveAfter
    BY DEF Typed
  <2>1. rows' = Reconciled(written) /\ patience'[p] = Patience(p)
    BY <1>3
  <2>2. ASSUME NEW f \in Fingerprints, f \in DOMAIN scan.report
        PROVE  Shown(rows'[f]) /\ rows'[f].streak = 0
    <3>1. rows'[f] = Sighted(rows[f], scan.report[f]) /\ scan.report[f] \in Severities /\ rows[f] \in Row
      BY <1>3, <2>0, <2>1, <2>2, TableAfterScan
    <3> QED BY <3>1, SightedRow
  <2>3. CASE scan.saw[p].looked
    <3>1. scan.saw[p].near /\ patience'[p] = ResolveAfter
      BY <2>1, <2>3 DEF Patience
    <3>2. PICK f \in ExpiryFindings : f \in scan.saw[p].faults
      BY <2>3, <3>1 DEF ScanSound
    <3>3. f \in Fingerprints /\ p \in Sources(scan.saw, f)
      BY <2>3, <3>2 DEF Sources
    <3>4. f \in DOMAIN scan.report
      BY <3>3 DEF ScanSound
    <3>5. Shown(rows'[f]) /\ rows'[f].streak = 0
      BY <2>2, <3>3, <3>4
    <3> QED BY <3>1, <3>5
  <2>4. CASE ~scan.saw[p].looked
    <3>1. patience[p] > 0 /\ patience'[p] = patience[p] - 1
      BY <2>0, <2>1, <2>4 DEF Patience
    <3>2. PICK f \in ExpiryFindings : Shown(rows[f]) /\ rows[f].streak + patience[p] <= ResolveAfter
      BY <3>1 DEF Watched
    <3>3. f \in Fingerprints /\ rows[f] \in Row
      BY <2>0
    <3>4. rows[f] \in Known /\ rows[f].streak \in Nat
      BY <3>2, <3>3 DEF Row, NoRow, Shown, Known
    <3>5. CASE f \in DOMAIN scan.report
      <4>1. Shown(rows'[f]) /\ rows'[f].streak = 0
        BY <2>2, <3>3, <3>5
      <4> QED BY <2>0, <3>1, <4>1
    <3>7. CASE f \notin written
      <4>1. rows'[f] = rows[f]
        BY <2>1, <3>3, <3>7, TableAfterScan
      <4> QED BY <2>0, <3>1, <3>2, <3>4, <4>1
    <3>6. CASE f \in written /\ f \notin DOMAIN scan.report
      <4>1. rows'[f] = Missed(rows[f])
        BY <2>1, <3>3, <3>6, TableAfterScan
      <4>2. CASE ~Attended(rows[f])
        <5>1. rows'[f] = rows[f]
          BY <3>3, <4>1, <4>2, MissedRow
        <5> QED BY <2>0, <3>1, <3>2, <3>4, <5>1
      <4>3. CASE Attended(rows[f])
        <5>1. rows[f].streak + 1 < ResolveAfter
          BY <2>0, <2>1, <3>1, <3>2, <3>4
        <5>2. rows'[f].streak = rows[f].streak + 1 /\ rows'[f].status = rows[f].status
          BY <3>3, <4>1, <4>3, <5>1, MissedRow
        <5>3. Shown(rows'[f])
          BY <3>2, <5>2 DEF Shown
        <5> QED BY <2>0, <3>1, <3>2, <3>4, <5>2, <5>3
      <4> QED BY <4>2, <4>3
    <3> QED BY <3>5, <3>6, <3>7
  <2> QED BY <2>3, <2>4
<1>4. CASE Reconcile
  <2>1. DOMAIN scan.report \subseteq Fingerprints
    BY TableAfterScan
  <2>2. rows' = Reconciled(Fingerprints) /\ \A p \in Ports : patience'[p] = Patience(p)
    BY <1>4 DEF Reconcile
  <2> QED BY <1>3, <2>1, <2>2
<1>5. CASE ReconcileFails
  <2>1. PICK written :
            /\ written \subseteq DOMAIN scan.report \/ DOMAIN scan.report \subseteq written
            /\ rows' = Reconciled(written)
            /\ patience' = [p \in Ports |-> IF written \subseteq DOMAIN scan.report THEN patience[p] ELSE Patience(p)]
    BY <1>5 DEF ReconcileFails
  <2>2. CASE ~(written \subseteq DOMAIN scan.report)
    <3>1. \A p \in Ports : patience'[p] = Patience(p)
      BY <2>1, <2>2
    <3> QED BY <1>3, <2>1, <2>2, <3>1
  <2>3. CASE written \subseteq DOMAIN scan.report
    <3> SUFFICES ASSUME NEW p \in Ports, patience'[p] > 0
                 PROVE  \E f \in ExpiryFindings : Shown(rows'[f]) /\ rows'[f].streak + patience'[p] <= ResolveAfter
      BY DEF Watched
    <3>1. patience'[p] = patience[p] /\ patience[p] \in 0..ResolveAfter /\ rows \in [Fingerprints -> Row]
      BY <2>1, <2>3 DEF Typed
    <3>2. PICK f \in ExpiryFindings : Shown(rows[f]) /\ rows[f].streak + patience[p] <= ResolveAfter
      BY <3>1 DEF Watched
    <3>3. f \in Fingerprints
      OBVIOUS
    <3>4. CASE f \in written
      <4>1. rows'[f] = Sighted(rows[f], scan.report[f]) /\ scan.report[f] \in Severities /\ rows[f] \in Row
        BY <2>1, <2>3, <3>1, <3>3, <3>4, TableAfterScan
      <4>2. Shown(rows'[f]) /\ rows'[f].streak = 0
        BY <4>1, SightedRow
      <4> QED BY <3>1, <4>2
    <3>5. CASE f \notin written
      <4>1. rows'[f] = rows[f]
        BY <2>1, <3>3, <3>5, TableAfterScan
      <4> QED BY <3>1, <3>2, <4>1
    <3> QED BY <3>4, <3>5
  <2> QED BY <2>2, <2>3
<1> QED BY <1>1, <1>2, <1>4, <1>5
        DEF Next, TimePasses, Replace, DialSucceeds, DialFails, ScanFails, vars

(* Once a scan has the faults of the one before, what neither has comes one *)
(* absence nearer to its end, and what both have stays shown.              *)
LEMMA StepKeepsSettling == Typed /\ Settling /\ [Next]_vars => Settling'
<1> SUFFICES ASSUME Typed, Settling, [Next]_vars
             PROVE  Settling'
  OBVIOUS
<1> USE DEF history
<1>1. ASSUME UNCHANGED <<rows, calm>>
      PROVE  Settling'
  BY <1>1 DEF Settling
<1>2. ASSUME NEW f \in Fingerprints, NEW status \in {"open", "acknowledged", "suppressed"},
             Decide(f, status)
      PROVE  Settling'
  BY <1>2, DecidedRow DEF Settling
<1>3. CASE Reconcile
  <2> SUFFICES ASSUME NEW f \in Fingerprints
               PROVE  IF f \in calm'.faults THEN Shown(rows'[f])
                      ELSE Attended(rows'[f]) => calm'.scans <= rows'[f].streak /\ rows'[f].streak < ResolveAfter
    BY DEF Settling
  <2>0. /\ rows \in [Fingerprints -> Row] /\ scan.report \in Reports /\ rows[f] \in Row
        /\ calm.scans \in 0..ResolveAfter
    BY DEF Typed
  <2>1. /\ rows' = Reconciled(Fingerprints) /\ calm'.faults = DOMAIN scan.report
        /\ calm'.scans = IF DOMAIN scan.report # calm.faults THEN 1
                         ELSE IF calm.scans < ResolveAfter THEN calm.scans + 1 ELSE ResolveAfter
    BY <1>3 DEF Reconcile
  <2>2. CASE f \in DOMAIN scan.report
    <3>1. rows'[f] = Sighted(rows[f], scan.report[f]) /\ scan.report[f] \in Severities
      BY <2>0, <2>1, <2>2, TableAfterScan
    <3> QED BY <2>0, <2>1, <2>2, <3>1, SightedRow
  <2>3. CASE f \notin DOMAIN scan.report
    <3>1. rows'[f] = Missed(rows[f])
      BY <2>0, <2>1, <2>3, TableAfterScan
    <3>2. ASSUME Attended(rows'[f])
          PROVE  calm'.scans <= rows'[f].streak /\ rows'[f].streak < ResolveAfter
      <4>1. Attended(rows[f])
        <5>1. CASE ~Attended(rows[f])
          BY <2>0, <3>1, <3>2, <5>1, MissedRow
        <5> QED BY <5>1
      <4>2. rows[f].streak \in Nat
        BY <2>0, <4>1 DEF Row, NoRow, Attended, Known
      <4>3. rows'[f].streak = rows[f].streak + 1 /\ rows[f].streak + 1 < ResolveAfter
        <5>1. CASE rows[f].streak + 1 >= ResolveAfter
          <6>1. rows'[f].status = "resolved"
            BY <2>0, <3>1, <4>1, <5>1, MissedRow
          <6> QED BY <3>2, <6>1 DEF Attended
        <5> QED BY <2>0, <3>1, <4>1, <4>2, <5>1, MissedRow
      <4>4. CASE DOMAIN scan.report # calm.faults \/ calm.scans = 0
        <5>1. calm'.scans = 1
          BY <2>1, <4>4
        <5> QED BY <4>2, <4>3, <5>1
      <4>5. CASE DOMAIN scan.report = calm.faults /\ calm.scans > 0
        <5>1. calm.scans <= rows[f].streak /\ rows[f].streak < ResolveAfter
          BY <2>3, <4>1, <4>5 DEF Settling
        <5>2. calm'.scans = calm.scans + 1
          BY <2>0, <2>1, <4>2, <4>5, <5>1
        <5> QED BY <2>0, <4>2, <4>3, <5>1, <5>2
      <4> QED BY <2>0, <4>4, <4>5
    <3> QED BY <2>1, <2>3, <3>2
  <2> QED BY <2>2, <2>3
<1>4. CASE ReconcileFails
  <2>1. calm'.scans = 0
    BY <1>4 DEF ReconcileFails, Typed
  <2> QED BY <2>1 DEF Settling
<1> QED BY <1>1, <1>2, <1>3, <1>4
        DEF Next, TimePasses, Replace, DialSucceeds, DialFails, ScanFails, vars

(* From 31 days before its end on, a certificate that a scan has seen has a *)
(* finding on the dashboard, under every order of dials, failed dials and   *)
(* scans and decisions, until it is replaced or the port has been missed    *)
(* by as many scans in a row as close a finding.                           *)
THEOREM AlwaysWatchedToTheEnd == Spec => []WatchedToTheEnd
<1>1. Init => ScanSound /\ Watched
  <2> SUFFICES ASSUME Init
               PROVE  ScanSound /\ Watched
    OBVIOUS
  <2>1. scan = NoScan
    BY DEF Init
  <2>2. ScanSound
    BY <2>1, NoScanTyped, NoSources DEF ScanSound, Unseen
  <2>3. Watched
    BY DEF Init, Watched
  <2> QED BY <2>2, <2>3
<1>2. Typed /\ (ScanSound /\ Watched) /\ [Next]_vars => (ScanSound /\ Watched)'
  BY StepKeepsScanSound, StepKeepsWatched
<1>3. Watched => WatchedToTheEnd
  BY DEF Watched, WatchedToTheEnd
<1> QED BY <1>1, <1>2, <1>3, TypedHolds, PTL DEF Spec

(* When as many scans in a row as close a finding have found the same       *)
(* faults, the table shows exactly these, whatever it had before: nothing   *)
(* stale is left open and nothing found is missing.                        *)
THEOREM AlwaysAgreesWhenCalm == Spec => []AgreesWhenCalm
<1>1. Init => Settling
  BY DEF Init, Settling
<1>2. Typed /\ Settling /\ [Next]_vars => Settling'
  BY StepKeepsSettling
<1>3. Typed /\ Settling => AgreesWhenCalm
  <2> SUFFICES ASSUME Typed, Settling, calm.scans = ResolveAfter, NEW f \in Fingerprints
               PROVE  IF f \in calm.faults THEN Shown(rows[f]) ELSE ~Attended(rows[f])
    BY DEF AgreesWhenCalm
  <2>1. calm.scans > 0
    OBVIOUS
  <2>2. CASE f \in calm.faults
    BY <2>1, <2>2 DEF Settling
  <2>3. CASE f \notin calm.faults
    <3>1. Attended(rows[f]) => ResolveAfter <= rows[f].streak /\ rows[f].streak < ResolveAfter
      BY <2>1, <2>3 DEF Settling
    <3>2. Attended(rows[f]) => rows[f].streak \in Nat
      BY DEF Typed, Row, NoRow, Attended, Known
    <3> QED BY <2>3, <3>1, <3>2
  <2> QED BY <2>2, <2>3
<1> QED BY <1>1, <1>2, <1>3, TypedHolds, PTL DEF Spec

-----------------------------------------------------------------------------
(* Severities.                                                              *)

(* Time passing makes what was graded before be graded before.              *)
LEMMA GradedStays ==
    ASSUME Typed, NEW severity, NEW d, NEW f, GradedBefore(severity, d, f),
           now' \in Moments, now' >= now
    PROVE  \E t \in Moments : /\ t <= now' /\ f \in DOMAIN TLSFindings[d][t]
                              /\ severity = TLSFindings[d][t][f]
<1>1. PICK t \in Moments : t <= now /\ f \in DOMAIN TLSFindings[d][t] /\ severity = TLSFindings[d][t][f]
  BY DEF GradedBefore
<1>2. t \in Nat /\ now \in Nat /\ now' \in Nat
  BY DEF Typed
<1> QED BY <1>1, <1>2

(* A row that is written for a sighting has the severity of the report, any *)
(* other the one it had.                                                   *)
LEMMA WrittenSeverity ==
    ASSUME Typed, NEW written, NEW f \in Fingerprints
    PROVE  Reconciled(written)[f].severity =
               IF f \in written /\ f \in DOMAIN scan.report THEN scan.report[f] ELSE rows[f].severity
<1>0. rows[f] \in Row
  BY DEF Typed
<1>1. CASE f \in written /\ f \in DOMAIN scan.report
  <2>1. Reconciled(written)[f] = Sighted(rows[f], scan.report[f]) /\ scan.report[f] \in Severities
    BY <1>1, TableAfterScan
  <2> QED BY <1>0, <1>1, <2>1, SightedRow
<1>2. CASE f \in written /\ f \notin DOMAIN scan.report
  <2>1. Reconciled(written)[f] = Missed(rows[f])
    BY <1>2, TableAfterScan
  <2> QED BY <1>0, <1>2, <2>1, MissedRow
<1>3. CASE f \notin written
  BY <1>3, TableAfterScan
<1> QED BY <1>1, <1>2, <1>3

(* A report gives a finding the severity of its one source, and the table   *)
(* takes it from there; as time only passes, it is not below the one of     *)
(* the scan before, if the certificate is the same.                        *)
LEMMA StepKeepsGraded == Typed /\ ScanSound /\ Graded /\ [Next]_vars => Graded'
<1> SUFFICES ASSUME Typed, ScanSound, Graded, [Next]_vars
             PROVE  Graded'
  OBVIOUS
<1> USE DEF history
<1>1. ASSUME UNCHANGED <<now, scan, origins>>, \A f \in Fingerprints : rows'[f].severity = rows[f].severity
      PROVE  Graded'
  BY <1>1 DEF Graded, GradedBefore, Sources
<1>2. CASE TimePasses
  <2>1. now' \in Moments /\ now' >= now /\ UNCHANGED <<scan, origins, rows>>
    BY <1>2 DEF TimePasses, Typed
  <2>2. ASSUME NEW severity, NEW d, NEW f, GradedBefore(severity, d, f)
        PROVE  \E t \in Moments : /\ t <= now' /\ f \in DOMAIN TLSFindings[d][t]
                                  /\ severity = TLSFindings[d][t][f]
    BY <2>1, <2>2, GradedStays
  <2> SUFFICES ASSUME NEW f \in Fingerprints, NEW p \in Ports
               PROVE  /\ \A d \in Deployments : origins[f] = {<<p, d>>} =>
                            \E t \in Moments : /\ t <= now' /\ f \in DOMAIN TLSFindings[d][t]
                                               /\ rows[f].severity = TLSFindings[d][t][f]
                      /\ Sources(scan.saw, f) = {p} =>
                            \E t \in Moments : /\ t <= now' /\ f \in DOMAIN TLSFindings[scan.saw[p].deployment][t]
                                               /\ scan.report[f] = TLSFindings[scan.saw[p].deployment][t][f]
    BY <2>1 DEF Graded, GradedBefore, Sources
  <2> QED BY <2>2 DEF Graded
<1>3. ASSUME UNCHANGED <<now, rows, origins>>, \A f : Sources(scan'.saw, f) = {}
      PROVE  Graded'
  BY <1>3 DEF Graded, GradedBefore, Sources
<1>4. ASSUME NEW p \in Ports, DialSucceeds(p)
      PROVE  Graded'
  <2> DEFINE d == served[p]
  <2>0. /\ d \in Deployments /\ now \in Moments /\ now \in Nat
        /\ scan.report \in Reports /\ TLSFindings[d][now] \in Reports
        /\ UNCHANGED <<now, rows, origins>>
    BY <1>4, FindingsAreAReport DEF Typed, DialSucceeds
  <2>1. scan'.report = Appended(scan.report, TLSFindings[d][now])
    BY <1>4, DialEffect
  <2> DEFINE later == TLSFindings[d][now]
  <2>2. Faults(p) = DOMAIN later /\ later \in Reports /\ scan'.report = Appended(scan.report, later)
    BY <2>0, <2>1 DEF Faults
  <2> HIDE DEF later
  <2>3. /\ \A f \in DOMAIN later : scan'.report[f] = later[f]
        /\ \A f \in DOMAIN scan.report \ DOMAIN later : scan'.report[f] = scan.report[f]
    <3>1. scan.report \in Reports /\ later \in Reports
      BY <2>0, <2>2
    <3>2. /\ \A f \in DOMAIN later : Appended(scan.report, later)[f] = later[f]
          /\ \A f \in DOMAIN scan.report \ DOMAIN later :
                Appended(scan.report, later)[f] = scan.report[f]
      BY <3>1, AppendedReport
    <3> QED BY <2>2, <3>2
  <2>4. ASSUME NEW f \in Fingerprints, NEW q \in Ports, Sources(scan'.saw, f) = {q}
        PROVE  /\ GradedBefore(scan'.report[f], scan'.saw[q].deployment, f)
               /\ origins[f] = {<<q, scan'.saw[q].deployment>>}
                  => Rank(scan'.report[f]) >= Rank(rows[f].severity)
    <3>1. CASE f \in Faults(p)
      <4>1. q = p
        BY <1>4, <2>4, <3>1, DialSources
      <4>2. scan'.saw[q].deployment = d /\ scan'.report[f] = TLSFindings[d][now][f]
        BY <1>4, <2>2, <2>3, <3>1, <4>1, DialSources DEF later
      <4>3. GradedBefore(scan'.report[f], d, f)
        BY <2>0, <2>2, <3>1, <4>2 DEF GradedBefore, later
      <4>4. ASSUME origins[f] = {<<q, d>>}
            PROVE  Rank(scan'.report[f]) >= Rank(rows[f].severity)
        <5>1. PICK t \in Moments : /\ t <= now /\ f \in DOMAIN TLSFindings[d][t]
                                   /\ rows[f].severity = TLSFindings[d][t][f]
          BY <2>0, <4>4 DEF Graded, GradedBefore
        <5>2. Rank(TLSFindings[d][now][f]) >= Rank(TLSFindings[d][t][f])
          BY <2>0, <2>2, <3>1, <5>1, FindingRises DEF later
        <5> QED BY <4>2, <5>1, <5>2
      <4> QED BY <4>2, <4>3, <4>4
    <3>2. CASE f \notin Faults(p)
      <4>1. Sources(scan.saw, f) = {q}
        BY <1>4, <2>4, <3>2, DialSources
      <4>2. q # p
        BY <1>4, <4>1, DialSources DEF Sources
      <4>3. f \in DOMAIN scan.report
        BY <4>1 DEF ScanSound
      <4>4. scan'.report[f] = scan.report[f] /\ scan'.saw[q] = scan.saw[q]
        BY <1>4, <2>2, <2>3, <3>2, <4>2, <4>3, DialSources
      <4> QED BY <4>1, <4>4 DEF Graded
    <3> QED BY <3>1, <3>2
  <2>5. ASSUME NEW f \in Fingerprints, NEW q \in Ports, NEW e \in Deployments, origins[f] = {<<q, e>>}
        PROVE  GradedBefore(rows[f].severity, e, f)
    BY <2>5 DEF Graded
  <2> HIDE DEF d
  <2> QED BY <2>0, <2>4, <2>5 DEF Graded, GradedBefore, Sources
<1>5. ASSUME NEW p \in Ports, DialFails(p)
      PROVE  Graded'
  <2>1. scan \in [todo : SUBSET Ports, report : Reports, saw : [Ports -> Views]]
    BY DEF Typed
  <2>2. scan'.report = scan.report /\ scan'.saw = scan.saw /\ UNCHANGED <<now, rows, origins>>
    BY <1>5, <2>1 DEF DialFails
  <2> QED BY <2>2 DEF Graded, GradedBefore, Sources
<1>6. ASSUME NEW written, rows' = Reconciled(written), origins' = OriginsOf(written), scan' = NoScan, now' = now
      PROVE  Graded'
  <2>1. ASSUME NEW f \in Fingerprints, NEW p \in Ports, NEW d \in Deployments, origins'[f] = {<<p, d>>}
        PROVE  GradedBefore(rows'[f].severity, d, f)
    <3>1. CASE f \in written /\ f \in DOMAIN scan.report
      <4>1. Sources(scan.saw, f) = {p} /\ scan.saw[p].deployment = d
        BY <1>6, <2>1, <3>1, OriginsAfterScan
      <4>2. rows'[f].severity = scan.report[f]
        BY <1>6, <3>1, WrittenSeverity
      <4> QED BY <4>1, <4>2 DEF Graded
    <3>2. CASE ~(f \in written /\ f \in DOMAIN scan.report)
      <4>1. origins[f] = {<<p, d>>}
        BY <1>6, <2>1, <3>2, OriginsAfterScan
      <4>2. rows'[f].severity = rows[f].severity
        BY <1>6, <3>2, WrittenSeverity
      <4> QED BY <4>1, <4>2 DEF Graded
    <3> QED BY <3>1, <3>2
  <2>2. \A f : Sources(scan'.saw, f) = {}
    BY <1>6, NoSources
  <2> QED BY <1>6, <2>1, <2>2 DEF Graded, GradedBefore, Sources
<1>10. CASE Reconcile \/ ReconcileFails
  BY <1>6, <1>10 DEF Reconcile, ReconcileFails
<1>7. ASSUME NEW f \in Fingerprints, NEW status \in {"open", "acknowledged", "suppressed"},
             Decide(f, status)
      PROVE  Graded'
  <2>1. /\ UNCHANGED <<now, scan, origins>>
        /\ \A g \in Fingerprints : rows'[g].severity = rows[g].severity
    BY <1>7, DecidedRow
  <2> QED BY <1>1, <2>1
<1>8. CASE ScanFails
  <2>1. \A f : Sources(scan'.saw, f) = {}
    BY <1>8, NoSources DEF ScanFails
  <2> QED BY <1>3, <1>8, <2>1 DEF ScanFails
<1>9. CASE UNCHANGED vars \/ \E p \in Ports, d \in Deployments : Replace(p, d)
  BY <1>1, <1>9 DEF vars, Replace
<1> QED BY <1>2, <1>4, <1>5, <1>7, <1>8, <1>9, <1>10 DEF Next

(* A finding that one port has, with one certificate, only grows more       *)
(* severe on record: through misses, closing and reopening, failed dials,   *)
(* scans that fail before or in the middle of Reconcile, decisions, and     *)
(* whatever the other ports do.                                            *)
THEOREM SeverityAlwaysOnlyRises == Spec => SeverityOnlyRises
<1> DEFINE I == ScanSound /\ Graded
<1>1. Init => I
  <2> SUFFICES ASSUME Init
               PROVE  I
    OBVIOUS
  <2>1. scan = NoScan /\ (\A f : Sources(scan.saw, f) = {}) /\ \A f \in Fingerprints : origins[f] = {}
    BY NoSources DEF Init
  <2>2. ScanSound
    BY <2>1, NoScanTyped DEF ScanSound, Unseen
  <2>3. Graded
    BY <2>1 DEF Graded
  <2> QED BY <2>2, <2>3
<1>2. Typed /\ I /\ [Next]_vars => I'
  BY StepKeepsScanSound, StepKeepsGraded
<1>3. Typed /\ I /\ [Next]_vars => [\A f \in Fingerprints : GrowsMoreSevere(f)]_vars
  <2> SUFFICES ASSUME Typed, I, Next, NEW f \in Fingerprints, NEW p \in Ports, NEW d \in Deployments,
                      origins[f] = {<<p, d>>}, origins'[f] = {<<p, d>>}
               PROVE  Rank(rows'[f].severity) >= Rank(rows[f].severity)
    BY DEF GrowsMoreSevere
  <2>1. rows[f].severity \in Severities
    <3>1. PICK t \in Moments : /\ f \in DOMAIN TLSFindings[d][t]
                               /\ rows[f].severity = TLSFindings[d][t][f]
      BY DEF Graded, GradedBefore
    <3> QED BY <3>1, FindingsTyped
  <2>2. Rank(rows[f].severity) \in Int
    BY <2>1 DEF Severities, Rank
  <2>3. ASSUME NEW written, rows' = Reconciled(written), origins' = OriginsOf(written)
        PROVE  Rank(rows'[f].severity) >= Rank(rows[f].severity)
    <3>1. CASE f \in written /\ f \in DOMAIN scan.report
      <4>1. Sources(scan.saw, f) = {p} /\ scan.saw[p].deployment = d
        BY <2>3, <3>1, OriginsAfterScan
      <4>2. rows'[f].severity = scan.report[f]
        BY <2>3, <3>1, WrittenSeverity
      <4> QED BY <4>1, <4>2 DEF Graded
    <3>2. CASE ~(f \in written /\ f \in DOMAIN scan.report)
      <4>1. rows'[f].severity = rows[f].severity
        BY <2>3, <3>2, WrittenSeverity
      <4> QED BY <2>2, <4>1
    <3> QED BY <3>1, <3>2
  <2>4. ASSUME NEW g \in Fingerprints, NEW status \in {"open", "acknowledged", "suppressed"},
               Decide(g, status)
        PROVE  Rank(rows'[f].severity) >= Rank(rows[f].severity)
    <3>1. rows'[f].severity = rows[f].severity
      BY <2>4, DecidedRow
    <3> QED BY <2>2, <3>1
  <2>5. CASE UNCHANGED rows
    BY <2>2, <2>5
  <2>6. CASE Reconcile \/ ReconcileFails
    BY <2>3, <2>6 DEF Reconcile, ReconcileFails
  <2> QED BY <2>4, <2>5, <2>6
          DEF Next, TimePasses, Replace, DialSucceeds, DialFails, ScanFails
<1> HIDE DEF I
<1> QED BY <1>1, <1>2, <1>3, TypedHolds, PTL DEF Spec, SeverityOnlyRises
=============================================================================
