---------------------------- MODULE MCCertificate ----------------------------
(* A small instance of Certificate: instants on both sides of every step of *)
(* the expiry ladder, and servers that differ in what the probe looks at.   *)
EXTENDS Certificate

(* Ends 31 days on, in half days.                                           *)
Sound == [notAfter |-> 62, covers |-> TRUE, length |-> 2, selfIssued |-> FALSE, anchored |-> TRUE,
          version |-> 13, cipher |-> "aead", rsaBits |-> 0, signature |-> "sha256"]

(* A renewal that is itself within 30 days of its end at the last instants. *)
Renewed == [Sound EXCEPT !.notAfter = 120, !.rsaBits = 2048]

(* A lone certificate of an unknown authority on an old server.             *)
Neglected == [notAfter |-> 400, covers |-> FALSE, length |-> 1, selfIssued |-> FALSE, anchored |-> FALSE,
              version |-> 10, cipher |-> "rc4", rsaBits |-> 1024, signature |-> "sha1"]

SomeDeployments == {Sound, Renewed, Neglected}
FirstDeployments == {Sound, Neglected}
MixedDeployments == {Sound, Renewed}

(* 31 days left, 30 and a half, 7 and a half, 1 and a half, the last instant *)
(* and the first one after it.                                             *)
SomeMoments == {0, 1, 47, 59, 62, 63}

AnyPort == Permutations(Ports)
=============================================================================
