----------------------------- MODULE MCDashboard -----------------------------
(* Small instances of Dashboard for TLC: the limits of cmd/asm (1, 10,      *)
(* unlimited) and of package license (10, 100, unlimited) scaled down.      *)
EXTENDS Dashboard, TLC

MCTiers == {"free", "pro", "team"}
MCProductMax == [tier \in MCTiers |-> CASE tier = "free" -> 1 [] tier = "pro" -> 2 [] tier = "team" -> 0]
MCDefaultMax == [tier \in MCTiers |-> CASE tier = "free" -> 2 [] tier = "pro" -> 3 [] tier = "team" -> 0]
Key(tier, issued, expires) == [genuine |-> TRUE, tier |-> tier, issued |-> issued, expires |-> expires]
Forged == [genuine |-> FALSE, tier |-> "team", issued |-> 0, expires |-> 9]
MCKeys == {Key("pro", 0, 1), Key("team", 1, 2), Key("gold", 2, 3), Forged}

AnyTarget == Permutations(Targets)
=============================================================================
