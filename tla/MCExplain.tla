------------------------------ MODULE MCExplain ------------------------------
(* A small instance of Explain: evidence that nests maps and lists up to    *)
(* two levels beyond MaxDepth, with secret keys and long lists and strings  *)
(* at every level.                                                         *)
EXTENDS Explain, Evidence, TLC

Plain == Leaf("short")
Long == Leaf("long")

(* Keys 1 and 3 are secret.                                                 *)
Wraps(v) == {Map(1 :> v @@ 2 :> Long @@ 3 :> v @@ 4 :> v @@ 5 :> Plain), Map(3 :> v), List(<<Plain, v, v>>)}

Nest(values) == UNION {Wraps(v) : v \in values}

SomeEvidence == UNION {{w \in Wraps(v) : w.kind = "map" /\ DOMAIN w.items # {3}} : v \in Nest(Nest({Long}))}

SomeFindings == {[evidence |-> v, severity |-> "low"] : v \in SomeEvidence} \cup
                {[evidence |-> Map(1 :> Plain @@ 2 :> Plain), severity |-> "high"]}

Says(severity, wording) == [severity |-> severity, wording |-> wording]
Neutral == Says("none", "apart")

(* Texts that say the severity, a foreign one beside "severity", apart and   *)
(* in Indonesian, both, or nothing but foreign ones.                        *)
SomeTexts == {{Neutral, Says("high", "beside")}, {Says("high", "beside"), Says("low", "beside")},
              {Says("high", "apart"), Says("medium", "beside")}, {Says("high", "id")},
              {Says("high", "beside"), Says("medium", "beside")}}

SomeNarrations == {[text |-> text, verify |-> {Says("high", "beside")}] : text \in SomeTexts}
==============================================================================
