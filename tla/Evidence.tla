------------------------------ MODULE Evidence ------------------------------
(***************************************************************************)
(* What of a finding's evidence may leave the process                      *)
(* (internal/aiclient/evidence.go).  Evidence is JSON: a value is a leaf,  *)
(* or a map or list whose items are a function of keys or of positions.    *)
(* Keys are numbers in their sorted order.                                 *)
(***************************************************************************)
EXTENDS Naturals, Sequences, FiniteSets

CONSTANTS SecretKeys,     \* keys that contain a secretKeyMarkers word
          MaxKeys, MaxList, MaxDepth

ASSUME LimitsAssumption == {MaxKeys, MaxList, MaxDepth} \subseteq Nat \ {0}

Leaf(x) == [kind |-> "leaf", leaf |-> x, items |-> <<>>]
Map(items) == [kind |-> "map", leaf |-> "", items |-> items]
List(items) == [kind |-> "list", leaf |-> "", items |-> items]

Nil == Leaf("nil")
Omitted == Leaf("omitted")
Cut(x) == IF x = "long" THEN "cut" ELSE x

(* Mutant: the keys are cut to MaxKeys before the secret ones are dropped.  *)
KeysKeptThenDropped(items) == {k \in DOMAIN items : Cardinality({j \in DOMAIN items : j < k}) < MaxKeys} \ SecretKeys

IsSecretKey(k) == k \in SecretKeys

(* sanitizeMap: of the keys that are not secret, the first MaxKeys.         *)
KeysKept(items) ==
    LET open == {k \in DOMAIN items : ~IsSecretKey(k)}
    IN {k \in open : Cardinality({j \in open : j < k}) < MaxKeys}

ItemsKept(items) == {i \in DOMAIN items : i <= MaxList}

Kept(v) == IF v.kind = "map" THEN KeysKept(v.items) ELSE ItemsKept(v.items)

TooDeep(depth) == depth >= MaxDepth

RECURSIVE Sanitize(_, _)

(* sanitizeValue: a map of which nothing is kept becomes nil.               *)
Sanitize(v, depth) ==
    CASE v.kind = "leaf" -> Leaf(Cut(v.leaf))
      [] v.kind # "leaf" /\ TooDeep(depth) -> Omitted
      [] v.kind = "map" /\ ~TooDeep(depth) /\ Kept(v) = {} -> Nil
      [] OTHER -> [v EXCEPT !.items = [k \in Kept(v) |-> Sanitize(v.items[k], depth + 1)]]

SanitizeEvidence(evidence) == Sanitize(evidence, 0)

-----------------------------------------------------------------------------
(* What evidence.go:33-45 says of the copy, by the paths of its nodes.      *)

RECURSIVE Paths(_), At(_, _)

Paths(v) == {<<>>} \cup UNION {{<<k>> \o p : p \in Paths(v.items[k])} : k \in DOMAIN v.items}
At(v, path) == IF path = <<>> THEN v ELSE At(v.items[Head(path)], Tail(path))

Prefix(path, n) == SubSeq(path, 1, n)

(* The containers a path goes through, each with the item it takes.         *)
Through(v, path) == {<<At(v, Prefix(path, n - 1)), path[n]>> : n \in 1..Len(path)}

(* No step over a secret key, none beyond the first items of its container. *)
Permitted(v, path) ==
    \A step \in Through(v, path) :
        LET rivals == IF step[1].kind = "map" THEN DOMAIN step[1].items \ SecretKeys ELSE DOMAIN step[1].items
        IN /\ step[2] \in rivals
           /\ Cardinality({j \in rivals : j < step[2]}) < (IF step[1].kind = "map" THEN MaxKeys ELSE MaxList)

(* The copy has the permitted nodes down to MaxDepth and no other; leaves   *)
(* are whole or cut, and what is below is one remark.                      *)
CleanCopy(v, copy) ==
    /\ Paths(copy) = {p \in Paths(v) : Len(p) <= MaxDepth /\ Permitted(v, p)}
    /\ \A p \in Paths(copy) :
           LET is == At(copy, p)
               was == At(v, p)
           IN CASE was.kind = "leaf" -> is = Leaf(Cut(was.leaf))
                [] was.kind # "leaf" /\ Len(p) = MaxDepth -> is = Omitted
                [] OTHER -> is.kind = was.kind \/ (is = Nil /\ was.kind = "map")
=============================================================================
