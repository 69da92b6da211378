--------------------------- MODULE MCEquivalence ---------------------------
(* Small instances of Equivalence for TLC. *)
EXTENDS Equivalence, TLC

CONSTANTS a, b, c, d, e

(* b and d hash to one list. *)
CodeHash(n) == CASE n = a -> 0 [] n \in {b, d} -> 4 [] n = c -> 2 [] n = e -> 1

Pairs == {<<x, y>> : x \in Names, y \in Names} \ {<<x, x>> : x \in Names}
PairsAndTriples == Pairs \cup {<<a, b, c>>, <<c, b, a>>, <<b, c, d>>}
OneType == {[n \in Names |-> "real"]}
TwoTypes == {[n \in Names |-> IF n \in r THEN "real" ELSE "integer"] : r \in {{a, c}, Names}}
=============================================================================
