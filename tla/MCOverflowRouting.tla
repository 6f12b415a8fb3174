------------------------- MODULE MCOverflowRouting -------------------------
(* Instances of OverflowRouting for TLC.                                   *)
EXTENDS OverflowRouting, TLC

CONSTANTS w1, w2, w3, s1, s2, a, b, c, q1, q2, q3

(* Two databases with a result in common, and one, of no results, under    *)
(* the id of the first.  They open in any order.                           *)
MCIdOf == (w1 :> s1) @@ (w2 :> s2) @@ (w3 :> s1)
MCParks == (w1 :> {a, b, c}) @@ (w2 :> {c}) @@ (w3 :> {})

Alike == Permutations({a, b}) \cup Permutations(Calls)
===========================================================================
