--------------------------- MODULE MCSpokeRegistry ---------------------------
(* Instances of SpokeRegistry for TLC: the first spoke has two ids.        *)
EXTENDS SpokeRegistry, TLC

CONSTANTS h1, h2, i1, i2, i3, ta, tb, na, nb

Owner == i1 :> h1 @@ i2 :> h1 @@ i3 :> h2

Symmetry == Permutations({ta, tb}) \cup Permutations({na, nb})

=============================================================================
