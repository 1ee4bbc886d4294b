---------------------------- MODULE MCAnimationCache ----------------------------
(* Two ranks with data of different size.                                   *)
EXTENDS AnimationCache, TLC

CONSTANTS p1, p2

MCSize == p1 :> 1 @@ p2 :> 2

Symmetry == Permutations(Repr) \cup Permutations(Value) \cup Permutations(Time)
              \cup Permutations(Curve)
=============================================================================
