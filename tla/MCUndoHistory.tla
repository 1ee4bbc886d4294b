---------------------------- MODULE MCUndoHistory ----------------------------
(* UndoHistory for TLC: proxies are interchangeable, and so are values.     *)
EXTENDS UndoHistory

Symmetry == Permutations(Proxies) \cup Permutations(Values)
=============================================================================
