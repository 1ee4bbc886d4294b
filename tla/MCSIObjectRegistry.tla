------------------------- MODULE MCSIObjectRegistry -------------------------
(***************************************************************************)
(* Model checking of SIObjectRegistry: clients are interchangeable, since  *)
(* nothing the registry does depends on the order of their ids.            *)
(***************************************************************************)
EXTENDS SIObjectRegistry, TLC

ClientSymmetry == Permutations(Client)

=============================================================================
