--------------------------- MODULE MCCollaboration ---------------------------
(***************************************************************************)
(* Model checking of Collaboration: from a server that nobody has          *)
(* connected to, and from a session two clients have joined.               *)
(***************************************************************************)
EXTENDS Collaboration

MCStarts ==
  {[settled |-> 0, clients |-> 2, ops |-> 0],
   [settled |-> 2, clients |-> 3, ops |-> 1]}

=============================================================================
