--------------------- MODULE MCCollaborationProjection ---------------------
(***************************************************************************)
(* Two workers overtake each other, and two updates make one of them       *)
(* older.  The liveness properties rule symmetry out.                      *)
(***************************************************************************)
EXTENDS CollaborationProjection
=============================================================================
