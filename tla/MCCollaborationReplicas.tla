---------------------- MODULE MCCollaborationReplicas ----------------------
(***************************************************************************)
(* Replicas meet only in the rows and in the stream, and what the others   *)
(* commit is UpdateElsewhere: one replica is enough.  With two updates and *)
(* a purge the sequence reaches three.                                     *)
(***************************************************************************)
EXTENDS CollaborationReplicas
=============================================================================
