---------------------- MODULE MCCollaborationSessions ----------------------
(***************************************************************************)
(* Sessions meet only in the revision of the actor and in its life; three  *)
(* revisions let a session be overtaken, come back, and be met by the      *)
(* event of either change late.                                            *)
(***************************************************************************)
EXTENDS CollaborationSessions
=============================================================================
