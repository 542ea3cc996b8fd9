------------------------ MODULE MCAttachmentLifecycle ------------------------
(***************************************************************************)
(* Attachments, handlers and workers are interchangeable, but ScanSettles  *)
(* is a liveness property: no symmetry is declared.  A quota of one unit   *)
(* is full with the first upload; a second one fits when the first was     *)
(* rejected, or when both were added up at the same time.                  *)
(***************************************************************************)
EXTENDS AttachmentLifecycle
=============================================================================
