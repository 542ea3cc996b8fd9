------------------------- MODULE MCPublicationSaga -------------------------
(* The publication saga on small instances. *)
EXTENDS PublicationSaga, TLC

MCOwnerOf == [d \in Docs |-> CHOOSE o \in Owners : TRUE]

\* Workers are only told apart by what they have in hand.
WorkerSymmetry == Permutations(Workers)
=============================================================================
