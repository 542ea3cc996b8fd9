------------------------- MODULE MCIdentitySessions -------------------------
EXTENDS IdentitySessions, TLC

\* Handlers are interchangeable.
HandlerSymmetry == Permutations(Requests)
=============================================================================
