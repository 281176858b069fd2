--------------------------- MODULE MCMagicLink ---------------------------
EXTENDS MagicLink, TLC

\* Calls are interchangeable; used in safety runs only.
Symmetry == Permutations(Requests)
=============================================================================
