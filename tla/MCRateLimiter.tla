--------------------------- MODULE MCRateLimiter ---------------------------
EXTENDS RateLimiter, TLC

CONSTANTS ip, key, email

\* The e-mail tier is the narrowest one and the IP tier has the shortest
\* window, as in the program.
Limits == (ip :> 2) @@ (key :> 2) @@ (email :> 1)
Windows == (ip :> 1) @@ (key :> 2) @@ (email :> 2)

Symmetry == Permutations(Requests)
=============================================================================
