--------------------------- MODULE MCCredentials ---------------------------
EXTENDS Credentials, TLC

\* Calls of revoke_jwt are alike.
CallSymmetry == Permutations(Revocations)
=============================================================================
