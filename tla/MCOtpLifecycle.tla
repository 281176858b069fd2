-------------------------- MODULE MCOtpLifecycle --------------------------
EXTENDS OtpLifecycle, TLC

\* Calls are interchangeable; used in safety runs only.
Symmetry == Permutations(Requests)
=============================================================================
