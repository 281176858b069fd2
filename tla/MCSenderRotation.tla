------------------------- MODULE MCSenderRotation -------------------------
EXTENDS SenderRotation, TLC

CONSTANTS s1, s2

\* Each is exhausted by its first mail, and then one with the limit 2 is the
\* less used of the two.
OneAndTwo == s1 :> 1 @@ s2 :> 2
Half == <<1, 2>>
=============================================================================
