--------------------------- MODULE SingleUseToken ---------------------------
(***************************************************************************)
(* What MailGuard keeps of "single use" for a credential (an OTP, a magic  *)
(* link), stated without tables, clocks or counters:                       *)
(*                                                                         *)
(*  - a client begins to redeem a token only while no client has been told *)
(*    that the token was accepted;                                         *)
(*  - a client is told "accepted" only of the token it began to redeem.    *)
(*                                                                         *)
(* Clients that begin before the first acceptance may all be accepted:     *)
(* this is what a read followed by a separate write can give.  With a      *)
(* single client the specification says that a token is accepted at most   *)
(* once.                                                                   *)
(***************************************************************************)
CONSTANTS
    Clients,  \* whoever redeems: the concurrent verify calls of the API
    Tokens,   \* the credentials
    NoToken   \* what a client redeems when it redeems nothing; not a token

VARIABLES
    redeeming,  \* the token each client is redeeming
    accepted    \* the tokens some client was told were accepted

tokenVars == <<redeeming, accepted>>

Init ==
    /\ redeeming = [c \in Clients |-> NoToken]
    /\ accepted = {}

Begin(c, t) ==
    /\ redeeming[c] = NoToken
    /\ t \notin accepted
    /\ redeeming' = [redeeming EXCEPT ![c] = t]
    /\ UNCHANGED accepted

Accept(c) ==
    /\ redeeming[c] # NoToken
    /\ accepted' = accepted \union {redeeming[c]}
    /\ redeeming' = [redeeming EXCEPT ![c] = NoToken]

GiveUp(c) ==
    /\ redeeming[c] # NoToken
    /\ redeeming' = [redeeming EXCEPT ![c] = NoToken]
    /\ UNCHANGED accepted

Next ==
    \E c \in Clients :
        \/ \E t \in Tokens : Begin(c, t)
        \/ Accept(c)
        \/ GiveUp(c)

Spec == Init /\ [][Next]_tokenVars
=============================================================================
