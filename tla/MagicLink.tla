----------------------------- MODULE MagicLink -----------------------------
(***************************************************************************)
(* The life of magic links: core/magic_links.py (create_magic_link,        *)
(* verify_magic_link) over the magic_links table of core/db.py, and the    *)
(* routes of apps/api/routes/magic.py that call them.                      *)
(*                                                                         *)
(* As in OtpLifecycle an action is one database statement, or the local    *)
(* code after it, and everything interleaves.  A verify call reads its row *)
(* twice: for the project of the webhook event, then in                    *)
(* verify_magic_link.  Links are never deleted (the worker purges OTPs     *)
(* only), so a row is there from create_magic_link on.  A send refused     *)
(* before the insert changes nothing; what a send does after it (the mail) *)
(* is in EmailDelivery.                                                    *)
(*                                                                         *)
(* Schema says what the deployed table takes beyond what                   *)
(* db/migrations/005_magic_links.sql declares: the code writes a used_at   *)
(* column and inserts a NULL redirect_url, and the migration has neither.  *)
(* The shipped schema is {}.                                               *)
(***************************************************************************)
EXTENDS Integers

CONSTANTS
    Requests,   \* slots for concurrent GET /magic/verify calls
    Projects,   \* projects that send links
    NoProject,  \* the empty project id of an event
    Schema,     \* subset of {"used_at", "null_redirect_url"}
    Expiry,     \* MAGIC_LINK_EXPIRY_MINUTES, in ticks
    MaxLinks,   \* bound: links ever created
    MaxTime     \* bound: ticks of the clock

ASSUME ConstantsAssumption ==
    /\ Projects # {} /\ NoProject \notin Projects
    /\ Schema \subseteq {"used_at", "null_redirect_url"}
    /\ Expiry \in Nat /\ MaxLinks \in Nat /\ MaxTime \in Nat

VARIABLES
    now,          \* datetime.now(UTC)
    created,      \* links ever created; their ids are 1..created
    magic_links,  \* the table
    call,         \* local variables and control state of each verify call
    page,         \* the page the latest step answered to each call
    sent          \* what the latest step answered to POST /magic/send

VARIABLES         \* history, for the properties
    accepted,     \* "verified" pages given for each link
    reported,     \* magic_link.verified events fired to the link's project
    overlapped    \* links that two calls have held at the same time

tableVars == <<created, magic_links>>
histVars == <<accepted, reported, overlapped>>
vars == <<now, tableVars, call, page, sent, histVars>>

NoLink == 0
LinkIds == 1..MaxLinks

Link == [project_id : Projects, is_used : BOOLEAN, expires_at : Nat]

\* token is the link whose token the caller presents, NoLink for any other
\* string; project_id is what the first read found; is_used, what the second.
\* began (the time of the second read) is history.
Call == [pc : {"idle", "lookup", "check", "mark"},
         token : LinkIds \union {NoLink},
         project_id : Projects \union {NoProject}, is_used : BOOLEAN,
         began : Nat]

IdleCall ==
    [pc |-> "idle", token |-> NoLink, project_id |-> NoProject,
     is_used |-> FALSE, began |-> 0]

NoPage == [r \in Requests |-> "none"]
Silence == page' = NoPage /\ sent' = "none"

\* r has read the link and is about to mark it, if it passes the checks.
Holds(r, i) ==
    call[r].pc \in {"check", "mark"} /\ call[r].token = i /\ ~call[r].is_used

\* Mutant: the lifetime subtracted instead of added.
NewLinkBackdated(p) ==
    [project_id |-> p, is_used |-> FALSE, expires_at |-> now - Expiry]

NewLink(p) == [project_id |-> p, is_used |-> FALSE, expires_at |-> now + Expiry]

Init ==
    /\ now = 0
    /\ created = 0
    /\ magic_links = [i \in LinkIds |-> NewLink(CHOOSE p \in Projects : TRUE)]
    /\ call = [r \in Requests |-> IdleCall]
    /\ page = NoPage /\ sent = "none"
    /\ accepted = [i \in LinkIds |-> 0]
    /\ reported = [i \in LinkIds |-> 0]
    /\ overlapped = {}

-----------------------------------------------------------------------------
(* POST /magic/send, up to the row of the link.                             *)

\* The column is NOT NULL, and a key that is present gets no default.
Insertable(redirect_url) == redirect_url = "url" \/ "null_redirect_url" \in Schema

\* The clock is read for expires_at before the insert.  Links have no order, and
\* nobody has the token before the insert is answered: what comes in between is
\* the same as if it came after the insert.
CreateMagicLink(p, redirect_url) ==
    /\ created < MaxLinks
    /\ IF Insertable(redirect_url)
       THEN /\ created' = created + 1
            /\ magic_links' = [magic_links EXCEPT ![created + 1] = NewLink(p)]
            /\ sent' = "sent"
       ELSE UNCHANGED tableVars /\ sent' = "service_unavailable"
    /\ page' = NoPage
    /\ UNCHANGED <<now, call, histVars>>

\* The answer is lost, and the link with it: nobody learns its token.
CreateUnacknowledged(p) ==
    /\ created < MaxLinks
    /\ created' = created + 1
    /\ magic_links' = [magic_links EXCEPT ![created + 1] = NewLink(p)]
    /\ sent' = "service_unavailable" /\ page' = NoPage
    /\ UNCHANGED <<now, call, histVars>>

-----------------------------------------------------------------------------
(* GET /magic/verify/{token}.                                               *)

Goto(r, label) ==
    /\ call' = [call EXCEPT ![r].pc = label]
    /\ Silence

\* Every refusal is the same 410 page; the slot is free for another call.
Respond(r, p) ==
    /\ page' = [NoPage EXCEPT ![r] = p]
    /\ sent' = "none"
    /\ call' = [call EXCEPT ![r] = IdleCall]

\* The first read, for the event; any exception leaves the project id empty.
Arrive(r, t, p) ==
    /\ call[r].pc = "idle"
    /\ p = NoProject \/ (t # NoLink /\ p = magic_links[t].project_id)
    /\ call' = [call EXCEPT ![r] =
         [pc |-> "lookup", token |-> t, project_id |-> p,
          is_used |-> FALSE, began |-> 0]]
    /\ Silence
    /\ UNCHANGED <<now, tableVars, histVars>>

\* Mutant: the first read's row trusted, its is_used taken as still false.
LookupStale(r) ==
    LET i == call[r].token IN
    /\ call[r].pc = "lookup" /\ i # NoLink
    /\ call' = [call EXCEPT ![r].pc = "check", ![r].began = now]
    /\ Silence
    /\ UNCHANGED <<now, tableVars, histVars>>

\* The second read, in verify_magic_link.
Lookup(r) ==
    LET i == call[r].token IN
    /\ call[r].pc = "lookup" /\ i # NoLink
    /\ call' = [call EXCEPT ![r].pc = "check",
                            ![r].is_used = magic_links[i].is_used,
                            ![r].began = now]
    /\ overlapped' = IF /\ ~magic_links[i].is_used
                        /\ \E q \in Requests \ {r} : Holds(q, i)
                     THEN overlapped \union {i} ELSE overlapped
    /\ Silence
    /\ UNCHANGED <<now, tableVars, accepted, reported>>

LookupNone(r) ==
    /\ call[r].pc = "lookup" /\ call[r].token = NoLink
    /\ Respond(r, "expired")
    /\ UNCHANGED <<now, tableVars, histVars>>

\* Mutant: the comparison the wrong way round.
ExpiredReversed(r) == now < magic_links[call[r].token].expires_at

Expired(r) == now > magic_links[call[r].token].expires_at

Check(r) ==
    /\ call[r].pc = "check"
    /\ IF call[r].is_used \/ Expired(r)
       THEN Respond(r, "expired")
       ELSE Goto(r, "mark")
    /\ UNCHANGED <<now, tableVars, histVars>>

\* The event goes to the project the first read found.
Report(r) ==
    reported' = IF call[r].project_id = NoProject THEN reported
                ELSE [reported EXCEPT ![call[r].token] = @ + 1]

\* The update, which does not test is_used again, the JWT, the event, the page.
\* Without the used_at column the update is rejected, and raises.
MarkUsed(r) ==
    LET i == call[r].token IN
    /\ call[r].pc = "mark"
    /\ IF "used_at" \in Schema
       THEN /\ magic_links' = [magic_links EXCEPT ![i].is_used = TRUE]
            /\ accepted' = [accepted EXCEPT ![i] = @ + 1]
            /\ Report(r)
            /\ Respond(r, "verified")
       ELSE /\ UNCHANGED <<magic_links, accepted, reported>>
            /\ Respond(r, "expired")
    /\ UNCHANGED <<now, created, overlapped>>

\* The second read, or the update, raises without effect.
StatementFails(r) ==
    /\ call[r].pc \in {"lookup", "mark"}
    /\ Respond(r, "expired")
    /\ UNCHANGED <<now, tableVars, histVars>>

\* The update is applied and the call raises: the link is spent for nothing.
MarkUnacknowledged(r) ==
    /\ call[r].pc = "mark"
    /\ "used_at" \in Schema
    /\ magic_links' = [magic_links EXCEPT ![call[r].token].is_used = TRUE]
    /\ Respond(r, "expired")
    /\ UNCHANGED <<now, created, histVars>>

\* The API process stops between two statements; nobody gets a page.
Crash(r) ==
    /\ call[r].pc # "idle"
    /\ Respond(r, "none")
    /\ UNCHANGED <<now, tableVars, histVars>>

Tick ==
    /\ now < MaxTime
    /\ now' = now + 1
    /\ Silence
    /\ UNCHANGED <<tableVars, call, histVars>>

-----------------------------------------------------------------------------

\* Steps that no failure and no crash interferes with.
Step(r) ==
    \/ Lookup(r)
    \/ LookupNone(r)
    \/ Check(r)
    \/ MarkUsed(r)

Reliable ==
    \/ \E p \in Projects, url \in {"url", "null"} : CreateMagicLink(p, url)
    \/ \E r \in Requests :
        \/ \E t \in (1..created) \union {NoLink}, p \in Projects : Arrive(r, t, p)
        \/ Step(r)
    \/ Tick

Faulty ==
    \/ \E p \in Projects : CreateUnacknowledged(p)
    \/ \E r \in Requests :
        \/ \E t \in (1..created) \union {NoLink} : Arrive(r, t, NoProject)
        \/ StatementFails(r)
        \/ MarkUnacknowledged(r)
        \/ Crash(r)

Next == Reliable \/ Faulty

Spec == Init /\ [][Next]_vars

\* The database answers every statement and the API does not stop.
ReliableSpec == Init /\ [][Reliable]_vars

-----------------------------------------------------------------------------
(* Properties.                                                              *)

\* Every variable stays within its type.
TypeOK ==
    /\ now \in 0..MaxTime
    /\ created \in 0..MaxLinks
    /\ magic_links \in [LinkIds -> Link]
    /\ call \in [Requests -> Call]
    /\ page \in [Requests -> {"none", "verified", "expired"}]
    /\ sent \in {"none", "sent", "service_unavailable"}
    /\ accepted \in [LinkIds -> Nat]
    /\ reported \in [LinkIds -> Nat]
    /\ overlapped \in SUBSET LinkIds

\* A link that no two calls held at once is accepted, and its verification
\* reported to its project, at most once, lost answers and crashes included.
OnceWithoutOverlap ==
    \A i \in LinkIds \ overlapped : reported[i] <= accepted[i] /\ accepted[i] <= 1

\* "verified" is answered only to a call that presented the link's own token
\* and had read the link by its expires_at.
AcceptOnlyTheHolder ==
    [][\A i \in LinkIds : accepted'[i] # accepted[i] =>
        \E r \in Requests :
            /\ page'[r] = "verified" /\ call[r].token = i
            /\ call[r].began <= magic_links[i].expires_at]_vars

\* The link a call is redeeming: the one it read as unused.
Redeemed(c) ==
    IF c.pc \in {"check", "mark"} /\ ~c.is_used THEN c.token ELSE NoLink

\* Once a link was accepted, no call that reads it afterwards is accepted, in
\* whatever state the first, separate read of the route found it.
Token == INSTANCE SingleUseToken WITH
    Clients <- Requests,
    Tokens <- LinkIds,
    NoToken <- NoLink,
    redeeming <- [r \in Requests |-> Redeemed(call[r])],
    accepted <- {i \in LinkIds : accepted[i] > 0}

SingleUse == Token!Spec

-----------------------------------------------------------------------------
(* What the repository says of this code and the code does not do.          *)

\* "200 magic_verified.html on success" (apps/api/routes/magic.py:201): with no
\* fault anywhere, a call that passed the checks is answered "verified".  On
\* the shipped schema the update is rejected and the page is the 410 one.
ValidLinkVerifies ==
    [][\A r \in Requests : call[r].pc = "mark" => page'[r] # "expired"]_vars

=============================================================================
