-------------------------- MODULE MagicLinkProofs --------------------------
(***************************************************************************)
(* Proofs about MagicLink, for every number of requests, projects, links   *)
(* and ticks, and for every schema.                                        *)
(*                                                                         *)
(* IInv ties what a running call knows to the table: the link it presents  *)
(* exists and was read in time (CallInv), an accepted link is marked used  *)
(* (HistoryInv), and a link that never had two holders has not been        *)
(* accepted while it has one (OverlapInv).                                 *)
(***************************************************************************)
EXTENDS MagicLink, TLAPS

CallInv ==
    \A r \in Requests :
        /\ call[r].pc = "idle" => call[r].token = NoLink
        /\ call[r].token \in 0..created
        /\ call[r].pc \in {"check", "mark"} =>
            /\ call[r].token # NoLink
            /\ call[r].began <= now
        /\ call[r].pc = "mark" =>
            /\ ~call[r].is_used
            /\ call[r].began <= magic_links[call[r].token].expires_at

HistoryInv ==
    \A i \in LinkIds :
        /\ accepted[i] > 0 => magic_links[i].is_used
        /\ reported[i] <= accepted[i]
        /\ i > created => accepted[i] = 0

OverlapInv ==
    \A i \in LinkIds \ overlapped :
        /\ accepted[i] <= 1
        /\ \A r, q \in Requests : Holds(r, i) /\ Holds(q, i) => r = q
        /\ \A r \in Requests : Holds(r, i) => accepted[i] = 0

IInv ==
    /\ TypeOK
    /\ CallInv
    /\ HistoryInv
    /\ OverlapInv

-----------------------------------------------------------------------------

(* What a free slot holds.                                                  *)
LEMMA IdleCallType ==
    IdleCall \in Call /\ IdleCall.pc = "idle" /\ IdleCall.token = NoLink
  BY ConstantsAssumption DEF IdleCall, Call, NoLink, LinkIds

(* Nobody calls yet and there is no link: the invariant holds initially.    *)
LEMMA InitInv == Init => IInv
<1> SUFFICES ASSUME Init PROVE IInv
  OBVIOUS
<1> USE ConstantsAssumption DEF Init, LinkIds, NoLink, NoPage
<1>1. (CHOOSE p \in Projects : TRUE) \in Projects
  OBVIOUS
<1>2. TypeOK
  BY <1>1 DEF TypeOK, Link, NewLink, Call, IdleCall
<1>3. CallInv
  <2>1. \A r \in Requests : call[r].pc = "idle" /\ call[r].token = 0
    BY IdleCallType
  <2>2. 0 \in 0..created
    OBVIOUS
  <2>3. QED
    BY <2>1, <2>2 DEF CallInv
<1>4. HistoryInv
  BY DEF HistoryInv
<1>5. OverlapInv
  BY DEF OverlapInv, Holds, IdleCall
<1>6. QED
  BY <1>2, <1>3, <1>4, <1>5 DEF IInv

(* A slot is freed and no table is touched: a refusal, an exception, a crash. *)
LEMMA RespondInv ==
    ASSUME IInv, NEW r \in Requests, NEW p \in {"none", "verified", "expired"},
           Respond(r, p), UNCHANGED <<now, tableVars, histVars>>
    PROVE  IInv'
<1> USE ConstantsAssumption DEF IInv, Respond, tableVars, histVars, LinkIds, NoLink
<1>1. TypeOK'
  BY DEF TypeOK, NoPage, IdleCall, Call
<1>2. CallInv'
  BY DEF CallInv, TypeOK, IdleCall
<1>3. HistoryInv'
  BY DEF HistoryInv
<1>4. OverlapInv'
  BY DEF OverlapInv, Holds, TypeOK, IdleCall
<1>5. QED
  BY <1>1, <1>2, <1>3, <1>4

(* create_magic_link, acknowledged or not, adds a link nobody presents yet. *)
LEMMA NewLinkInv ==
    ASSUME IInv, NEW p \in Projects, created < MaxLinks,
           created' = created + 1,
           magic_links' = [magic_links EXCEPT ![created + 1] = NewLink(p)],
           sent' \in {"none", "sent", "service_unavailable"}, page' = NoPage,
           UNCHANGED <<now, call, histVars>>
    PROVE  IInv'
<1> USE ConstantsAssumption DEF IInv, histVars, LinkIds, NoLink
<1>1. created \in 0..MaxLinks /\ created' \in 0..MaxLinks
  BY DEF TypeOK
<1>2. \A i \in LinkIds : i # created + 1 => magic_links'[i] = magic_links[i]
  BY DEF TypeOK
<1>3. TypeOK'
  <2>1. NewLink(p) \in Link
    BY DEF NewLink, Link, TypeOK
  <2>2. magic_links' \in [LinkIds -> Link]
    BY <2>1 DEF TypeOK
  <2>3. QED
    BY <1>1, <2>2 DEF TypeOK, NoPage
<1>4. CallInv'
  <2>1. \A r \in Requests : call[r].token # created + 1
    BY <1>1 DEF CallInv
  <2>2. \A r \in Requests : call[r].token \in LinkIds \union {NoLink}
    BY DEF TypeOK, Call
  <2>3. QED
    BY <1>1, <1>2, <2>1, <2>2, SMTT(30) DEF CallInv
<1>5. HistoryInv'
  BY <1>1, <1>2 DEF HistoryInv
<1>6. OverlapInv'
  BY DEF OverlapInv, Holds
<1>7. QED
  BY <1>3, <1>4, <1>5, <1>6

(* Both outcomes of the insert.                                             *)
LEMMA CreateInv ==
    ASSUME IInv, NEW p \in Projects, NEW url, CreateMagicLink(p, url)
    PROVE  IInv'
<1>1. CASE Insertable(url)
  BY <1>1, NewLinkInv DEF CreateMagicLink
<1>2. CASE ~Insertable(url)
  <2> USE <1>2 DEF CreateMagicLink, tableVars, histVars, IInv
  <2>1. TypeOK'
    BY DEF TypeOK, NoPage
  <2>2. CallInv' /\ HistoryInv' /\ OverlapInv'
    BY DEF CallInv, HistoryInv, OverlapInv, Holds
  <2>3. QED
    BY <2>1, <2>2
<1>3. QED
  BY <1>1, <1>2

(* The first read puts a call into a slot; it holds nothing yet.            *)
LEMMA ArriveInv ==
    ASSUME IInv, NEW r \in Requests, NEW t \in (1..created) \union {NoLink},
           NEW p \in Projects \union {NoProject}, Arrive(r, t, p)
    PROVE  IInv'
<1> USE ConstantsAssumption
    DEF IInv, Arrive, Silence, tableVars, histVars, LinkIds, NoLink
<1>1. t \in 0..created /\ t \in 0..MaxLinks
  BY DEF TypeOK
<1>2. TypeOK'
  <2>1. [pc |-> "lookup", token |-> t, project_id |-> p,
         is_used |-> FALSE, began |-> 0] \in Call
    BY <1>1 DEF Call
  <2>2. call' \in [Requests -> Call]
    BY <2>1 DEF TypeOK
  <2>3. QED
    BY <2>2 DEF TypeOK, NoPage
<1>3. CallInv'
  BY <1>1 DEF CallInv, TypeOK
<1>4. HistoryInv'
  BY DEF HistoryInv
<1>5. OverlapInv'
  BY DEF OverlapInv, Holds, TypeOK
<1>6. QED
  BY <1>2, <1>3, <1>4, <1>5

(* The second read: a second holder makes the link overlapped, and a link   *)
(* read as unused has not been accepted.                                    *)
LEMMA LookupInv ==
    ASSUME IInv, NEW r \in Requests, Lookup(r)
    PROVE  IInv'
<1> DEFINE i == call[r].token
<1> USE ConstantsAssumption
    DEF IInv, Lookup, Silence, tableVars, LinkIds, NoLink
<1>1. i \in 1..created /\ i \in LinkIds /\ magic_links[i].is_used \in BOOLEAN
  BY DEF CallInv, TypeOK, Link
<1>2. TypeOK'
  <2>1. [call[r] EXCEPT !.pc = "check", !.is_used = magic_links[i].is_used,
                        !.began = now] \in Call
    <3>1. call[r] \in Call /\ now \in Nat
      BY DEF TypeOK
    <3>2. QED
      BY <1>1, <3>1 DEF Call
  <2>2. call' = [call EXCEPT ![r] =
          [call[r] EXCEPT !.pc = "check", !.is_used = magic_links[i].is_used,
                          !.began = now]]
    BY DEF TypeOK
  <2>3. call' \in [Requests -> Call]
    BY <2>1, <2>2 DEF TypeOK
  <2>4. overlapped' \in SUBSET LinkIds
    BY <1>1 DEF TypeOK
  <2>5. QED
    BY <2>3, <2>4 DEF TypeOK, NoPage
<1>3. CallInv'
  <2>1. \A q \in Requests \ {r} : call'[q] = call[q]
    BY DEF TypeOK
  <2>2. call'[r].pc = "check" /\ call'[r].token = i /\ call'[r].began = now
    BY DEF TypeOK, Call
  <2>3. now \in Nat
    BY DEF TypeOK
  <2>4. UNCHANGED <<now, created, magic_links>>
    OBVIOUS
  <2> HIDE DEF Lookup
  <2>5. QED
    BY <1>1, <2>1, <2>2, <2>3, <2>4 DEF CallInv
<1>4. HistoryInv'
  BY DEF HistoryInv
<1>5. OverlapInv'
  <2> SUFFICES ASSUME NEW j \in LinkIds \ overlapped'
               PROVE  /\ accepted[j] <= 1
                      /\ \A s, q \in Requests :
                            Holds(s, j)' /\ Holds(q, j)' => s = q
                      /\ \A s \in Requests : Holds(s, j)' => accepted[j] = 0
    BY DEF OverlapInv
  <2>1. j \notin overlapped
    OBVIOUS
  <2>2. \A s \in Requests \ {r} : Holds(s, j)' <=> Holds(s, j)
    BY DEF Holds, TypeOK
  <2>3. Holds(r, j)' => j = i /\ ~magic_links[i].is_used
    BY DEF Holds, TypeOK
  <2>4. CASE j = i /\ ~magic_links[i].is_used
    <3>1. \A q \in Requests \ {r} : ~Holds(q, j)
      BY <2>4
    <3>2. accepted[j] = 0
      BY <2>4, <1>1 DEF HistoryInv, TypeOK
    <3>3. QED
      BY <2>1, <2>2, <3>1, <3>2
  <2>5. CASE ~(j = i /\ ~magic_links[i].is_used)
    BY <2>1, <2>2, <2>3, <2>5 DEF OverlapInv
  <2>6. QED
    BY <2>4, <2>5
<1>6. QED
  BY <1>2, <1>3, <1>4, <1>5

(* The checks: a call goes on only with a link read unused and in time.     *)
LEMMA CheckInv ==
    ASSUME IInv, NEW r \in Requests, Check(r)
    PROVE  IInv'
<1>1. CASE call[r].is_used \/ Expired(r)
  BY <1>1, RespondInv DEF Check
<1>2. CASE ~call[r].is_used /\ ~Expired(r)
  <2> USE <1>2, ConstantsAssumption
      DEF IInv, Check, Goto, Silence, tableVars, histVars, LinkIds, NoLink
  <2>1. TypeOK'
    <3>1. call[r] \in Call
      BY DEF TypeOK
    <3>2. [call[r] EXCEPT !.pc = "mark"] \in Call
      BY <3>1 DEF Call
    <3>3. call' = [call EXCEPT ![r] = [call[r] EXCEPT !.pc = "mark"]]
      BY DEF TypeOK
    <3>4. QED
      BY <3>2, <3>3 DEF TypeOK, NoPage
  <2>2. call[r].began <= magic_links[call[r].token].expires_at
    <3>1. call[r].token \in LinkIds
      BY DEF CallInv, TypeOK
    <3>2. magic_links[call[r].token].expires_at \in Nat /\ now \in Nat
      BY <3>1 DEF TypeOK, Link
    <3>3. call[r].began \in Nat /\ call[r].began <= now
      BY DEF CallInv, TypeOK, Call
    <3>4. QED
      BY <3>2, <3>3 DEF Expired
  <2>3. CallInv'
    <3>1. /\ call'[r].began = call[r].began
          /\ call'[r].token = call[r].token
          /\ call'[r].is_used = call[r].is_used
          /\ call'[r].pc = "mark"
      BY DEF TypeOK, Call
    <3>2. \A s \in Requests \ {r} : call'[s] = call[s]
      BY DEF TypeOK
    <3>3. QED
      BY <2>2, <3>1, <3>2 DEF CallInv
  <2>4. HistoryInv'
    BY DEF HistoryInv
  <2>5. \A s \in Requests, j \in LinkIds : Holds(s, j)' <=> Holds(s, j)
    <3>1. /\ call'[r].token = call[r].token
          /\ call'[r].is_used = call[r].is_used
          /\ call'[r].pc = "mark"
      BY DEF TypeOK, Call
    <3>2. \A s \in Requests \ {r} : call'[s] = call[s]
      BY DEF TypeOK
    <3>3. QED
      BY <3>1, <3>2 DEF Holds
  <2>6. OverlapInv'
    BY <2>5 DEF OverlapInv
  <2>7. QED
    BY <2>1, <2>3, <2>4, <2>6
<1>3. QED
  BY <1>1, <1>2

(* The link of r is marked used, r answers and lets go of it; it gains at   *)
(* most one acceptance and at most one report with it.                      *)
LEMMA MarkInv ==
    ASSUME IInv, NEW r \in Requests, NEW p \in {"verified", "expired"},
           call[r].pc = "mark",
           magic_links' = [magic_links EXCEPT ![call[r].token].is_used = TRUE],
           \/ UNCHANGED <<accepted, reported>>
           \/ /\ accepted' = [accepted EXCEPT ![call[r].token] = @ + 1]
              /\ Report(r),
           Respond(r, p), UNCHANGED <<now, created, overlapped>>
    PROVE  IInv'
<1> DEFINE i == call[r].token
<1> USE ConstantsAssumption DEF IInv, Respond, LinkIds, NoLink
<1>1. i \in 1..created /\ i \in LinkIds /\ Holds(r, i)
  BY DEF CallInv, TypeOK, Holds
<1>2. \A j \in LinkIds : accepted[j] \in Nat /\ reported[j] \in Nat
  BY DEF TypeOK
<1>3. \A j \in LinkIds :
        /\ accepted'[j] \in {accepted[j], accepted[j] + 1}
        /\ reported'[j] \in {reported[j], reported[j] + 1}
        /\ j # i => accepted'[j] = accepted[j]
        /\ reported'[j] = reported[j] \/ accepted'[j] = accepted[j] + 1
  <2>1. reported' \in {reported, [reported EXCEPT ![i] = @ + 1]}
    BY DEF Report
  <2>2. CASE UNCHANGED <<accepted, reported>>
    BY <2>2
  <2>3. CASE accepted' = [accepted EXCEPT ![i] = @ + 1]
    BY <1>1, <2>1, <2>3 DEF TypeOK
  <2>4. QED
    BY <2>2, <2>3
<1>4. \A j \in LinkIds :
        /\ magic_links'[j].expires_at = magic_links[j].expires_at
        /\ j = i => magic_links'[j].is_used
        /\ j # i => magic_links'[j] = magic_links[j]
        /\ magic_links'[j] \in Link
  <2>1. magic_links' = [magic_links EXCEPT
                          ![i] = [magic_links[i] EXCEPT !.is_used = TRUE]]
    BY DEF TypeOK
  <2>2. magic_links[i] \in Link
    BY <1>1 DEF TypeOK
  <2>3. [magic_links[i] EXCEPT !.is_used = TRUE] \in Link
    BY <2>2 DEF Link
  <2>4. \A j \in LinkIds : magic_links[j] \in Link
    BY DEF TypeOK
  <2>5. ASSUME NEW j \in LinkIds, j # i
        PROVE  magic_links'[j] = magic_links[j]
    BY <2>1, <2>5 DEF TypeOK
  <2>6. magic_links'[i] = [magic_links[i] EXCEPT !.is_used = TRUE]
    BY <1>1, <2>1 DEF TypeOK
  <2>7. /\ [magic_links[i] EXCEPT !.is_used = TRUE].is_used = TRUE
        /\ [magic_links[i] EXCEPT !.is_used = TRUE].expires_at
              = magic_links[i].expires_at
    BY <2>2 DEF Link
  <2>8. QED
    BY <2>3, <2>4, <2>5, <2>6, <2>7
<1>5. accepted' \in [LinkIds -> Nat] /\ reported' \in [LinkIds -> Nat]
  <2>1. accepted' \in {accepted, [accepted EXCEPT ![i] = @ + 1]}
    OBVIOUS
  <2>2. reported' \in {reported, [reported EXCEPT ![i] = @ + 1]}
    BY DEF Report
  <2>3. accepted' \in [LinkIds -> Nat]
    BY <1>2, <2>1 DEF TypeOK
  <2>4. reported' \in [LinkIds -> Nat]
    BY <1>2, <2>2 DEF TypeOK
  <2>5. QED
    BY <2>3, <2>4
<1>6. TypeOK'
  <2>1. magic_links' \in [LinkIds -> Link]
    BY <1>4 DEF TypeOK
  <2>2. QED
    BY <1>5, <2>1 DEF TypeOK, NoPage, IdleCall, Call
<1>7. CallInv'
  <2>1. \A s \in Requests : call[s].token \in LinkIds \/ call[s].token = NoLink
    BY DEF TypeOK, Call
  <2>2. QED
    BY <1>4, <2>1 DEF CallInv, TypeOK, IdleCall
<1>8. HistoryInv'
  <2> SUFFICES ASSUME NEW j \in LinkIds
               PROVE  /\ accepted'[j] > 0 => magic_links'[j].is_used
                      /\ reported'[j] <= accepted'[j]
                      /\ j > created => accepted'[j] = 0
    BY DEF HistoryInv
  <2>1. reported'[j] <= accepted'[j]
    BY <1>2, <1>3 DEF HistoryInv
  <2>2. CASE j = i
    <3>1. ~(j > created)
      BY <1>1, <2>2 DEF TypeOK
    <3>2. magic_links'[j].is_used
      BY <1>4, <2>2
    <3>3. QED
      BY <2>1, <3>1, <3>2
  <2>3. CASE j # i
    <3>1. accepted'[j] = accepted[j]
      BY <1>3, <2>3
    <3>2. magic_links'[j].is_used = magic_links[j].is_used
      BY <2>3, <1>4
    <3>3. QED
      BY <2>1, <3>1, <3>2 DEF HistoryInv
  <2>4. QED
    BY <2>2, <2>3
<1>9. OverlapInv'
  <2> SUFFICES ASSUME NEW j \in LinkIds \ overlapped
               PROVE  /\ accepted'[j] <= 1
                      /\ \A s, q \in Requests :
                            Holds(s, j)' /\ Holds(q, j)' => s = q
                      /\ \A s \in Requests : Holds(s, j)' => accepted'[j] = 0
    BY DEF OverlapInv
  <2>1. \A s \in Requests : Holds(s, j)' => Holds(s, j) /\ s # r
    BY DEF Holds, TypeOK, IdleCall
  <2>2. CASE j = i
    <3>1. \A s \in Requests : ~Holds(s, j)'
      BY <1>1, <2>1, <2>2 DEF OverlapInv
    <3>2. accepted[j] = 0
      BY <1>1, <2>2 DEF OverlapInv
    <3>3. QED
      BY <3>1, <3>2, <1>3
  <2>3. CASE j # i
    BY <1>3, <2>1, <2>3 DEF OverlapInv
  <2>4. QED
    BY <2>2, <2>3
<1>10. QED
  BY <1>6, <1>7, <1>8, <1>9

(* Time only brings links closer to their expiry.                           *)
LEMMA TickInv == IInv /\ Tick => IInv'
<1> SUFFICES ASSUME IInv, Tick PROVE IInv'
  OBVIOUS
<1> USE ConstantsAssumption DEF IInv, Tick, Silence, tableVars, histVars
<1>1. TypeOK'
  BY DEF TypeOK, NoPage
<1>2. CallInv'
  BY DEF CallInv, TypeOK, Call
<1>3. HistoryInv' /\ OverlapInv'
  BY DEF HistoryInv, OverlapInv, Holds
<1>4. QED
  BY <1>1, <1>2, <1>3

(* MarkUsed under either schema.                                            *)
LEMMA MarkUsedInv ==
    ASSUME IInv, NEW r \in Requests, MarkUsed(r)
    PROVE  IInv'
<1>1. CASE "used_at" \in Schema
  BY <1>1, MarkInv DEF MarkUsed
<1>2. CASE "used_at" \notin Schema
  BY <1>2, RespondInv DEF MarkUsed, tableVars, histVars
<1>3. QED
  BY <1>1, <1>2

(* Every step of the API and of time keeps the invariant.                   *)
LEMMA NextInv == IInv /\ [Next]_vars => IInv'
<1> SUFFICES ASSUME IInv, [Next]_vars PROVE IInv'
  OBVIOUS
<1>1. CASE UNCHANGED vars
  BY <1>1 DEF vars, tableVars, histVars, IInv, TypeOK, CallInv, HistoryInv,
              OverlapInv, Holds
<1>2. CASE Reliable
  <2>1. ASSUME NEW p \in Projects, NEW url \in {"url", "null"},
               CreateMagicLink(p, url)
        PROVE  IInv'
    BY <2>1, CreateInv
  <2>2. ASSUME NEW r \in Requests, NEW t \in (1..created) \union {NoLink},
               NEW p \in Projects, Arrive(r, t, p)
        PROVE  IInv'
    BY <2>2, ArriveInv
  <2>3. ASSUME NEW r \in Requests, Step(r) PROVE IInv'
    <3>1. CASE Lookup(r)
      BY <3>1, LookupInv
    <3>2. CASE LookupNone(r)
      BY <3>2, RespondInv DEF LookupNone
    <3>3. CASE Check(r)
      BY <3>3, CheckInv
    <3>4. CASE MarkUsed(r)
      BY <3>4, MarkUsedInv
    <3>5. QED
      BY <2>3, <3>1, <3>2, <3>3, <3>4 DEF Step
  <2>4. QED
    BY <1>2, <2>1, <2>2, <2>3, TickInv DEF Reliable
<1>3. CASE Faulty
  <2>1. ASSUME NEW p \in Projects, CreateUnacknowledged(p) PROVE IInv'
    BY <2>1, NewLinkInv DEF CreateUnacknowledged
  <2>2. ASSUME NEW r \in Requests, NEW t \in (1..created) \union {NoLink},
               Arrive(r, t, NoProject)
        PROVE  IInv'
    BY <2>2, ArriveInv
  <2>3. ASSUME NEW r \in Requests, StatementFails(r) PROVE IInv'
    BY <2>3, RespondInv DEF StatementFails
  <2>4. ASSUME NEW r \in Requests, MarkUnacknowledged(r) PROVE IInv'
    BY <2>4, MarkInv DEF MarkUnacknowledged, histVars
  <2>5. ASSUME NEW r \in Requests, Crash(r) PROVE IInv'
    BY <2>5, RespondInv DEF Crash
  <2>6. QED
    BY <1>3, <2>1, <2>2, <2>3, <2>4, <2>5 DEF Faulty
<1>4. QED
  BY <1>1, <1>2, <1>3 DEF Next

(* The inductive invariant holds in every reachable state.                  *)
THEOREM Invariance == Spec => []IInv
  BY InitInv, NextInv, PTL DEF Spec

(* Type correctness, whatever the schema and however many calls overlap.    *)
THEOREM TypeCorrect == Spec => []TypeOK
<1>1. IInv => TypeOK
  BY DEF IInv
<1>2. QED
  BY Invariance, <1>1, PTL

(* A link that no two calls of GET /magic/verify hold at once is accepted   *)
(* at most once, and reported to its project no more often than accepted.   *)
THEOREM AloneIsOnce == Spec => []OnceWithoutOverlap
<1>1. IInv => OnceWithoutOverlap
  BY DEF IInv, HistoryInv, OverlapInv, OnceWithoutOverlap
<1>2. QED
  BY Invariance, <1>1, PTL

(* Only MarkUsed gives an acceptance, and it gives it to a call that holds  *)
(* the link's token and read the link before it expired.                    *)
THEOREM AcceptanceIsJustified == Spec => AcceptOnlyTheHolder
<1> DEFINE A == \A i \in LinkIds : accepted'[i] # accepted[i] =>
        \E r \in Requests :
            /\ page'[r] = "verified" /\ call[r].token = i
            /\ call[r].began <= magic_links[i].expires_at
<1>1. IInv /\ [Next]_vars => [A]_vars
  <2> SUFFICES ASSUME IInv, Next PROVE A
    OBVIOUS
  <2>1. CASE UNCHANGED accepted
    BY <2>1
  <2>2. ASSUME NEW r \in Requests, MarkUsed(r), ~UNCHANGED accepted PROVE A
    <3>1. /\ call[r].pc = "mark"
          /\ accepted' = [accepted EXCEPT ![call[r].token] = @ + 1]
          /\ page' = [NoPage EXCEPT ![r] = "verified"]
      BY <2>2 DEF MarkUsed, Respond
    <3>2. page'[r] = "verified"
      BY <3>1 DEF NoPage
    <3>3. call[r].began <= magic_links[call[r].token].expires_at
      BY <3>1 DEF IInv, CallInv
    <3>4. \A i \in LinkIds : accepted'[i] # accepted[i] => i = call[r].token
      BY <3>1 DEF IInv, TypeOK
    <3>5. QED
      BY <3>2, <3>3, <3>4
  <2>3. QED
    BY <2>1, <2>2 DEF Next, Reliable, Faulty, Step, CreateMagicLink,
       CreateUnacknowledged, Arrive, Lookup, LookupNone, Check,
       StatementFails, MarkUnacknowledged, Crash, Tick, histVars
<1>2. QED
  BY <1>1, Invariance, PTL DEF Spec, AcceptOnlyTheHolder

-----------------------------------------------------------------------------

(* MagicLink implements SingleUseToken: a call that reads a link after it   *)
(* was accepted is not accepted.                                            *)
Redeeming == [r \in Requests |-> Redeemed(call[r])]
AcceptedIds == {i \in LinkIds : accepted[i] > 0}

(* Nobody redeems and nothing is accepted when there is no link.            *)
LEMMA TokenInit == Init => Token!Init
<1> SUFFICES ASSUME Init PROVE Token!Init
  OBVIOUS
<1>1. Redeeming = [r \in Requests |-> NoLink]
  BY IdleCallType DEF Init, Redeeming, Redeemed
<1>2. AcceptedIds = {}
  BY DEF Init, AcceptedIds
<1>3. QED
  BY <1>1, <1>2 DEF Token!Init, Redeeming, AcceptedIds

(* One call changes and nothing is accepted: it still redeems what it did,  *)
(* or it gives up.                                                          *)
LEMMA KeepsOrGivesUp ==
    ASSUME IInv, NEW r \in Requests, NEW c, call' = [call EXCEPT ![r] = c],
           Redeemed(c) \in {Redeemed(call[r]), NoLink}, UNCHANGED accepted
    PROVE  [Token!Next]_(Token!tokenVars)
<1>1. AcceptedIds' = AcceptedIds
  BY DEF AcceptedIds
<1>2. Redeeming' = [Redeeming EXCEPT ![r] = Redeemed(c)]
  BY DEF IInv, TypeOK, Redeeming
<1>3. CASE Redeemed(c) = Redeemed(call[r])
  <2>1. Redeeming' = Redeeming
    BY <1>2, <1>3 DEF Redeeming
  <2>2. QED
    BY <1>1, <2>1 DEF Token!tokenVars, Redeeming, AcceptedIds
<1>4. CASE Redeemed(c) = NoLink /\ Redeemed(call[r]) # NoLink
  <2>1. Token!GiveUp(r)
    BY <1>1, <1>2, <1>4 DEF Token!GiveUp, Redeeming, AcceptedIds
  <2>2. QED
    BY <2>1 DEF Token!Next
<1>5. QED
  BY <1>3, <1>4

(* Each statement of a verify call is a Begin, an Accept, a GiveUp of       *)
(* SingleUseToken or a stutter.                                             *)
LEMMA TokenStep == IInv /\ [Next]_vars => [Token!Next]_(Token!tokenVars)
<1> SUFFICES ASSUME IInv, [Next]_vars PROVE [Token!Next]_(Token!tokenVars)
  OBVIOUS
<1>1. CASE UNCHANGED call /\ UNCHANGED accepted
  <2>1. Redeeming' = Redeeming /\ AcceptedIds' = AcceptedIds
    BY <1>1 DEF Redeeming, AcceptedIds
  <2>2. QED
    BY <2>1 DEF Token!tokenVars, Redeeming, AcceptedIds
<1>2. Redeemed(IdleCall) = NoLink
  BY IdleCallType DEF Redeemed
<1>3. ASSUME NEW r \in Requests, NEW t, NEW p, Arrive(r, t, p)
      PROVE  [Token!Next]_(Token!tokenVars)
  <2> DEFINE c == [pc |-> "lookup", token |-> t, project_id |-> p,
                   is_used |-> FALSE, began |-> 0]
  <2>1. Redeemed(c) = NoLink
    BY DEF Redeemed
  <2>2. call' = [call EXCEPT ![r] = c] /\ UNCHANGED accepted
    BY <1>3 DEF Arrive, histVars
  <2>3. QED
    BY <2>1, <2>2, KeepsOrGivesUp
<1>4. ASSUME NEW r \in Requests, Lookup(r)
      PROVE  [Token!Next]_(Token!tokenVars)
  <2> DEFINE i == call[r].token
             c == [call[r] EXCEPT !.pc = "check",
                                  !.is_used = magic_links[i].is_used,
                                  !.began = now]
  <2>1. call[r] \in Call /\ i \in LinkIds /\ i # NoLink
    BY <1>4, ConstantsAssumption
       DEF Lookup, IInv, TypeOK, CallInv, Call, LinkIds, NoLink
  <2>2. call' = [call EXCEPT ![r] = c] /\ UNCHANGED accepted
    BY <1>4 DEF Lookup, IInv, TypeOK
  <2>3. Redeemed(call[r]) = NoLink
    BY <1>4 DEF Lookup, Redeemed
  <2>4. Redeemed(c) = IF ~magic_links[i].is_used THEN i ELSE NoLink
    <3>1. /\ c.pc = "check" /\ c.token = i
          /\ c.is_used = magic_links[i].is_used
      BY <2>1 DEF Call
    <3>2. QED
      BY <3>1 DEF Redeemed
  <2>5. CASE magic_links[i].is_used
    BY <2>2, <2>4, <2>5, KeepsOrGivesUp
  <2>6. CASE ~magic_links[i].is_used
    <3>1. i \notin AcceptedIds
      BY <2>6 DEF AcceptedIds, IInv, HistoryInv
    <3>2. AcceptedIds' = AcceptedIds
      BY <2>2 DEF AcceptedIds
    <3>3. Redeeming' = [Redeeming EXCEPT ![r] = i]
      BY <2>2, <2>4, <2>6 DEF IInv, TypeOK, Redeeming
    <3>4. Token!Begin(r, i)
      BY <2>3, <3>1, <3>2, <3>3 DEF Token!Begin, Redeeming, AcceptedIds
    <3>5. QED
      BY <2>1, <3>4 DEF Token!Next
  <2>7. QED
    BY <2>5, <2>6
<1>5. ASSUME NEW r \in Requests, Check(r)
      PROVE  [Token!Next]_(Token!tokenVars)
  <2>1. CASE call' = [call EXCEPT ![r] = IdleCall]
    BY <1>2, <1>5, <2>1, KeepsOrGivesUp DEF Check, histVars
  <2>2. CASE call' = [call EXCEPT ![r].pc = "mark"]
    <3> DEFINE c == [call[r] EXCEPT !.pc = "mark"]
    <3>1. call' = [call EXCEPT ![r] = c] /\ UNCHANGED accepted
      BY <1>5, <2>2 DEF Check, histVars, IInv, TypeOK
    <3>2. call[r] \in Call /\ call[r].pc = "check"
      BY <1>5 DEF Check, IInv, TypeOK
    <3>3. c.pc = "mark" /\ c.token = call[r].token /\ c.is_used = call[r].is_used
      BY <3>2 DEF Call
    <3>4. Redeemed(c) = Redeemed(call[r])
      BY <3>2, <3>3 DEF Redeemed
    <3>5. QED
      BY <3>1, <3>4, KeepsOrGivesUp
  <2>3. QED
    BY <1>5, <2>1, <2>2 DEF Check, Respond, Goto
<1>6. ASSUME NEW r \in Requests, MarkUsed(r), ~UNCHANGED accepted
      PROVE  [Token!Next]_(Token!tokenVars)
  <2> DEFINE i == call[r].token
  <2>1. /\ call' = [call EXCEPT ![r] = IdleCall]
        /\ accepted' = [accepted EXCEPT ![i] = @ + 1]
    BY <1>6 DEF MarkUsed, Respond
  <2>2. i \in LinkIds /\ i # NoLink /\ Redeemed(call[r]) = i
    BY <1>6, ConstantsAssumption
       DEF MarkUsed, IInv, TypeOK, CallInv, LinkIds, NoLink, Redeemed
  <2>3. AcceptedIds' = AcceptedIds \union {i}
    BY <2>1, <2>2 DEF AcceptedIds, IInv, TypeOK
  <2>4. Redeeming' = [Redeeming EXCEPT ![r] = NoLink]
    BY <1>2, <2>1 DEF IInv, TypeOK, Redeeming
  <2>5. Token!Accept(r)
    BY <2>2, <2>3, <2>4 DEF Token!Accept, Redeeming, AcceptedIds
  <2>6. QED
    BY <2>5 DEF Token!Next
<1>7. ASSUME NEW r \in Requests, call' = [call EXCEPT ![r] = IdleCall],
             UNCHANGED accepted
      PROVE  [Token!Next]_(Token!tokenVars)
  BY <1>2, <1>7, KeepsOrGivesUp
<1>8. CASE Reliable
  <2>1. ASSUME NEW r \in Requests, Step(r)
        PROVE  [Token!Next]_(Token!tokenVars)
    <3>1. CASE LookupNone(r)
      BY <1>7, <3>1 DEF LookupNone, Respond, histVars
    <3>2. CASE MarkUsed(r)
      BY <1>6, <1>7, <3>2 DEF MarkUsed, Respond
    <3>3. QED
      BY <1>4, <1>5, <2>1, <3>1, <3>2 DEF Step
  <2>2. QED
    BY <1>1, <1>3, <1>8, <2>1 DEF Reliable, CreateMagicLink, Tick, histVars
<1>9. CASE Faulty
  <2>1. ASSUME NEW r \in Requests,
               StatementFails(r) \/ MarkUnacknowledged(r) \/ Crash(r)
        PROVE  [Token!Next]_(Token!tokenVars)
    BY <1>7, <2>1
       DEF StatementFails, MarkUnacknowledged, Crash, Respond, histVars
  <2>2. QED
    BY <1>1, <1>3, <1>9, <2>1 DEF Faulty, CreateUnacknowledged, histVars
<1>10. QED
  BY <1>1, <1>8, <1>9 DEF Next, vars, histVars

(* The magic links implement SingleUseToken: once a link was accepted, no   *)
(* call that reads the table afterwards is accepted with it.                *)
THEOREM Refinement == Spec => SingleUse
<1>1. Spec => Token!Init /\ [][Token!Next]_(Token!tokenVars)
  BY TokenInit, TokenStep, Invariance, PTL DEF Spec
<1>2. QED
  BY <1>1 DEF SingleUse, Token!Spec

-----------------------------------------------------------------------------
(* What the used_at column decides.                                         *)

\* No link is ever marked used, and no call is ever answered "verified".
NothingVerifies ==
    /\ \A i \in LinkIds : accepted[i] = 0 /\ ~magic_links[i].is_used
    /\ \A r \in Requests : page[r] # "verified"

(* On a table with the column the code writes, and with no fault anywhere, a *)
(* call that passed the checks is not refused, as magic.py:201 says: the     *)
(* missing column is all that the finding about the page is about.           *)
THEOREM ColumnLetsValidLinksVerify ==
    ASSUME "used_at" \in Schema PROVE ReliableSpec => ValidLinkVerifies
<1> DEFINE Answers ==
        \A r \in Requests : call[r].pc = "mark" => page'[r] # "expired"
<1>1. ASSUME Reliable PROVE Answers
  <2>1. ASSUME page' = NoPage PROVE Answers
    BY <2>1 DEF NoPage
  <2>2. ASSUME NEW q \in Requests, NEW p, Respond(q, p),
               p = "expired" => call[q].pc # "mark"
        PROVE  Answers
    BY <2>2 DEF Respond, NoPage
  <2>3. ASSUME NEW q \in Requests, Step(q) PROVE Answers
    <3>1. CASE Lookup(q)
      BY <2>1, <3>1 DEF Lookup, Silence
    <3>2. CASE LookupNone(q)
      BY <2>2, <3>2 DEF LookupNone
    <3>3. CASE Check(q)
      BY <2>1, <2>2, <3>3 DEF Check, Goto, Silence
    <3>4. CASE MarkUsed(q)
      BY <2>2, <3>4 DEF MarkUsed
    <3>5. QED
      BY <2>3, <3>1, <3>2, <3>3, <3>4 DEF Step
  <2>4. QED
    BY <1>1, <2>1, <2>3 DEF Reliable, CreateMagicLink, Arrive, Tick, Silence
<1>2. [Reliable]_vars => [Answers]_vars
  BY <1>1
<1>3. QED
  BY <1>2, PTL DEF ReliableSpec, ValidLinkVerifies

(* On a table without it, such as the shipped one, no link ever verifies,    *)
(* whoever calls when and whatever fails: the finding is not an interleaving *)
(* but what every link meets.                                                *)
THEOREM NoColumnNothingVerifies ==
    ASSUME "used_at" \notin Schema PROVE Spec => []NothingVerifies
<1>1. Init => NothingVerifies
  BY DEF Init, NothingVerifies, NewLink, NoPage
<1>2. NothingVerifies /\ IInv /\ [Next]_vars => NothingVerifies'
  <2> SUFFICES ASSUME NothingVerifies, IInv, [Next]_vars PROVE NothingVerifies'
    OBVIOUS
  <2>1. ASSUME UNCHANGED <<accepted, magic_links>>,
               \/ page' = NoPage \/ page' = page
               \/ \E q \in Requests, p \in {"none", "expired"} : Respond(q, p)
        PROVE  NothingVerifies'
    BY <2>1 DEF NothingVerifies, NoPage, Respond
  <2>2. ASSUME NEW p, magic_links' = [magic_links EXCEPT ![created + 1] = NewLink(p)],
               accepted' = accepted, page' = NoPage
        PROVE  NothingVerifies'
    BY <2>2 DEF NothingVerifies, NoPage, NewLink, IInv, TypeOK
  <2>3. ASSUME NEW q \in Requests, Step(q) \/ StatementFails(q) \/ Crash(q)
        PROVE  NothingVerifies'
    <3> USE DEF tableVars, histVars
    <3>1. CASE Lookup(q)
      BY <2>1, <3>1 DEF Lookup, Silence
    <3>2. CASE LookupNone(q) \/ StatementFails(q) \/ Crash(q)
      BY <2>1, <3>2 DEF LookupNone, StatementFails, Crash
    <3>3. CASE Check(q)
      BY <2>1, <3>3 DEF Check, Goto, Silence
    <3>4. CASE MarkUsed(q)
      BY <2>1, <3>4 DEF MarkUsed
    <3>5. QED
      BY <2>3, <3>1, <3>2, <3>3, <3>4 DEF Step
  <2>4. ASSUME NEW p \in Projects, NEW url,
               CreateMagicLink(p, url) \/ CreateUnacknowledged(p)
        PROVE  NothingVerifies'
    BY <2>1, <2>2, <2>4
       DEF CreateMagicLink, CreateUnacknowledged, tableVars, histVars
  <2>5. ASSUME NEW q, NEW t, NEW p, Arrive(q, t, p) PROVE NothingVerifies'
    BY <2>1, <2>5 DEF Arrive, Silence, tableVars, histVars
  <2>6. CASE Tick \/ UNCHANGED vars
    BY <2>1, <2>6 DEF Tick, Silence, vars, tableVars, histVars
  <2>7. QED
    BY <2>3, <2>4, <2>5, <2>6 DEF Next, Reliable, Faulty, MarkUnacknowledged
<1>3. QED
  BY <1>1, <1>2, Invariance, PTL DEF Spec

=============================================================================
