---------------------------- MODULE OtpLifecycle ----------------------------
(***************************************************************************)
(* The life of one-time passwords: core/otp.py (save_otp,                  *)
(* verify_and_consume) over the otp_records table of core/db.py, called by *)
(* concurrent POST /otp/send and /otp/verify requests                      *)
(* (apps/api/routes/otp.py), with the worker's purge cron                  *)
(* (apps/worker/tasks/purge_otps.py) beside them.                          *)
(*                                                                         *)
(* One action is one database statement, or the local code between two of  *)
(* them.  verify_and_consume holds no lock and opens no transaction (each  *)
(* statement is an HTTP call to Supabase of its own, made from a thread of *)
(* the API), so other requests, the cron and the clock interleave between  *)
(* the read, the two updates and the answer.  A statement takes effect, if *)
(* at all, before its caller sees a result or an exception.                *)
(***************************************************************************)
EXTENDS Integers

CONSTANTS
    Requests,     \* slots for concurrent verify calls, over all API processes
    Sends,        \* slots for concurrent send calls
    None,         \* no row
    Scopes,       \* the (project_id, email_hash) pairs
    Codes,        \* OTP codes; bcrypt is an injective hash of them
    MaxAttempts,  \* projects.otp_max_attempts
    Expiry,       \* projects.otp_expiry_seconds, in ticks
    MaxOtps,      \* bound: rows ever inserted
    MaxTime       \* bound: ticks of the clock

ASSUME ConstantsAssumption ==
    /\ Scopes # {} /\ Codes # {}
    /\ MaxAttempts \in Nat \ {0}
    /\ Expiry \in Nat /\ MaxOtps \in Nat /\ MaxTime \in Nat

VARIABLES
    now,          \* the clock every process reads: datetime.now(UTC), SQL now()
    issued,       \* rows ever inserted; their ids are 1..issued, by created_at
    otp_records,  \* ids of the rows in the table
    rec,          \* contents of every row (kept, as history, once deleted)
    unsaved,      \* per send call, the row it has computed and not inserted
    call,         \* local variables and control state of each request
    answer        \* what the latest step answered to each request

VARIABLES         \* history, for the properties
    comparisons,  \* submissions compared with each OTP's hash
    accepted,     \* "verified" answers given for each OTP
    overlapped    \* OTPs that two calls have held at the same time

tableVars == <<issued, otp_records, rec>>
histVars == <<comparisons, accepted, overlapped>>
vars == <<now, tableVars, unsaved, call, answer, histVars>>

NoOtp == 0
OtpIds == 1..MaxOtps

Record == [scope : Scopes, otp_hash : Codes, attempt_count : 0..MaxAttempts,
           is_verified : BOOLEAN, is_invalidated : BOOLEAN, expires_at : Nat]

\* row and attempt_count are what get_active_otp returned.  began (the time of
\* that read) and newest (the newest row at that time) are history.
Call == [pc : {"idle", "check", "count", "consume"},
         scope : Scopes, submitted : Codes,
         row : OtpIds \union {NoOtp}, attempt_count : 0..MaxAttempts,
         began : Nat, newest : OtpIds \union {NoOtp}]

Answers == {"none", "verified", "otp_expired", "account_locked",
            "invalid_code", "service_unavailable"}

\* The row save_otp computes; expires_at comes from the clock of the API.
NewRecord(s, c) ==
    [scope |-> s, otp_hash |-> c, attempt_count |-> 0, is_verified |-> FALSE,
     is_invalidated |-> FALSE, expires_at |-> now + Expiry]

IdleCall ==
    [pc |-> "idle", scope |-> CHOOSE s \in Scopes : TRUE,
     submitted |-> CHOOSE c \in Codes : TRUE, row |-> NoOtp,
     attempt_count |-> 0, began |-> 0, newest |-> NoOtp]

Silence == [r \in Requests |-> "none"]

Holds(r, i) == call[r].pc # "idle" /\ call[r].row = i

Init ==
    /\ now = 0
    /\ issued = 0
    /\ otp_records = {}
    /\ rec = [i \in OtpIds |-> NewRecord(IdleCall.scope, IdleCall.submitted)]
    /\ unsaved = [w \in Sends |-> None]
    /\ call = [r \in Requests |-> IdleCall]
    /\ answer = Silence
    /\ comparisons = [i \in OtpIds |-> 0]
    /\ accepted = [i \in OtpIds |-> 0]
    /\ overlapped = {}

-----------------------------------------------------------------------------
(* Issuing: POST /otp/send up to save_otp, which reads the clock of its     *)
(* API process before the database gives the row its created_at.  Sends     *)
(* that overlap may do the one in another order than the other.             *)

\* The argument of insert_otp_record: the hash, and the clock for expires_at.
ComputeRow(w, s, c) ==
    /\ unsaved[w] = None /\ issued < MaxOtps
    /\ unsaved' = [unsaved EXCEPT ![w] = NewRecord(s, c)]
    /\ answer' = Silence
    /\ UNCHANGED <<now, tableVars, call, histVars>>

\* The insert; also one that is applied but not acknowledged (the route
\* answers 503).
SaveOtp(w) ==
    /\ unsaved[w] # None /\ issued < MaxOtps
    /\ issued' = issued + 1
    /\ otp_records' = otp_records \union {issued + 1}
    /\ rec' = [rec EXCEPT ![issued + 1] = unsaved[w]]
    /\ unsaved' = [unsaved EXCEPT ![w] = None]
    /\ answer' = Silence
    /\ UNCHANGED <<now, call, histVars>>

\* An insert that fails, or whose process stops, changes nothing.
SaveFails(w) ==
    /\ unsaved[w] # None
    /\ unsaved' = [unsaved EXCEPT ![w] = None]
    /\ answer' = Silence
    /\ UNCHANGED <<now, tableVars, call, histVars>>

-----------------------------------------------------------------------------
(* Verifying: POST /otp/verify, verify_and_consume.                         *)

\* The route's response; the slot is free for another call.
Respond(r, a) ==
    /\ answer' = [Silence EXCEPT ![r] = a]
    /\ call' = [call EXCEPT ![r] = IdleCall]

Goto(r, label) ==
    /\ call' = [call EXCEPT ![r].pc = label]
    /\ answer' = Silence

\* Mutants: the filter on is_invalidated, or on the caller's scope, forgotten.
ActiveOtpsConsumedToo(s) ==
    {i \in otp_records : rec[i].scope = s /\ ~rec[i].is_verified}
ActiveOtpsOfAnyone(s) ==
    {i \in otp_records : ~rec[i].is_invalidated /\ ~rec[i].is_verified}

\* The WHERE clause of get_active_otp (expires_at is not part of it).
ActiveOtps(s) ==
    {i \in otp_records : /\ rec[i].scope = s
                         /\ ~rec[i].is_invalidated
                         /\ ~rec[i].is_verified}

\* Mutant: ascending order.
OldestActive(s, i) ==
    /\ i \in ActiveOtps(s)
    /\ \A j \in ActiveOtps(s) : i <= j

\* ORDER BY created_at DESC LIMIT 1.
NewestActive(s, i) ==
    /\ i \in ActiveOtps(s)
    /\ \A j \in ActiveOtps(s) : j <= i

Lookup(r, s, c) ==
    /\ call[r].pc = "idle"
    /\ \E i \in OtpIds :
        /\ NewestActive(s, i)
        /\ call' = [call EXCEPT ![r] =
             [pc |-> "check", scope |-> s, submitted |-> c, row |-> i,
              attempt_count |-> rec[i].attempt_count,
              began |-> now, newest |-> issued]]
        /\ overlapped' = IF \E q \in Requests \ {r} : Holds(q, i)
                         THEN overlapped \union {i} ELSE overlapped
    /\ answer' = Silence
    /\ UNCHANGED <<now, tableVars, unsaved, comparisons, accepted>>

LookupNone(r, s) ==
    /\ call[r].pc = "idle"
    /\ ActiveOtps(s) = {}
    /\ Respond(r, "otp_expired")
    /\ UNCHANGED <<now, tableVars, unsaved, histVars>>

\* The early returns, on the row as it was read.
Expired(r) == now > rec[call[r].row].expires_at

\* Mutant: one comparison too many.
AttemptsOverrun(r) == call[r].attempt_count > MaxAttempts

AttemptsUsedUp(r) == call[r].attempt_count >= MaxAttempts

Check(r) ==
    /\ call[r].pc = "check"
    /\ \/ Expired(r) /\ Respond(r, "otp_expired")
       \/ ~Expired(r) /\ AttemptsUsedUp(r) /\ Respond(r, "account_locked")
       \/ ~Expired(r) /\ ~AttemptsUsedUp(r) /\ Goto(r, "count")
    /\ UNCHANGED <<now, tableVars, unsaved, histVars>>

\* UPDATE ... SET attempt_count = <the count read> + 1: whatever other calls
\* wrote since the read is overwritten.
WriteAttempt(r) ==
    rec' = [rec EXCEPT ![call[r].row].attempt_count = call[r].attempt_count + 1]

\* Mutant: the comparison first, and only wrong codes are counted.
CompareFirst(r) ==
    LET i == call[r].row IN
    /\ call[r].pc = "count"
    /\ i \in otp_records
    /\ comparisons' = [comparisons EXCEPT ![i] = @ + 1]
    /\ IF call[r].submitted = rec[i].otp_hash
       THEN Goto(r, "consume") /\ UNCHANGED rec
       ELSE Respond(r, "invalid_code") /\ WriteAttempt(r)
    /\ UNCHANGED <<now, issued, otp_records, unsaved, accepted, overlapped>>

\* The update, and the comparison that follows it.
CountAttempt(r) ==
    LET i == call[r].row IN
    /\ call[r].pc = "count"
    /\ i \in otp_records
    /\ WriteAttempt(r)
    /\ comparisons' = [comparisons EXCEPT ![i] = @ + 1]
    /\ IF call[r].submitted = rec[i].otp_hash
       THEN Goto(r, "consume")
       ELSE Respond(r, "invalid_code")
    /\ UNCHANGED <<now, issued, otp_records, unsaved, accepted, overlapped>>

\* Mutant: computed from the count that was read, not from the one written.
RemainingBefore(r) == MaxAttempts - call[r].attempt_count

\* attempts_remaining of the invalid_code answer of r.
Remaining(r) == MaxAttempts - (call[r].attempt_count + 1)

\* Mutant: the JWT is issued and the row left as it is.
AcceptOnly(r) ==
    LET i == call[r].row IN
    /\ call[r].pc = "consume"
    /\ i \in otp_records
    /\ accepted' = [accepted EXCEPT ![i] = @ + 1]
    /\ Respond(r, "verified")
    /\ UNCHANGED <<now, issued, otp_records, unsaved, rec, comparisons, overlapped>>

\* The update, the JWT and the answer.
Consume(r) ==
    LET i == call[r].row IN
    /\ call[r].pc = "consume"
    /\ i \in otp_records
    /\ rec' = [rec EXCEPT ![i].is_invalidated = TRUE]
    /\ accepted' = [accepted EXCEPT ![i] = @ + 1]
    /\ Respond(r, "verified")
    /\ UNCHANGED <<now, issued, otp_records, unsaved, comparisons, overlapped>>

\* A statement raises: on the way to the database, or because the row to
\* update has been purged (res.data[0] of an empty result).
StatementFails(r) ==
    /\ call[r].pc \in {"count", "consume"}
    /\ Respond(r, "service_unavailable")
    /\ UNCHANGED <<now, tableVars, unsaved, histVars>>

\* The read raises.
LookupFails(r) ==
    /\ call[r].pc = "idle"
    /\ Respond(r, "service_unavailable")
    /\ UNCHANGED <<now, tableVars, unsaved, histVars>>

\* An update is applied, and the call raises before its result is read.
StatementUnacknowledged(r) ==
    LET i == call[r].row IN
    /\ i \in otp_records
    /\ \/ call[r].pc = "count" /\ WriteAttempt(r)
       \/ /\ call[r].pc = "consume"
          /\ rec' = [rec EXCEPT ![i].is_invalidated = TRUE]
    /\ Respond(r, "service_unavailable")
    /\ UNCHANGED <<now, issued, otp_records, unsaved, histVars>>

\* The API process stops between two statements; nobody gets an answer.
Crash(r) ==
    /\ call[r].pc # "idle"
    /\ Respond(r, "none")
    /\ UNCHANGED <<now, tableVars, unsaved, histVars>>

-----------------------------------------------------------------------------
(* The purge cron of the worker, and time.                                  *)

\* Mutants: rows purged at the tick they expire; consumed rows never purged.
PurgeableAtExpiry(i) == rec[i].expires_at <= now /\ ~rec[i].is_verified
PurgeableUnconsumed(i) == rec[i].expires_at < now /\ ~rec[i].is_invalidated

\* The WHERE clause of the DELETE.
Purgeable(i) == rec[i].expires_at < now /\ ~rec[i].is_verified

PurgeExpiredOtps ==
    /\ otp_records' = {i \in otp_records : ~Purgeable(i)}
    /\ answer' = Silence
    /\ UNCHANGED <<now, issued, rec, unsaved, call, histVars>>

Tick ==
    /\ now < MaxTime
    /\ now' = now + 1
    /\ answer' = Silence
    /\ UNCHANGED <<tableVars, unsaved, call, histVars>>

-----------------------------------------------------------------------------

\* What a request does of itself; the rest is its environment.
Step(r) ==
    \/ Check(r)
    \/ CountAttempt(r)
    \/ Consume(r)
    \/ StatementFails(r)

Verify(r) ==
    \/ \E s \in Scopes : \/ LookupNone(r, s)
                         \/ \E c \in Codes : Lookup(r, s, c)
    \/ LookupFails(r)
    \/ Step(r)
    \/ StatementUnacknowledged(r)
    \/ Crash(r)

Send(w) ==
    \/ \E s \in Scopes, c \in Codes : ComputeRow(w, s, c)
    \/ SaveOtp(w)
    \/ SaveFails(w)

Next ==
    \/ \E w \in Sends : Send(w)
    \/ \E r \in Requests : Verify(r)
    \/ PurgeExpiredOtps
    \/ Tick

Spec == Init /\ [][Next]_vars

\* The cron keeps running and time passes; nothing is asked of any call.
Fairness ==
    /\ WF_vars(PurgeExpiredOtps)
    /\ WF_vars(Tick)

FairSpec == Spec /\ Fairness

-----------------------------------------------------------------------------
(* Properties.                                                              *)

\* Every variable stays within its type; in particular no interleaving of
\* stale writes takes attempt_count past otp_max_attempts.
TypeOK ==
    /\ now \in 0..MaxTime
    /\ issued \in 0..MaxOtps
    /\ otp_records \in SUBSET (1..issued)
    /\ rec \in [OtpIds -> Record]
    /\ unsaved \in [Sends -> Record \union {None}]
    /\ call \in [Requests -> Call]
    /\ answer \in [Requests -> Answers]
    /\ comparisons \in [OtpIds -> Nat]
    /\ accepted \in [OtpIds -> Nat]
    /\ overlapped \in SUBSET OtpIds

\* The purge never takes a code its owner could still enter: a row leaves the
\* table only once verify_and_consume would call it expired, the tick of
\* expires_at included (otp.py uses now > expires, the cron expires < now).
UnexpiredKept ==
    \A i \in 1..issued : now <= rec[i].expires_at => i \in otp_records

\* What the attempt counter and the invalidation do guarantee: an OTP that no
\* two calls hold at once is compared at most otp_max_attempts times, lost
\* answers and crashes included, and is accepted at most once.
LimitsWithoutOverlap ==
    \A i \in OtpIds \ overlapped :
        /\ comparisons[i] <= MaxAttempts
        /\ accepted[i] <= 1

\* A code that was compared at all is remembered: stale writes may lower
\* attempt_count but never bring it back to zero.
ComparedIsCounted ==
    \A i \in OtpIds : comparisons[i] > 0 => rec[i].attempt_count > 0

\* A call that goes on to compare its code holds the latest OTP of its scope
\* inserted before it began, but for two kinds of later ones: those consumed,
\* and those purged whose expiry comes before that of the OTP held.  Only a send
\* that overlapped the held OTP's own can be of the second kind (it read its
\* clock first and was inserted last); when sends do not overlap, neither the
\* purge nor an expiry in between makes an older code valid again.
SupersededUnlessConsumed ==
    \A r \in Requests : call[r].pc \in {"count", "consume"} =>
        \A j \in 1..call[r].newest :
            (j > call[r].row /\ rec[j].scope = call[r].scope) =>
                \/ rec[j].is_invalidated
                \/ /\ j \notin otp_records
                   /\ rec[j].expires_at < rec[call[r].row].expires_at

\* "verified" is answered only for an OTP of the caller's own project and
\* e-mail, with its code, and only to a call that began before it expired.
AcceptOnlyTheHolder ==
    [][\A i \in OtpIds : accepted'[i] # accepted[i] =>
        \E r \in Requests :
            /\ answer'[r] = "verified" /\ call[r].row = i
            /\ call[r].scope = rec[i].scope
            /\ call[r].submitted = rec[i].otp_hash
            /\ call[r].began <= rec[i].expires_at]_vars

\* attempts_remaining is not too generous: while no two calls overlap on an
\* OTP, the number promised with invalid_code and the comparisons already made
\* add up to at most otp_max_attempts.
RemainingIsHonest ==
    [][\A r \in Requests :
        LET i == call[r].row IN
        (call[r].pc = "count" /\ answer'[r] = "invalid_code" /\ i \notin overlapped)
            => Remaining(r) + comparisons'[i] <= MaxAttempts]_vars

\* Once a code was accepted, no call that begins afterwards has it accepted:
\* the OTPs implement SingleUseToken, with a call redeeming the row it read.
Token == INSTANCE SingleUseToken WITH
    Clients <- Requests,
    Tokens <- OtpIds,
    NoToken <- NoOtp,
    redeeming <- [r \in Requests |-> call[r].row],
    accepted <- {i \in OtpIds : accepted[i] > 0}

SingleUse == Token!Spec

\* The table does not grow without bound: every row, consumed or not, is
\* purged in the end (if the modelled clock passes its expiry).
EventuallyPurged ==
    \A i \in OtpIds :
        (i \in otp_records /\ rec[i].expires_at < MaxTime)
            ~> (i \notin otp_records)

=============================================================================
