------------------------------ MODULE ClientSdk ------------------------------
(***************************************************************************)
(* One program that uses a MailGuard SDK (sdks/js, or sdks/python with its *)
(* synchronous or its asyncio client), the network, and the API behind it: *)
(* middleware, key, limits and routes of apps/api.  The program makes one  *)
(* call after the other; but a call it has given up may still be running   *)
(* in the API when it makes the next one.  All its calls are of one        *)
(* method, since the others touch none of its rows.                        *)
(*                                                                         *)
(* The verifying calls are about one OTP and one magic link.  What depends *)
(* on other tables, keys and clocks (a limit, a key, an expiry) is a       *)
(* choice; the statements of verify_and_consume and verify_magic_link are  *)
(* actions.                                                                *)
(*                                                                         *)
(* An answer is a status and a body.  The body may never come; what the    *)
(* SDKs make of that differs.  Not modelled: retry_after, redirects, and   *)
(* Python 3.9, where socket.timeout is no TimeoutError.                    *)
(***************************************************************************)
EXTENDS Integers, FiniteSets

CONSTANTS
    Sdks,         \* of "js", "python", "async", those to look at
    MaxCalls,     \* bound, per method: how many calls the program makes
    MaxAttempts   \* otp_max_attempts of the OTP

ASSUME SdkConstants ==
    /\ Sdks \subseteq {"js", "python", "async"}
    /\ MaxCalls \in [{"otp.send", "otp.verify", "magic.send", "magic.verify"} -> Nat]
    /\ MaxAttempts \in Nat \ {0}

Ops == DOMAIN MaxCalls
Calls == UNION {1..MaxCalls[o] : o \in Ops}
Statuses == {200, 400, 401, 403, 410, 422, 423, 429, 500, 503}

\* errors.ts, exceptions.py, and what is none of these classes.
Errors == {"RateLimitError", "InvalidCodeError", "ExpiredError", "LockedError",
           "SandboxError", "InvalidKeyError", "MailGuardError", "foreign"}

VARIABLES
    sdk, op,      \* the SDK and the method in use
    call,         \* per call: what its two ends are at
    otp_record,   \* the row of the OTP
    is_used       \* column of the row of the magic link

VARIABLES         \* history
    done          \* per call: what it has done to the tables

sdkVars == <<sdk, op, call, otp_record, is_used, done>>

\* status is the answer's, and read the attempt_count that the API has read, or
\* that the body of a 400 tells of; outcome is what the SDK returned or raised,
\* with attempts_remaining.
Call == [client : {"unused", "waiting", "reading", "stalled", "ended"},
         server : {"none", "arrived", "limits", "project", "save", "mail",
                   "lookup", "count", "consume", "answered", "gone"},
         status : Statuses \union {0}, read : 0..MaxAttempts,
         outcome : Errors \union {"none", "result"},
         remaining : 0..MaxAttempts,
         given_up : BOOLEAN]

Effects == {"stored", "queued", "counted", "compared", "consumed"}

Unused == [client |-> "unused", server |-> "none", status |-> 0, read |-> 0,
           outcome |-> "none", remaining |-> 0, given_up |-> FALSE]

SdkInit ==
    /\ sdk \in Sdks /\ op \in Ops
    /\ call = [i \in Calls |-> Unused]
    /\ otp_record = [attempt_count |-> 0, is_invalidated |-> FALSE]
    /\ is_used = FALSE
    /\ done = [i \in Calls |-> {}]

-----------------------------------------------------------------------------
(* The program and the network.                                             *)

Ended(i) == call[i].client = "ended"

\* A method of the SDK is called.
Begin(i) ==
    /\ call[i].client = "unused" /\ i <= MaxCalls[op]
    /\ \A j \in 1..(i - 1) : Ended(j)
    /\ call' = [call EXCEPT ![i].client = "waiting"]
    /\ UNCHANGED <<sdk, op, otp_record, is_used, done>>

\* The request may be lost, and it may be under way for any time, even after
\* its caller left.
Arrive(i) ==
    /\ call[i].client # "unused" /\ call[i].server = "none"
    /\ call' = [call EXCEPT ![i].server = "arrived"]
    /\ UNCHANGED <<sdk, op, otp_record, is_used, done>>

-----------------------------------------------------------------------------
(* The API.                                                                 *)

At(i, label) == call[i].server = label
Goto(i, label) == call' = [call EXCEPT ![i].server = label]

\* The answer, with the number its body says; nobody is there to take it when
\* the call is given up.
AnswerWith(i, status, number) ==
    call' = [call EXCEPT
        ![i].server = IF Ended(i) THEN "gone" ELSE "answered",
        ![i].status = IF Ended(i) THEN 0 ELSE status,
        ![i].read = IF Ended(i) THEN 0 ELSE number]
Answer(i, status) == AnswerWith(i, status, 0)

\* One of the statuses with which a step ends the request, if it does.
AnswerOneOf(i, statuses) == \E s \in statuses : Answer(i, s)

\* RateLimitMiddleware (429); unless the route is magic.verify's, which needs no
\* key, require_api_key, whose query may raise (500); and then the checks of the
\* body (422), which FastAPI makes after the dependencies have run.
EnterRoute(i) ==
    /\ At(i, "arrived")
    /\ \/ Goto(i, CASE op = "otp.send" -> "limits"
                    [] op = "magic.send" -> "project"
                    [] OTHER -> "lookup")
       \/ Answer(i, 429)
       \/ op # "magic.verify" /\ AnswerOneOf(i, {401, 403, 422, 500})
    /\ UNCHANGED <<sdk, op, otp_record, is_used, done>>

\* check_key_hourly and check_email_hourly.
CheckLimits(i) ==
    /\ At(i, "limits")
    /\ Goto(i, "project") \/ Answer(i, 429)
    /\ UNCHANGED <<sdk, op, otp_record, is_used, done>>

GetProject(i) ==
    /\ At(i, "project")
    /\ Goto(i, "save") \/ Answer(i, 503)
    /\ UNCHANGED <<sdk, op, otp_record, is_used, done>>

\* A step of call i leaves these effects.  A statement that raises may have had
\* its effect.
Leaves(i, es) == done' = [done EXCEPT ![i] = @ \union es]

\* save_otp or create_magic_link.
Save(i) ==
    /\ At(i, "save")
    /\ \/ Goto(i, "mail") /\ Leaves(i, {"stored"})
       \/ Answer(i, 503) /\ (Leaves(i, {}) \/ Leaves(i, {"stored"}))
    /\ UNCHANGED <<sdk, op, otp_record, is_used>>

\* insert_email_log and _enqueue_email, whose failures are swallowed; what raises
\* before them, in the mail's template, is not, and is answered 500.
EnqueueMail(i) ==
    /\ At(i, "mail")
    /\ \/ Answer(i, 200) /\ (Leaves(i, {}) \/ Leaves(i, {"queued"}))
       \/ Answer(i, 500) /\ Leaves(i, {})
    /\ UNCHANGED <<sdk, op, otp_record, is_used>>

\* Mutant: consumed codes are found as well.
LookupConsumed(i) ==
    /\ At(i, "lookup") /\ op = "otp.verify"
    /\ \/ AnswerOneOf(i, {410, 503})
       \/ IF otp_record.attempt_count >= MaxAttempts
          THEN Answer(i, 423)
          ELSE call' = [call EXCEPT ![i].server = "count",
                                    ![i].read = otp_record.attempt_count]
    /\ UNCHANGED <<sdk, op, otp_record, is_used, done>>

\* Mutant: the limit itself is still let through.
LookupAtLimit(i) ==
    /\ At(i, "lookup") /\ op = "otp.verify"
    /\ \/ AnswerOneOf(i, {410, 503})
       \/ /\ ~otp_record.is_invalidated
          /\ IF otp_record.attempt_count > MaxAttempts
             THEN Answer(i, 423)
             ELSE call' = [call EXCEPT ![i].server = "count",
                                       ![i].read = otp_record.attempt_count]
    /\ UNCHANGED <<sdk, op, otp_record, is_used, done>>

\* get_active_otp and the checks before the first update; the row may have
\* expired or been purged, and the query may raise.
LookupOtp(i) ==
    /\ At(i, "lookup") /\ op = "otp.verify"
    /\ \/ AnswerOneOf(i, {410, 503})
       \/ /\ ~otp_record.is_invalidated
          /\ IF otp_record.attempt_count >= MaxAttempts
             THEN Answer(i, 423)
             ELSE call' = [call EXCEPT ![i].server = "count",
                                       ![i].read = otp_record.attempt_count]
    /\ UNCHANGED <<sdk, op, otp_record, is_used, done>>

\* Mutant: the count is written only when the comparison has failed.
CountFailures(i) ==
    /\ At(i, "count")
    /\ \/ /\ Goto(i, "consume") /\ Leaves(i, {"compared"})
          /\ UNCHANGED otp_record
       \/ /\ AnswerWith(i, 400, call[i].read + 1)
          /\ otp_record' = [otp_record EXCEPT !.attempt_count = call[i].read + 1]
          /\ Leaves(i, {"counted", "compared"})
    /\ UNCHANGED <<sdk, op, is_used>>

\* attempt_count is written and then the code compared, which is right or not.
\* The body of a 400 says how many attempts that count leaves.
CountAttempt(i) ==
    /\ At(i, "count")
    /\ otp_record' = [otp_record EXCEPT !.attempt_count = call[i].read + 1]
    /\ Leaves(i, {"counted", "compared"})
    /\ Goto(i, "consume") \/ AnswerWith(i, 400, call[i].read + 1)
    /\ UNCHANGED <<sdk, op, is_used>>

CountRaises(i) ==
    /\ At(i, "count")
    /\ \/ UNCHANGED <<otp_record, done>>
       \/ /\ otp_record' = [otp_record EXCEPT !.attempt_count = call[i].read + 1]
          /\ Leaves(i, {"counted"})
    /\ Answer(i, 503)
    /\ UNCHANGED <<sdk, op, is_used>>

\* The update that consumes, which may raise with its effect.
ConsumeOtp(i) ==
    /\ At(i, "consume") /\ op = "otp.verify"
    /\ otp_record' = [otp_record EXCEPT !.is_invalidated = TRUE]
    /\ Leaves(i, {"consumed"})
    /\ AnswerOneOf(i, {200, 503})
    /\ UNCHANGED <<sdk, op, is_used>>

\* verify_magic_link as far as its update; its exceptions are answered 410 too,
\* and those of the pages' templates 500.
LookupLink(i) ==
    /\ At(i, "lookup") /\ op = "magic.verify"
    /\ AnswerOneOf(i, {410, 500}) \/ (~is_used /\ Goto(i, "consume"))
    /\ UNCHANGED <<sdk, op, otp_record, is_used, done>>

UseLink(i) ==
    /\ At(i, "consume") /\ op = "magic.verify"
    /\ is_used' = TRUE
    /\ Leaves(i, {"consumed"})
    /\ AnswerOneOf(i, {200, 410, 500})
    /\ UNCHANGED <<sdk, op, otp_record>>

\* The update that consumes raises without effect.
ConsumeRaises(i) ==
    /\ At(i, "consume")
    /\ AnswerOneOf(i, IF op = "otp.verify" THEN {503} ELSE {410, 500})
    /\ UNCHANGED <<sdk, op, otp_record, is_used, done>>

Running(i) == call[i].server \notin {"none", "answered", "gone"}

\* The API process stops.
ApiStops ==
    /\ \E i \in Calls : Running(i)
    /\ call' = [i \in Calls |->
                  IF Running(i) THEN [call[i] EXCEPT !.server = "gone", !.read = 0]
                                ELSE call[i]]
    /\ UNCHANGED <<sdk, op, otp_record, is_used, done>>

-----------------------------------------------------------------------------
(* The SDK.                                                                 *)

\* _throwTyped and _throw_typed; whole says that the body came, as JSON.
TypedError(status, whole) ==
    CASE status = 429 -> "RateLimitError"
      [] status = 400 -> "InvalidCodeError"
      [] status = 410 -> "ExpiredError"
      [] status = 423 -> "LockedError"
      [] status = 403 /\ whole -> "SandboxError"
      [] status = 401 -> "InvalidKeyError"
      [] OTHER -> "MailGuardError"

End(i, outcome, remaining) ==
    /\ call' = [call EXCEPT
          ![i].client = "ended", ![i].outcome = outcome,
          ![i].remaining = remaining, ![i].given_up = (call[i].client = "waiting"),
          ![i].status = IF call[i].client = "waiting" THEN 0 ELSE @,
          ![i].server = IF At(i, "answered") THEN "gone" ELSE @,
          ![i].read = IF At(i, "answered") THEN 0 ELSE @]
    /\ UNCHANGED <<sdk, op, otp_record, is_used, done>>

\* The error is typed by its status alone; what is in the body has defaults.
EndWithoutBody(i) == End(i, TypedError(call[i].status, FALSE), 0)

Succeeded(i) == call[i].status = 200

ReadHead(i) ==
    /\ call[i].client = "waiting" /\ At(i, "answered")
    /\ call' = [call EXCEPT ![i].client = "reading"]
    /\ UNCHANGED <<sdk, op, otp_record, is_used, done>>

\* The page of a verified link is not JSON, and the parser's exception is none
\* of the SDK's; the page of an expired one is a body that says nothing.
ReadBody(i) ==
    /\ call[i].client = "reading"
    /\ IF Succeeded(i)
       THEN End(i, IF op = "magic.verify" THEN "foreign" ELSE "result", 0)
       ELSE End(i, TypedError(call[i].status, TRUE),
                IF call[i].status = 400 THEN MaxAttempts - call[i].read ELSE 0)

BodyStalls(i) ==
    /\ call[i].client = "reading"
    /\ call' = [call EXCEPT ![i].client = "stalled"]
    /\ UNCHANGED <<sdk, op, otp_record, is_used, done>>

\* The connection breaks, or is never there.  urllib wraps what happens until
\* the request is sent; aiohttp wraps everything; in js, what happens to the
\* body of a 200 is past the catch, for want of an await.
ConnectionBreaks(i) ==
    \/ /\ call[i].client = "waiting"
       /\ \/ sdk # "python" /\ End(i, "MailGuardError", 0)
          \/ sdk = "python" /\ End(i, "foreign", 0)
          \/ sdk = "python" /\ At(i, "none") /\ End(i, "MailGuardError", 0)
    \/ /\ call[i].client \in {"reading", "stalled"}
       /\ IF Succeeded(i)
          THEN End(i, IF sdk = "async" THEN "MailGuardError" ELSE "foreign", 0)
          ELSE EndWithoutBody(i)

\* Mutant: a late answer is taken for a refusal.
TimesOutAsRateLimit(i) ==
    /\ call[i].client = "waiting"
    /\ End(i, "RateLimitError", 0)

\* Mutant: the timer is cleared as soon as there is a head.
TimerUntilHead(i) == call[i].client = "waiting"

\* js clears its timer once the head of a 200 is there.
TimerRuns(i) ==
    \/ call[i].client = "waiting"
    \/ call[i].client \in {"reading", "stalled"} /\ ~(sdk = "js" /\ Succeeded(i))

\* asyncio.TimeoutError is no aiohttp.ServerTimeoutError, except for the
\* timeouts of connecting, which aiohttp converts.
TimesOut(i) ==
    /\ TimerRuns(i)
    /\ IF call[i].client = "waiting" \/ Succeeded(i)
       THEN \/ sdk = "async" /\ End(i, "foreign", 0)
            \/ sdk # "async" /\ End(i, "MailGuardError", 0)
            \/ sdk = "async" /\ At(i, "none") /\ End(i, "MailGuardError", 0)
       ELSE EndWithoutBody(i)

-----------------------------------------------------------------------------

Verify(i) ==
    \/ LookupOtp(i) \/ CountAttempt(i) \/ CountRaises(i) \/ ConsumeOtp(i)
    \/ LookupLink(i) \/ UseLink(i) \/ ConsumeRaises(i)

Serve(i) ==
    \/ EnterRoute(i) \/ CheckLimits(i) \/ GetProject(i) \/ Save(i) \/ EnqueueMail(i)
    \/ Verify(i)

\* What the SDK sees, sooner or later.
Receive(i) == ReadHead(i) \/ ReadBody(i) \/ TimesOut(i)

SdkNext ==
    \/ \E i \in Calls :
          \/ Begin(i) \/ Arrive(i) \/ Serve(i) \/ Receive(i)
          \/ BodyStalls(i) \/ ConnectionBreaks(i)
    \/ ApiStops

SdkSpec == SdkInit /\ [][SdkNext]_sdkVars

\* What comes in is read, and a timer that runs goes off (one call is open at a
\* time, so that this is fairness to each).
SdkFairSpec == SdkSpec /\ WF_sdkVars(\E i \in Calls : Receive(i))

-----------------------------------------------------------------------------
(* Properties.                                                              *)

\* Every variable stays within its type; in particular attempt_count, which calls
\* that were given up write as well, never passes otp_max_attempts.
SdkTypeOK ==
    /\ sdk \in Sdks /\ op \in Ops
    /\ call \in [Calls -> Call]
    /\ otp_record \in [attempt_count : 0..MaxAttempts, is_invalidated : BOOLEAN]
    /\ is_used \in BOOLEAN
    /\ done \in [Calls -> SUBSET Effects]

\* Errors that say that nothing was done: classes of the SDKs, and those of the
\* class they share that carry a status which only refusals have.
SaysRefused(c) ==
    \/ c.outcome \in {"RateLimitError", "SandboxError", "InvalidKeyError",
                      "LockedError"}
    \/ c.outcome = "ExpiredError" /\ op = "otp.verify"
    \/ /\ c.outcome = "MailGuardError" /\ ~c.given_up
       /\ c.status \in {403, 422}

\* What an SDK tells its caller is so, and stays so, whatever becomes of the
\* connection and however late the API works: a call that was refused has no
\* effect, then or later, a wrong code was compared and counted and not
\* consumed, and a result stands for what was asked for.  (An ExpiredError of
\* magic.verify says nothing: routes/magic.py answers 410 to exceptions too.)
AnswersAreTrue ==
    \A i \in Calls :
        /\ SaysRefused(call[i]) => done[i] = {}
        /\ call[i].outcome = "InvalidCodeError" => done[i] = {"counted", "compared"}
        /\ call[i].outcome = "result" =>
              (IF op = "otp.verify" THEN "consumed" ELSE "stored") \in done[i]

\* A program that makes one call after the other gets one result for a code,
\* though calls it has given up may still be verifying the same code.
OneResultPerCode ==
    op = "otp.verify" => Cardinality({i \in Calls : call[i].outcome = "result"}) <= 1

\* As long as it has given up none of its calls, its codes are compared no more
\* often than otp_max_attempts, and attemptsRemaining (attempts_remaining) never
\* promises more than that leaves, lost bodies and raising statements included.
LimitedUnlessGivenUp ==
    LET Compared(n) == {i \in Calls : i <= n /\ "compared" \in done[i]}
    IN  (\A i \in Calls : ~call[i].given_up) =>
            /\ Cardinality(Compared(MaxCalls[op])) <= MaxAttempts
            /\ \A i \in Calls :
                  call[i].remaining <= MaxAttempts - Cardinality(Compared(i))

\* No call waits for ever: again and again none is open, except for one of js
\* that waits without a timer for the rest of an answer.
EventuallyEnds ==
    LET Hangs(i) == sdk = "js" /\ call[i].client = "stalled" /\ Succeeded(i)
    IN  []<>(\A i \in Calls : call[i].client \in {"unused", "ended"} \/ Hangs(i))
=============================================================================
