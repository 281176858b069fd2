# MailGuard in TLA+

TLA+ models of MailGuard, the self-hosted service that sends and verifies
one-time passwords (OTPs) and magic links, with TLC configurations that check
the models on small instances and TLAPS proofs for every instance. All paths
below are relative to the root of the repository.

```
tlc -workers 2 -config MCOtpConcurrent.cfg MCOtpLifecycle   # check a run
tlapm OtpLifecycleProofs.tla                                # check the proofs
```

`PROJECT.json` lists the components, the runs with the properties each checks,
for every property a mutated definition that breaks it, the source lines every
definition stands for, the hazards the properties are aimed at, the
disagreements found, and the theorems.

## 1. The system

MailGuard is three Python processes around Postgres (Supabase) and Redis:

- the **API** (`apps/api`, FastAPI) answers `/otp/send`, `/otp/verify`,
  `/magic/send`, `/magic/verify/{token}` and `/webhooks`. Database calls are
  blocking HTTP requests to Supabase; there is no transaction and no lock, every
  statement commits by itself. Any number of requests run concurrently, in
  several threads and possibly several processes;
- the **worker** (`apps/worker`, ARQ) takes jobs from a Redis queue: sending
  mails, delivering webhooks, and the crons that purge OTPs and rotate senders;
- the **bot** (`apps/bot`, python-telegram-bot) lets one admin create projects,
  senders, templates, API keys and webhooks.

| component | state | operations | talks to | correct when | hard because |
|---|---|---|---|---|---|
| One-time passwords (`core/otp.py`, `routes/otp.py`, `tasks/purge_otps.py`) | table `otp_records`: hash, `attempt_count`, `is_invalidated`, `expires_at` | `save_otp`, `verify_and_consume`, purge cron | called by the routes; starts e-mail delivery and events | a code is accepted once, by its holder, in time, after at most `otp_max_attempts` comparisons; the newest code counts, when sends do not overlap; rows go away | a send reads its clock before the insert; read, count, consume are three statements; answers get lost, the cron deletes beside them |
| Magic links (`core/magic_links.py`, `routes/magic.py`) | table `magic_links`: `is_used`, `expires_at` | `create_magic_link`, `verify_magic_link` | routes, JWT, webhook events | a link is accepted once, in time, and reported once to its project | two reads and one update, mail scanners that prefetch, a schema that lacks a column |
| E-mail delivery (`_enqueue_email`, `tasks/send_email.py`, `core/smtp.py`) | table `email_logs`, the ARQ queue, the task's loop, `sender:daily:*` counters in Redis | insert log, enqueue, SMTP attempts with back-off, log updates, usage counter, alert | API to worker over Redis; Gmail etc.; Telegram | the log is truthful, copies are bounded, every job ends, the counter is not ahead | crashes between acceptance and log, job timeouts, redelivery |
| Rate limiting (`core/rate_limiter.py`, `middleware/rate_limit.py`) | one Redis sorted set with a TTL per address, key and e-mail | clock reading, pipeline of evict, add, count, expire | in front of `/otp/send` | at most *limit* calls per window, nobody else refused | the clock is read before the pipeline; equal readings; fail open |
| Bot wizards and session (`apps/bot/wizards`, `session.py`) | conversation states, one `user_data` per user, table `bot_sessions` | about twenty handlers, `/cancel`, periodic saving, restart | writes `projects`, `sender_emails`, `webhooks` | what is saved is what the admin entered, previewed or verified in that wizard | four conversations share one dictionary, buttons of old messages, replies that fail, a session restored from different moments |
| Sender rotation (`core/sender_rotation.py`, `tasks/rotation_check.py`) | `sender:daily:*`, `projects.sender_email_id` | increment with TTL, usage, selection, rotation cron | e-mail delivery increments; sends read the sender | an exhausted sender is left for the least used of those listed; the counter covers the last day | `/addemail` adds, activates or re-limits senders between list and update, TTL renewed by every mail |
| Webhooks (`core/webhooks.py`, `tasks/deliver_webhook.py`, `routes/webhooks.py`) | table `webhooks`: `failure_count`, `is_active`, jobs | fan-out, delivery with retries, deactivation, CRUD | all routes fire events | a subscriber's job does not depend on the others', a deactivated webhook gets no new events, failures are counted | lists read before the fan-out, jobs run again, the failure count read and written back in two calls |
| API keys and JWTs (`core/api_keys.py`, `middleware/auth.py`, `core/jwt_utils.py`) | table `api_keys`; `jti_blacklist:*` in Redis | issue, validate, revoke | every authenticated route | a revoked credential is refused from then on | revocation racing validation; the blacklist's time to live is rounded, and set by several calls |
| Client SDKs (`sdks/js`, `sdks/python`: synchronous and asyncio) with the API shell | a call with its timer; the request and the answer on the wire | `otp.send`, `otp.verify`, `magic.send`, `magic.verify`, typing of errors | the API over HTTP | what an error or a result says of the API's tables is so; one result per code; calls end | a call that is given up still runs in the API; answers are lost after their effect, or cut off after their head |

Not modelled: headers and CSRF, encryption, hashing, templates, sanitizers, wording
of messages and configuration. They hold no state that changes, or compute on
strings and bytes with no control worth exploring. Of the bot's commands,
those that only list rows are left out (`/keys`, `/projects`, `/senders`, `/logs`,
`/start`), and the gate, which drops the updates of everybody but the admin.

## 2. The modules

| module | models | checked by | proofs |
|---|---|---|---|
| `OtpLifecycle` | OTPs | `MCOtpLifecycle` with `MCOtpConcurrent`, `MCOtpTable` | `OtpLifecycleProofs` |
| `MagicLink` | magic links | `MCMagicLink`, `MCMagicShipped` | `MagicLinkProofs` |
| `SingleUseToken` | abstract: what "single use" means for both | as the property `SingleUse` of the two above | refinement theorems of the two above |
| `EmailDelivery` | e-mail delivery | `MCEmailDelivery`, `MCEmailStatus` | `EmailDeliveryProofs` |
| `RetriedJob` | abstract: what is kept of a background job | as the properties `MailedAsJob` of `EmailDelivery` and `DeliveredAsJob` of `WebhookDelivery` | refinement theorems of the two |
| `RateLimiter` | the sliding windows on the way of `/otp/send` | `MCRateLimiter` | `EdgeProofs` |
| `BotWizards` | the bot's wizards and session | `MCBotWizards` | `BotWizardsProofs` |
| `SenderRotation` | usage counters and the rotation cron | `MCSenderRotation` | `SenderRotationProofs` |
| `WebhookDelivery` | fan-out, delivery and counting of webhook events | `MCWebhookDelivery` | `WebhookDeliveryProofs` |
| `Credentials` | API keys and JWTs | `MCCredentials` | `CredentialsProofs` |
| `ClientSdk` | the three SDKs, the network, and the API's routes as they see them | `MCClientSdk` | `EdgeProofs` |

### Conventions

One action is one call to Postgres, Redis, SMTP or Telegram together with the
local code up to the next call, because that is where another request, the
worker or the clock can come in. A call that raises comes in two kinds: without
effect, and with its effect (the answer was lost). A call takes effect, if at
all, before its caller sees a result or an exception. Variables under the
heading "history" are read by no guard; they remember what properties speak of.
`Max...` constants marked "bound" exist to keep the state space finite; the
proofs hold for all their values. A definition under the comment "Mutant" is
used by no action; it is a plausible bug, and some property fails when it
replaces the definition after it.

### OtpLifecycle

`rec[i]` is the row with id `i` (ids follow `created_at`), `otp_records` the ids
now in the table. `call[r]` holds the local variables of one request in
`verify_and_consume`: the row as read, the submitted code, and where the request
is: `check` after the read, `count` before the update of `attempt_count`,
`consume` before the update of `is_invalidated`. `Lookup`, `Check`,
`CountAttempt`, `Consume` are the statements in their order, `StatementFails`,
`LookupFails`, `StatementUnacknowledged`, `Crash` their failures,
`PurgeExpiredOtps` the cron, `Tick` the clock. bcrypt is an injective function.

A send is two steps, as `save_otp` does it: `ComputeRow` reads the API's clock for
`expires_at` and leaves the row in `unsaved[w]`, `SaveOtp` is the insert that gives the
row its place in `created_at` order (`SaveFails` one that has no effect). Several
sends of one e-mail, one per slot of `Sends`, can so read the clock in one order and
insert in the other.

### MagicLink

The same shape; a request reads its row twice, first in the route for the
webhook event (`Arrive`; an exception is swallowed and leaves no project), then
in `verify_magic_link` (`Lookup`). `Schema` says which of two things the deployed
table can do that `db/migrations/005_magic_links.sql` does not declare: a
`used_at` column, and `redirect_url` NULL.

### SingleUseToken

A client begins to redeem a token only while nobody has been told that it was
accepted, and is told "accepted" only of the token it began to redeem. Clients
that began before the first acceptance may all be accepted: a read followed by
a separate write gives that and no more. With one client it is exactly
once-only. `OtpLifecycle` and `MagicLink` implement it with `redeeming` mapped to
the row a running call has read.

### EmailDelivery

A mail is its send call (`api`), log row (`email_logs`), ARQ job (`queue`, with
`tries`) and the task's control state and loop variable (`task`). ARQ is modelled
from how it is used: a job stays queued until its task returns or raises, is
started again when its worker stopped, and is given up after `MaxTries` (the
default of 5) or when `job_timeout` cancels it. The `CHECK` constraints of
`email_logs` are constants, so that the code can be checked with a schema that
accepts what it writes, and with the shipped one.

### RetriedJob

What a queue, five tries, attempts with back-off and crashes amount to: a job is
submitted once and over once, its work is done in between only and at most
`MaxTimes` times, and only work that was done is on record as done. There is no
promise that the work is done. For a mail, a job is its send call, its work an
acceptance by the SMTP server, its record the log row's status `delivered`; for
a webhook, a job is an event and a webhook, its work a POST that reached the
endpoint, and nothing is put on record. Both modules define their mapping with
`INSTANCE ... WITH`.

### RateLimiter

A request goes through the IP, key and e-mail tier. In each it reads the clock
(`ReadClock`) and then runs the pipeline (`Admit`, `Refuse`, `AnswerLost`), or
Redis fails (`RedisFails`); exceptions let it pass. A sorted set is a set of
readings, because the member added is the text of the reading itself. `deadline`
is the TTL the pipeline renews. The daily and board limits use the same
primitive and have no caller.

### BotWizards

`conv` is the state of each of the four `ConversationHandler`s, `user_data` the
one dictionary they share. Instead of what the admin typed, a field holds the
name of the wizard that stored it, which is what the properties need to tell
apart. `Text` and `Button` say which wizard an update goes to, as
python-telegram-bot 20 dispatches in the order of `apps/bot/main.py`. `Reply` is
a last reply that may raise, in which case the conversation does not advance
but the dictionary keeps its changes. `saved` is what `bot_sessions` holds,
`held` the conversations from which `session.py` writes its row: a write that
fails is only logged, `Restart` restores what was saved when, and reads that
fail leave conversations or dictionary empty.

### SenderRotation

`counter` and `expires` are the keys `sender:daily:*`; `active` and `daily_limit` are the
columns of `sender_emails`. `pc`, `todo`, `project`, `current`,
`listed`, `readings` and `best` are the cron: `StartPass` lists the projects,
`ReadSender`, `ReadUsage`, `list_sender_emails`, one `ReadCandidate` per sender and
`Rotate` are the calls of `check_and_rotate` with the early returns between them
(`Leave`), `CheckRaises` is the `try` around it. Between any two of them the
`Surroundings` act: mails are sent and counted, keys expire (`Tick`), rows are
written. `AddEmail` is the upsert of the `/addemail` wizard, which adds or activates a
sender and resets its `daily_limit` (one that is added is a sender that was not
active before); `EditSender` stands for edits in the Supabase console, which also
deactivate and set any limit. A row is used with the `daily_limit` it had when it was
read (`current`, `listed`). `edited` remembers the senders whose row was written since
the check of the project began, `forgot` those whose key expired since. A usage
percentage is a pair of numbers, compared by cross-multiplication.

### WebhookDelivery

`fire[e]` and `todo[e]` are one `fire_event`: listing, then one `Enqueue` or
`EnqueueRaises` per subscriber. A job is `<<event, webhook>>`; `task[j]` holds its
task's attempt and the failure count it has read. `ReadCount` and `WriteCount` are
two steps, `Touch` (the update of `last_triggered_at`) stands inside the `try` of
the attempt as it does in the code, so that a failing update sends the event
again. `posts` counts what the endpoint has received, answered or not. ARQ is modelled as in `EmailDelivery`.

### Credentials

A request is validated (`Verdict` is the order of checks in `validate_api_key`),
served, and answered, with a token when `/otp/verify` has consumed an OTP.
`exp` is a token's claim; `jti_blacklist` says when the Redis key of its
revocation expires. `Decode` and `verify_jwt` are the two halves of a verification,
`BeginRevocation` (which computes the time to live) and `revoke_jwt` (which sets
it) those of a revocation. Nothing in `src/` outside the tests calls the two
functions: their callers are any service that holds the secret. A clock tick is a
fraction of a second, `WholeSeconds` is `int()` of a time.

### ClientSdk

A program calls one method of one SDK, one call after the other. `call[i]` holds
both ends of a call: `client` (waiting for the head of the answer, reading its
body, ended) and `server` (which statement of the route comes next). `End` of a
call does not touch its `server` part while that runs, which is the point: the
timer (`TimesOut`) and the connection (`ConnectionBreaks`) end a call for the
program, never for the API. `TypedError` is `_throwTyped` and `_throw_typed`; the
differences between the three clients are in `ReadBody`, `ConnectionBreaks` and
`TimerRuns`: what a `catch` covers, and how long a timer runs. The API is
`EnterRoute` (IP limit, key, validation of the body), `CheckLimits`, `GetProject`,
`Save`, `EnqueueMail` for the sending methods, and the statements of
`verify_and_consume` and `verify_magic_link` for the verifying ones. All calls
verify against one OTP or one link; what depends on anything else (a limit, a
key, the clock) is a choice of answers. `done` remembers what each call has
done to the tables.

## 3. The runs

| run | instance | what it shows |
|---|---|---|
| `otp_concurrent` | 3 calls, 2 scopes, 2 codes, 1 send, 1 OTP, 2 attempts | an OTP that no two calls hold at once is compared at most `otp_max_attempts` times and accepted at most once, lost answers and crashes included (`LimitsWithoutOverlap`); a compared code is never forgotten (`ComparedIsCounted`); acceptance is justified (`AcceptOnlyTheHolder`); `attempts_remaining` does not promise too much (`RemainingIsHonest`); no call that begins after an acceptance is accepted (`SingleUse`) |
| `otp_table` | 2 calls, 2 sends that may overlap, 2 OTPs of one scope, ticks past expiry | the purge takes nothing that could still be entered (`UnexpiredKept`), an older code becomes valid again only when the newer one is consumed, or was sent by an overlapping send, expires earlier and is purged (`SupersededUnlessConsumed`), rows leave the table (`EventuallyPurged`) |
| `magic_links` | 2 calls, 2 links, a schema with both extras | a link is accepted for its own token, in time (`AcceptOnlyTheHolder`), and by no call that begins after an acceptance (`SingleUse`) |
| `magic_shipped` | the shipped schema, no faults | **violated**: a valid link is answered with the 410 page |
| `email` | 2 mails, 2 attempts, 2 tries | every mail is a `RetriedJob`: queued once, sent while its job lasts and a bounded number of times, logged delivered only if it was accepted (`MailedAsJob`); the usage counter is not ahead (`UsageNotAhead`); every job leaves the queue (`EventuallyFinished`) |
| `email_status` | 1 mail, 3 attempts, the shipped constraints, no faults | **violated**: a mail is accepted three times and logged as failed |
| `rate_limiter` | 2 slots used again and again, a key per tier, limits 2, 2, 1, windows 1, 2, 2, three clock readings | no window admits more than its limit, no one is refused without cause |
| `bot_wizards` | 2 wizards started, 2 saves, 1 restart | senders are verified (`SendersAreVerified`), previews come before saving (`PreviewBeforeSaving`), an undisturbed wizard writes its own answers (`UndisturbedWritesItsOwn`) |
| `rotation` | 2 projects, the check of one of which may always raise, 2 senders of different limits, limits 0, 1 and 2, 2 mails, 1 edit (a row by `/addemail` or in Supabase, or a project by the bot), 1 stop of the worker, clock 0..2, TTL 2 | the counter covers the last day (`CounterCoversDay`); whoever is moved leaves an exhausted sender for an active one, and no sender whose row and key stood meanwhile has a lower usage (`RotationIsJustified`); nobody stays behind for ever (`EventuallyRotated`) |
| `webhooks` | 2 events, 2 webhooks, one of them subscribed to both, 2 attempts, 2 tries, 2 starts of tasks | endpoints are sent what they subscribe to and nothing that happened after their deactivation was answered (`OnlySubscribers`), a failing enqueue concerns one webhook (`FanOutIsIsolated`), the failure count is exact without overlap and never ahead (`FailuresAreCounted`), every delivery is a `RetriedJob` (`DeliveredAsJob`) |
| `credentials` | 1 live and 1 sandbox key, 1 request after the other, 1 token of 2 seconds, 1 verification and 2 revocations at a time, half-seconds 0..6 | a request that arrived after the answer to a revocation is not served (`RevokedKeysRefused`), a revoked token is refused to its last second (`RevokedTokensRefused`) |
| `client_sdk` | each of 3 SDKs and 4 methods; 3 calls of `otp.verify`, 2 of each other; 2 attempts | what errors and results say is so and stays so (`AnswersAreTrue`), one result per code though abandoned calls go on (`OneResultPerCode`), the attempt limit holds and `attemptsRemaining` is right as long as no call was given up (`LimitedUnlessGivenUp`), calls end (`EventuallyEnds`) |

Why the bounds are enough. *OTPs, links*: every disagreement between what a call
read and what is in the table needs one other call; the third call of
`otp_concurrent` lets two of them overlap while one acts before or after both,
and `MaxAttempts = 2` leaves a count that a stale write can lower. Two rows
suffice for the order between rows, two sends for their two orders of clock and insert,
and one tick beyond expiry for both sides of `now > expires_at`. Codes are compared for equality only. *E-mail*: mails
interact through the worker they share, so two suffice; two attempts have a
first, a last, and a back-off between them. *Rate limiter*: two slots give a
call that is held up while others run, a window of 2 in a clock of 0..2 has
readings inside and outside it and keys that expire; the tier with limit 1
refuses at the second reading, those with 2 at the third. *Wizards*: a wizard is
disturbed by one other or by `/cancel`; one conversation saved and one not is the
smallest inconsistent session. *Rotation*: the first mail exhausts either
sender, so that the two mails make every pattern of exhausted and less used
senders; TTL 2 in a clock of 0..2 has a key that expires and one that a second mail
renews past the expiry of the first; one edit puts a sender on the list or takes it off,
or changes a limit, to 0 too, between any two reads of a check, and it can be any of the two
senders, at any place of the pass. The bound on edits also gives `EventuallyRotated` its
premise: edits come to an end. *Webhooks*: two started tasks of one webhook can overlap
or follow each other, and one can be started again; two webhooks make a fan-out
with a rest. *Credentials*: requests only read, so one slot used again and again
meets every state of the keys; with half-seconds a token's `exp` lies up to a tick
before its full lifetime, a time to live is rounded down or not, and 0..6 goes
from the issue past `exp`; two revocations can overtake each other. *SDKs*: with two
attempts, three calls of `otp.verify` reach the limit and one beyond it, or leave one
or two given up beside one that is open; the other methods share at most one row. In
`bot_wizards` and `webhooks` the bounds on starts, and in `client_sdk` the bound on
calls, end the behaviours, which is why these three say `CHECK_DEADLOCK FALSE`. Symmetry is used over request slots, in
runs without liveness only.

Fairness. `OtpLifecycle.Fairness` says that the cron keeps running (ARQ repeats
it, and `purge_otps.py:47` swallows its exceptions) and that the clock ticks; rows
leave the table even if every call stops halfway.
`EmailDelivery.FairSpec` says that a worker is there again after a stop
(`docker-compose.yml` has `restart: unless-stopped`) and its calls return or
raise. `SenderRotation.FairSpec` says that ARQ runs the cron again and again and
that its calls return or raise. `ClientSdk.SdkFairSpec` says that an SDK reads what has
arrived and that a timer that is set goes off (one call is open at a time, so fairness of
the disjunction is fairness to that call); it says nothing of network or API.
Nothing obliges a user to send, verify or press a
button or revoke a key, so `RateLimiter`, `BotWizards` and `Credentials` state no
liveness. Neither does
`WebhookDelivery`: `fire_event` runs in a task nobody keeps, and an event is lost
without a trace when the process stops or Redis is away.

## 4. The proofs

Every theorem is about `Spec` (`ReliableSpec`, where it says so) for all values of
the constants, under the module's `ConstantsAssumption` (`SdkConstants`) only (numbers
are natural, windows are positive, and the like), which TLC evaluates on every run. The six
theorems about schemas below assume besides what their schema has or lacks. Each
proofs module defines an inductive invariant `IInv`, proves it of `Init`, of one
action after the other, and then derives the properties. `ClientSdk` names its
specification `SdkSpec`, and so on, because one module holds the proofs about it and
about `RateLimiter`.

- **OtpLifecycleProofs.** The properties speak of finished calls and depend on
  what running calls have read. `CallInv` ties what a call read to the row,
  `TableInv` says what the purge leaves. `SupersededInv` follows a call: rows newer than
  the one it has read are consumed or already purged; a purged one had expired, so that
  when the call passes its own expiry check it holds a row that expires later. Nothing
  is assumed of the order of expiries: a newer row may have the earlier one, as sends
  that overlap can bring about. `OverlapInv` says that a call alone on its row knows the
  current count, which is why the read and the write then cannot lose an
  attempt. Also proved: OtpLifecycle implements `SingleUseToken`.
- **MagicLinkProofs.** The same argument with one update instead of two, for
  every schema; also a refinement of `SingleUseToken`, and `OnceWithoutOverlap`: a link
  that no two calls hold at once is accepted and its event reported at most once.
  What the finding about `used_at` is about is proved from both sides: with the column
  a run without faults refuses no call that passed the checks
  (`ColumnLetsValidLinksVerify`), and without it no link ever verifies, whatever else
  happens (`NoColumnNothingVerifies`).
- **EmailDeliveryProofs.** `MailInv` relates, per place in the task, the copies
  accepted so far to tries and attempts: at `smtp` there is room for one more.
  That, and that the places that write `delivered` are reached through an
  acceptance only, is what the refinement of `RetriedJob` needs: every action maps to
  one abstract step, or to none. Also proved, of the same invariant: `CopiesBounded` and
  `AlertIsOnRecord` (who was alerted has a failed row or a mail delivered by a later run).
  `JobsRunDown` is the part of `EventuallyFinished` that needs no fairness: a job
  is started at most `MaxTries` times, and `Distance`, the steps its run has left at
  most, falls with every step, back-offs and stops of the worker included. What
  the CHECK constraints decide is proved from both sides: `FaultlessInv` has, for a run
  without faults, the copies sent at every place of the task. If the table takes
  `delivered`, every mail is sent once and logged so (`TakenStatusIsLogged`,
  `TakenStatusSendsOnce`); if it does not, as shipped, every mail is sent `MaxAttempts`
  times and logged as failed (`RefusedStatusResends`). Without the type `magic_link` no
  magic-link mail is ever sent (`RefusedTypeSendsNothing`).
- **EdgeProofs**, on `RateLimiter`. The point is that neither the eviction by a late call,
  whose reading is old, nor EXPIRE removes a reading that still counts; so the
  sorted set contains the live readings and its cardinality bounds theirs.
- **EdgeProofs**, on `ClientSdk`. The properties speak of what a caller was told, and an
  answer is written long before it is read, if it is. `SdkInv` follows it:
  `ServerInv` says what each stage of a request has done and what a status warrants
  when it is written; that stays so, since nobody but the call itself adds to
  its effects and an answered call is over. `ClientInv` says what an SDK makes of a
  status with and without its body, so that a call ends either given up, with an
  error that claims nothing, or with an outcome its status warrants: hence
  `AnswersAreTrue`. `OneResultPerCode` has to hold against calls that
  were given up and still run. `ResultInv`: an accepted call has consumed the code,
  and no call before one that found it unconsumed has a result; by `InSequence` no
  call begins before those it could contradict have ended. `CountInv`: while none is given up, at
  most one call is in the API, so the count it has read is the row's, which is
  at least the number of calls that were compared; this and finite cardinalities
  give `LimitedUnlessGivenUp`.
- **BotWizardsProofs.** For every state of a wizard, which fields are its own
  if it was not disturbed. A step of a wizard either leaves the dictionary
  alone or disturbs all the others, so each wizard needs its own steps only.
  That addresses in the dictionary come from `/addemail` alone has to hold of the
  saved dictionary too, since a restart brings it back. Also proved: every secret
  shown is that of a stored webhook (`ShownIsStored`).
- **SenderRotationProofs.** `DayInv`: a mail that is still recent was counted
  less than a TTL ago, so the key's expiry lies at least a TTL after it; a key that
  expires has nothing left to cover. `CheckInv` carries each row and each reading of a
  check from the read to the write: the row stands, or is in `edited`; the counter only
  grew since, or its key is in `forgot`; and every active sender outside `edited` is among
  the listed ones. With that, the candidates' order as read bounds the order at the write
  of those outside the two sets. Nothing is proved of a sender in `edited`, and there is
  nothing to prove: the code does not look at it again.
- **WebhookDeliveryProofs.** `FanOutInv` follows the permission to send an event
  from the list over `todo` and the queue to the POST: a webhook whose
  deactivation was answered before the event cannot be in the list. `HookInv`
  says what a count held between read and write is worth: never more than the
  updates there were, and the row's own value while no other task holds one.
  `RetryInv` has, per place in a task, the POSTs so far within tries times
  attempts, from which the refinement of `RetriedJob` follows.
- **CredentialsProofs.** Rows of keys are neither deleted nor activated again
  (`KeysOnlyEnd`), so what held when a request arrived holds when it is answered.
  `RevocationInv`: a SET that is still to come reaches to a second before `exp`,
  because it counts from a clock that only moved on; `TokenInv`: so does whatever
  is on the blacklist, whoever set it last, so that an entry vanishes in the last
  second at the earliest. The only facts about rounding are those of
  `WholeSecondsBounds`. Also proved: a key that was shown is known
  (`ShownKeysAreKnown`).

Ten proved properties are in no run: `OnceWithoutOverlap`, `CopiesBounded`,
`AlertIsOnRecord`, `ShownIsStored` and `ShownKeysAreKnown`, because a refinement or
another property of the same run goes further or they hold by the order of two
statements; `JobsRunDown`, which a liveness property of its run goes further than;
and `DeliveredOnce`, `ResentAndFailed`, `MagicMailsStay` and `NothingVerifies`, which say what
one schema or the other leads to.

Every safety property of a run is proved, and so is what the two violated properties
say, for the schemas on which they hold. Only model-checked: liveness
(`EventuallyPurged`, `EventuallyFinished`, `EventuallyRotated`, `EventuallyEnds`), which
rests on fairness and ENABLED and is out of this prover's reach.

## 5. Where code and documentation part

Shown by a run: the two violations above. In `PROJECT.json` each quotes the
line it contradicts.

Seen while modelling, not a run of its own:

- `core/otp.py:121` writes *count read + 1*: overlapping calls count once, and a
  late one lowers the count, so that "locked after the attempts are used up"
  (`sdks/js/README.md:216`) holds for calls one after another only. What does hold
  is `LimitsWithoutOverlap` and `ComparedIsCounted`.
- `core/otp.py:9` says that invalidation on success "prevents replay attacks", and
  the update at line 132 tests nothing: two calls that overlap can both read the
  row before either consumes it, and are both answered "verified". `SingleUse` is what
  remains: no call that begins after an acceptance.
- The same limit is passed by a program that makes one call after the other, when
  it gives calls up (a timeout of its SDK): they go on in the API and write their stale
  counts. `LimitedUnlessGivenUp` is what holds.
- `magic.verify` of every SDK promises a result (`sdks/js/README.md:149`), but
  `GET /magic/verify/{token}` answers a page: the link is consumed and the caller gets the
  exception of a JSON parser.
- `sdks/js/src/client.ts:47` promises a `MailGuardError` "on any non-2xx response or
  timeout", `sdks/python/mailguard/client.py:64` on network failures too. `return response.json()` is not awaited, so that what happens to the
  body of a 200 is past the `catch`, and past the timer, which `finally` has
  cleared: such a call may hang (the exception in `EventuallyEnds`). In Python,
  `urllib` does not wrap what happens while the answer is awaited, and
  `asyncio.TimeoutError` is not an `aiohttp.ServerTimeoutError`; neither becomes a
  `MailGuardError`.
- `sdks/js/src/client.ts:89` speaks of a 403 `project_inactive`; no route answers it.
  The 429 of the IP tier has its fields at the top and not under `detail`, where the
  SDKs look, so its `retry_after` becomes their default of 60 seconds. A 403
  whose body is lost is no `SandboxError`.
- Nothing ever deletes a row of `magic_links`, expired or used.
- `tasks/purge_otps.py:10` says that the rows it deletes were never consumed;
  consuming sets `is_invalidated`, and the filter tests `is_verified`, which
  nothing ever sets, so consumed rows go too.
- `core/otp.py:66-68` computes `expires_at` before the insert (`core/db.py:298`) fixes the
  `created_at` that `get_active_otp` sorts by (line 326). Of two overlapping sends of one
  e-mail, the one that read its clock first can be inserted last. Its row is then the
  newest and expires first; once it is purged, the older code, if it is not expired, is
  accepted again. "The newest code counts, and no older one after it" holds for sends that
  do not overlap; `SupersededUnlessConsumed` says what holds for all.
- `core/magic_links.py:8` says that "a race condition cannot replay the same link
  twice", and its docstring at line 105 likewise; there is the same gap between
  read and update as for OTPs, and `SingleUse` is what remains. Line 78 inserts a NULL `redirect_url` where
  the caller gives none; the column is NOT NULL.
- `routes/magic.py:165` logs mails of type `magic_link`, which the CHECK of
  migration 007 refuses; so no magic-link mail is enqueued on the shipped schema.
- Migration 007 calls `email_logs` an immutable audit log; the task overwrites
  the status of its rows. A row
  whose enqueue failed stays `queued`.
- `core/rate_limiter.py:5-6`: the count "can never be skewed by concurrent
  requests". Calls with the same reading are one member, and a newer call evicts
  what an older, held-up one should still count. `WindowBound` is what remains:
  a bound on readings in the window that ends now. Refused calls are recorded
  too, so a client that keeps retrying stays locked out.
- `set_otp.py:20` says that the user "MUST confirm before the template is saved".
  `handle_preview_confirm` saves what `user_data` holds when the button comes. With
  `/setwebhook`, `/newproject` or a `/cancel` another conversation took in
  between, that is an empty subject and body, under the other wizard's project.
- `deliver_webhook.py:8` says `failure_count += 1`; the task reads the row and
  writes the sum back, so two jobs of one webhook that fail together count
  once. `FailuresAreCounted` is what remains. Nothing reads the count: failures
  never deactivate a webhook.
- `core/sender_rotation.py:11` says that a counter "resets automatically 24 hours
  after first use"; every increment renews the time to live, so the counter of a
  sender that sends once a day is never reset, and its usage grows until it is
  exhausted for good. `CounterCoversDay` is the other half, which holds.
- `core/sender_rotation.py:230-262` chooses among the senders as listed, by their limits
  as listed. One that `/addemail` adds, activates or gives another `daily_limit`
  meanwhile (`add_email.py:282-295`) is not considered, or by its old limit; a project
  can so be moved to another than the least used sender, or to one deactivated in
  Supabase after the list, until the next pass. `RotationIsJustified` excepts such
  senders by name.
- `core/jwt_utils.py:10` says that "blacklist entries self-clean when the token
  would have expired anyway": the time to live is rounded down and python-jose accepts
  a token throughout the second of its `exp`, so a revoked token is accepted
  again for up to two seconds before it ends.
- `/revokekey` asks for a UUID "visible in /keys"; `/keys` shows prefixes only.
- A `/cancel` whose reply fails clears the dictionary and not the state, after
  which `/newproject` can create a project with empty name and slug.
- `set_webhook.py` inserts the row before showing its secret; if that message
  fails, nobody has it, and confirming again inserts a second webhook.
- `session.py` uses a table `bot_sessions` that no migration creates.
- `add_email.py` verifies port 587 with STARTTLS; `core/smtp.py` always uses
  implicit TLS.

## 6. Assumptions

One clock for all hosts and the database, which does not go back (it is read at
different moments, though). Ids grow in the order of `created_at`, which is the order in
which the inserts take effect; `otp_expiry_seconds` of a project does not change. A JWT is issued without failure. An SMTP server takes
a login only at its host and with an address. python-telegram-bot handles one
update after another (`concurrent_updates` is off) and calls the first handler
of a group that matches. Redis runs MULTI/EXEC atomically and does not lose
acknowledged writes.

Rows of `sender_emails` are written by `/addemail` (`AddEmail`) and outside the repository
(`EditSender`), and not deleted; `sender_email_id` is written by the rotation cron only, once a project exists. No
row of `webhooks` is deleted, moved or activated again, and no row of `api_keys` is
deleted or activated again. A database call in a
thread whose task is cancelled (`asyncio.to_thread`) takes effect at once or never.

In `ClientSdk`, nobody else requests or enters an OTP of the same address
meanwhile, Python is 3.10 or newer (before, `socket.timeout` is no `TimeoutError`), and
the API's `otp_max_attempts` is what its 400 computes with.

## 7. Plan

Done, in the order of importance: what a customer's login depends on (OTPs,
magic links), what both depend on (e-mail delivery, rate limits), then the admin's
side (wizards), the spreading over senders, the events, the credentials, the
abstract job behind mails and events, and the SDKs on the other side of the API.
Left:

1. Composition of `EmailDelivery` and `SenderRotation`: the counter one increments
   is the one the other reads; a send counts for the sender it read, not for the
   one its project has meanwhile. In both modules the other side is an
   environment that may do all the other does, so that what each checks holds in
   the composition; what is missing is a property of the two together.
2. `Credentials` with what it protects: a token issued for an OTP of
   `OtpLifecycle`.
3. The part of `EventuallyEnds` that needs no fairness, as `JobsRunDown` for mails.

Given up: liveness of the wizards. That a conversation can always be ended is a
statement about what its admin could do, and nothing obliges him to.
