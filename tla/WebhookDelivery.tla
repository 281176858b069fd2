--------------------------- MODULE WebhookDelivery ---------------------------
(***************************************************************************)
(* Webhook events: fire_event (core/webhooks.py) lists the webhooks of the *)
(* project and enqueues one ARQ job per active subscriber, and             *)
(* task_deliver_webhook (apps/worker/tasks/deliver_webhook.py) POSTs the   *)
(* event a few times and, when all attempts have failed, counts the        *)
(* failure in the webhook's row.  Meanwhile webhooks are registered and    *)
(* deactivated (apps/api/routes/webhooks.py, apps/bot/commands/webhooks.py).*)
(*                                                                         *)
(* The routes run fire_event with asyncio.ensure_future: it goes on after  *)
(* the answer, next to everything else, and is lost when the process       *)
(* stops.  ARQ is external and as in EmailDelivery.  A row is never        *)
(* deleted, moved to another project or activated again, so that the reads *)
(* of a deactivation are one step with its update, and a job is named by   *)
(* its event and its webhook.                                              *)
(***************************************************************************)
EXTENDS Integers

CONSTANTS
    Webhooks,
    Events,       \* occurrences of events
    Subscribers,  \* per event, the webhooks of its project whose events have its name
    MaxAttempts,  \* _MAX_ATTEMPTS
    MaxTries,     \* ARQ's max_tries
    MaxRuns       \* bound: starts of tasks in all

ASSUME ConstantsAssumption ==
    /\ Subscribers \in [Events -> SUBSET Webhooks]
    /\ MaxAttempts \in Nat \ {0} /\ MaxTries \in Nat \ {0}

VARIABLES
    registered,     \* webhooks with a row
    is_active,      \* those that are active
    failure_count,  \* column of the rows
    fire,           \* where the fire_event of each event is
    todo,           \* subscribers it has not enqueued a job for yet
    queue,          \* jobs ARQ holds
    task,           \* local variables and control state of each job's task
    runs            \* what MaxRuns bounds

VARIABLES           \* history
    silenced,       \* webhooks whose deactivation was answered
    late,           \* <<e, w>>: e happened when w was silenced
    listed,         \* per event, the subscribers fire_event found
    enqueued,       \* jobs that were ever in the queue
    refused,        \* jobs whose enqueue_job raised
    posts,          \* per job, how many POSTs the endpoint received
    written,        \* per webhook, updates of failure_count
    overlapped      \* webhooks two of whose updates overlapped

rows == <<registered, is_active, failure_count>>
firing == <<fire, todo, listed, enqueued, refused>>
work == <<queue, task, runs>>
deactivation == <<silenced, late>>
counting == <<written, overlapped>>
vars == <<rows, firing, work, deactivation, counting, posts>>

Jobs == Events \X Webhooks
Hook(j) == j[2]

Task == [pc : {"idle", "post", "touch", "backoff", "read", "write", "done"},
         tries : 0..MaxTries, attempt : 1..MaxAttempts, count : Nat]

Init ==
    /\ registered \in SUBSET Webhooks /\ is_active = registered
    /\ failure_count = [w \in Webhooks |-> 0]
    /\ fire = [e \in Events |-> "none"]
    /\ todo = [e \in Events |-> {}]
    /\ queue = {}
    /\ task = [j \in Jobs |-> [pc |-> "idle", tries |-> 0, attempt |-> 1, count |-> 0]]
    /\ runs = 0
    /\ silenced = {} /\ late = {}
    /\ listed = [e \in Events |-> {}]
    /\ enqueued = {} /\ refused = {} /\ posts = [j \in Jobs |-> 0]
    /\ written = [w \in Webhooks |-> 0] /\ overlapped = {}

-----------------------------------------------------------------------------
(* The rows.                                                                *)

\* POST /webhooks, or the bot's wizard.
register_webhook(w) ==
    /\ w \notin registered
    /\ registered' = registered \union {w}
    /\ is_active' = is_active \union {w}
    /\ UNCHANGED <<failure_count, firing, work, deactivation,
                   counting, posts>>

\* DELETE /webhooks/{id}, which does not mind that the webhook is inactive, or
\* /removewebhook; the answer may be lost.
deactivate_webhook(w) ==
    /\ w \in registered
    /\ is_active' = is_active \ {w}
    /\ silenced' \in {silenced, silenced \union {w}}
    /\ UNCHANGED <<registered, failure_count, firing, work, late,
                   counting, posts>>

-----------------------------------------------------------------------------
(* fire_event.                                                              *)

\* A route schedules it.
Happen(e) ==
    /\ fire[e] = "none"
    /\ fire' = [fire EXCEPT ![e] = "list"]
    /\ late' = late \union ({e} \X silenced)
    /\ UNCHANGED <<rows, todo, listed, enqueued, refused, work, silenced, counting, posts>>

\* Mutant: webhooks that were deactivated are listed, too.
ListedInactive(e) == registered \intersect Subscribers[e]

Subscribed(e) == is_active \intersect Subscribers[e]

\* list_webhooks, the filter, and create_pool.
ListSubscribers(e) ==
    /\ fire[e] = "list"
    /\ fire' = [fire EXCEPT ![e] = IF Subscribed(e) = {} THEN "done" ELSE "enqueue"]
    /\ todo' = [todo EXCEPT ![e] = Subscribed(e)]
    /\ listed' = [listed EXCEPT ![e] = Subscribed(e)]
    /\ UNCHANGED <<rows, enqueued, refused, work, deactivation, counting, posts>>

\* The loop goes on, or ends behind the last subscriber.
NextSubscriber(e, w) ==
    /\ todo' = [todo EXCEPT ![e] = @ \ {w}]
    /\ fire' = [fire EXCEPT ![e] = IF todo[e] = {w} THEN "done" ELSE "enqueue"]

Enqueue(e, w) ==
    /\ fire[e] = "enqueue" /\ w \in todo[e]
    /\ queue' = queue \union {<<e, w>>}
    /\ enqueued' = enqueued \union {<<e, w>>}
    /\ NextSubscriber(e, w)
    /\ UNCHANGED <<rows, listed, refused, task, runs, deactivation, counting, posts>>

\* Mutant: the exception ends the loop.
AfterRefusalStop(e, w) ==
    /\ todo' = [todo EXCEPT ![e] = {}]
    /\ fire' = [fire EXCEPT ![e] = "done"]

\* Swallowed inside the loop.
AfterRefusal(e, w) == NextSubscriber(e, w)

\* enqueue_job raises, with or without its effect.
EnqueueRaises(e, w) ==
    /\ fire[e] = "enqueue" /\ w \in todo[e]
    /\ refused' = refused \union {<<e, w>>}
    /\ \/ UNCHANGED <<queue, enqueued>>
       \/ /\ queue' = queue \union {<<e, w>>}
          /\ enqueued' = enqueued \union {<<e, w>>}
    /\ AfterRefusal(e, w)
    /\ UNCHANGED <<rows, listed, task, runs, deactivation, counting, posts>>

\* The list or the connection to Redis fails, or the process stops: nobody
\* learns of it.
FireFails(e) ==
    /\ fire[e] \in {"list", "enqueue"}
    /\ fire' = [fire EXCEPT ![e] = "failed"]
    /\ todo' = [todo EXCEPT ![e] = {}]
    /\ UNCHANGED <<rows, listed, enqueued, refused, work, deactivation, counting, posts>>

-----------------------------------------------------------------------------
(* ARQ.                                                                     *)

Goto(j, label) == task' = [task EXCEPT ![j].pc = label]

\* A task that is over has lost its local variables.
Over(j, label) == [pc |-> label, tries |-> task[j].tries, attempt |-> 1, count |-> 0]
Return(j) == task' = [task EXCEPT ![j] = Over(j, "done")]

\* A secret that cannot be decrypted ends the task at once.
StartTask(j) ==
    /\ j \in queue /\ task[j].pc = "idle" /\ task[j].tries < MaxTries /\ runs < MaxRuns
    /\ \E label \in {"post", "done"} :
         task' = [task EXCEPT ![j] =
                    [pc |-> label, tries |-> @.tries + 1, attempt |-> 1, count |-> 0]]
    /\ runs' = runs + 1
    /\ UNCHANGED <<rows, firing, queue, deactivation, counting, posts>>

FinishJob(j) ==
    /\ j \in queue
    /\ \/ task[j].pc = "done"
       \/ task[j].pc = "idle" /\ task[j].tries = MaxTries
    /\ queue' = queue \ {j}
    /\ task' = [task EXCEPT ![j] = Over(j, "idle")]
    /\ UNCHANGED <<rows, firing, runs, deactivation, counting, posts>>

WorkerStops ==
    /\ \E j \in Jobs : task[j].pc # "idle"
    /\ task' = [j \in Jobs |-> Over(j, "idle")]
    /\ UNCHANGED <<rows, firing, queue, runs, deactivation, counting, posts>>

JobTimeout(j) ==
    /\ task[j].pc \notin {"idle", "done"}
    /\ Return(j)
    /\ UNCHANGED <<rows, firing, queue, runs, deactivation, counting, posts>>

-----------------------------------------------------------------------------
(* task_deliver_webhook.                                                    *)

\* Mutant: the loop goes round once too often.
AttemptFailsLate(j) ==
    Goto(j, IF task[j].attempt <= MaxAttempts THEN "backoff" ELSE "read")

\* The except branch of the loop.
AttemptFails(j) ==
    Goto(j, IF task[j].attempt < MaxAttempts THEN "backoff" ELSE "read")

\* The endpoint answers with a 2xx status.
PostAccepted(j) ==
    /\ task[j].pc = "post"
    /\ posts' = [posts EXCEPT ![j] = @ + 1]
    /\ Goto(j, "touch")
    /\ UNCHANGED <<rows, firing, queue, runs, deactivation, counting>>

\* Another status, a timeout or no connection; the endpoint may have got it.
PostFails(j) ==
    /\ task[j].pc = "post"
    /\ posts' \in {posts, [posts EXCEPT ![j] = @ + 1]}
    /\ AttemptFails(j)
    /\ UNCHANGED <<rows, firing, queue, runs, deactivation, counting>>

\* last_triggered_at, which nothing reads, is written inside the try of the
\* attempt: when the update raises, the event is sent again.
Touch(j) ==
    /\ task[j].pc = "touch"
    /\ Return(j) \/ AttemptFails(j)
    /\ UNCHANGED <<rows, firing, queue, runs, deactivation, counting, posts>>

\* The sleep of 10 or 60 seconds is over.
Backoff(j) ==
    /\ task[j].pc = "backoff"
    /\ task' = [task EXCEPT ![j].pc = "post", ![j].attempt = @ + 1]
    /\ UNCHANGED <<rows, firing, queue, runs, deactivation, counting, posts>>

\* Between get_webhook and update_webhook.
Counting(w) == {j \in Jobs : Hook(j) = w /\ task[j].pc = "write"}

ReadCount(j) ==
    /\ task[j].pc = "read"
    /\ task' = [task EXCEPT ![j].pc = "write", ![j].count = failure_count[Hook(j)]]
    /\ overlapped' = IF Counting(Hook(j)) = {} THEN overlapped
                     ELSE overlapped \union {Hook(j)}
    /\ UNCHANGED <<rows, firing, queue, runs, deactivation, written, posts>>

\* Mutant: a count that was read as zero is taken for missing, and stays.
NewCountLost(j) == IF task[j].count = 0 THEN 0 ELSE task[j].count + 1

NewCount(j) == task[j].count + 1

\* The alert follows; whether Telegram takes it changes nothing here.
WriteCount(j) ==
    /\ task[j].pc = "write"
    /\ failure_count' = [failure_count EXCEPT ![Hook(j)] = NewCount(j)]
    /\ written' = [written EXCEPT ![Hook(j)] = @ + 1]
    /\ Return(j)
    /\ UNCHANGED <<registered, is_active, firing, queue, runs,
                   deactivation, overlapped, posts>>

\* Reading or writing the count raises and is swallowed, and the alert follows.  An
\* update that only loses its answer is WriteCount.
CountRaises(j) ==
    /\ task[j].pc \in {"read", "write"}
    /\ Return(j)
    /\ UNCHANGED <<rows, firing, queue, runs, deactivation, counting, posts>>

-----------------------------------------------------------------------------

FireEvent(e) ==
    \/ Happen(e) \/ ListSubscribers(e) \/ FireFails(e)
    \/ \E w \in Webhooks : Enqueue(e, w) \/ EnqueueRaises(e, w)

Deliver(j) ==
    \/ StartTask(j) \/ FinishJob(j) \/ JobTimeout(j)
    \/ PostAccepted(j) \/ PostFails(j) \/ Touch(j) \/ Backoff(j)
    \/ ReadCount(j) \/ WriteCount(j) \/ CountRaises(j)

Next ==
    \/ \E w \in Webhooks : register_webhook(w) \/ deactivate_webhook(w)
    \/ \E e \in Events : FireEvent(e)
    \/ \E j \in Jobs : Deliver(j)
    \/ WorkerStops

Spec == Init /\ [][Next]_vars

-----------------------------------------------------------------------------
(* Properties.                                                              *)

\* Every variable stays within its type, a job that is being worked on is in the
\* queue, and a fire_event has subscribers left just as long as it loops.
TypeOK ==
    /\ registered \in SUBSET Webhooks /\ is_active \in SUBSET registered
    /\ failure_count \in [Webhooks -> Nat]
    /\ fire \in [Events -> {"none", "list", "enqueue", "done", "failed"}]
    /\ todo \in [Events -> SUBSET Webhooks]
    /\ \A e \in Events : todo[e] # {} <=> fire[e] = "enqueue"
    /\ queue \in SUBSET enqueued
    /\ task \in [Jobs -> Task]
    /\ \A j \in Jobs : task[j].pc # "idle" => j \in queue
    /\ runs \in Nat
    /\ silenced \in SUBSET Webhooks /\ late \in SUBSET Jobs
    /\ listed \in [Events -> SUBSET Webhooks]
    /\ enqueued \in SUBSET Jobs /\ refused \in SUBSET Jobs /\ posts \in [Jobs -> Nat]
    /\ written \in [Webhooks -> Nat] /\ overlapped \in SUBSET Webhooks

\* An endpoint is sent only what its webhook subscribes to, and nothing that
\* happened after the caller was told that the webhook is deactivated: jobs
\* that were enqueued before still go out, but no new ones come in.
OnlySubscribers ==
    \A j \in Jobs : posts[j] > 0 => Hook(j) \in Subscribers[j[1]] /\ j \notin late

\* Each subscriber that was active is enqueued or is itself the one whose
\* enqueueing raised: "A failure to enqueue one job never blocks or cancels
\* delivery to other endpoints" (core/webhooks.py:13), unless the whole
\* fire_event is lost.
FanOutIsIsolated ==
    \A e \in Events : fire[e] = "done" =>
        {e} \X listed[e] \subseteq enqueued \union refused

\* A delivery is what RetriedJob says: an event goes to a webhook's queue once,
\* its endpoint gets it while the job lasts and at most MaxAttempts times in each
\* of its MaxTries runs, although an update that fails after the POST makes the
\* task send it again; and a job that is over never runs again.
Delivery == INSTANCE RetriedJob WITH
    MaxTimes <- MaxAttempts * MaxTries, pending <- queue, over <- enqueued \ queue,
    times <- posts, recorded <- {}

DeliveredAsJob == Delivery!Spec

\* The failure count never runs ahead of the updates, and it is their number as
\* long as no two tasks of the webhook read and write it at the same time.
FailuresAreCounted ==
    \A w \in Webhooks :
        /\ failure_count[w] <= written[w]
        /\ w \notin overlapped => failure_count[w] = written[w]
=============================================================================
