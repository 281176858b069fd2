--------------------------- MODULE EmailDelivery ---------------------------
(***************************************************************************)
(* The way of one e-mail from POST /otp/send or /magic/send                *)
(* (apps/api/routes/otp.py, magic.py: insert_email_log, then               *)
(* _enqueue_email) over the ARQ queue in Redis to task_send_email          *)
(* (apps/worker/tasks/send_email.py), which tries SMTP a few times, writes *)
(* the outcome to email_logs and counts the mail in the sender's Redis     *)
(* counter (core/sender_rotation.py).                                      *)
(*                                                                         *)
(* An action is one call to Postgres, Redis or SMTP with the local code    *)
(* after it; all mails interleave, and one worker process runs all tasks.  *)
(* ARQ is external: a job stays in the queue until its task has returned   *)
(* or raised, is run again when its worker stopped, and is given up after  *)
(* MaxTries runs or when the task exceeds job_timeout.                     *)
(*                                                                         *)
(* StatusCheck and TypeCheck are the CHECK constraints of email_logs; those *)
(* of db/migrations/007_email_logs.sql are {"sent", "failed", "queued"}    *)
(* and {"otp", "magic"}, and the code writes "delivered" and "magic_link". *)
(***************************************************************************)
EXTENDS Integers

CONSTANTS
    Mails,        \* send calls, each with its mail, log row and job
    MagicMails,   \* those of /magic/send; the others are of /otp/send
    StatusCheck,  \* values the status column takes
    TypeCheck,    \* values the type column takes
    MaxAttempts,  \* _MAX_ATTEMPTS of send_email.py
    MaxTries      \* ARQ's max_tries, the default of 5 in the program

ASSUME ConstantsAssumption ==
    /\ {"queued", "failed"} \subseteq StatusCheck
    /\ MaxAttempts \in Nat \ {0} /\ MaxTries \in Nat \ {0}

VARIABLES
    api,         \* where each send call is
    email_logs,  \* status of each mail's row, "none" before the insert
    queue,       \* jobs ARQ holds
    task         \* local variables and control state of each mail's task

VARIABLES        \* what the outside saw, and history
    enqueued,    \* mails that were ever in the queue
    mailed,      \* times the SMTP server accepted each mail
    counted,     \* INCRs of sender:daily:{sender_id} made for each mail
    alerts       \* Telegram alerts about each mail

worldVars == <<enqueued, mailed, counted, alerts>>
vars == <<api, email_logs, queue, task, worldVars>>

\* tries is ARQ's job_try; attempt is the loop variable of task_send_email.
Task == [pc : {"idle", "load", "smtp", "log", "usage", "backoff",
               "fail", "alert", "done"},
         tries : 0..MaxTries, attempt : 1..MaxAttempts]

Init ==
    /\ api = [m \in Mails |-> "insert"]
    /\ email_logs = [m \in Mails |-> "none"]
    /\ queue = {}
    /\ task = [m \in Mails |-> [pc |-> "idle", tries |-> 0, attempt |-> 1]]
    /\ enqueued = {}
    /\ mailed = [m \in Mails |-> 0]
    /\ counted = [m \in Mails |-> 0]
    /\ alerts = [m \in Mails |-> 0]

-----------------------------------------------------------------------------
(* The send routes.  Whatever fails here, the caller is answered "sent" and *)
(* the .sent webhook event is fired: both when api becomes "answered".      *)

LogType(m) == IF m \in MagicMails THEN "magic_link" ELSE "otp"

Answer(m) == api' = [api EXCEPT ![m] = "answered"]

InsertLog(m) ==
    /\ api[m] = "insert"
    /\ IF LogType(m) \in TypeCheck
       THEN /\ email_logs' = [email_logs EXCEPT ![m] = "queued"]
            /\ api' = [api EXCEPT ![m] = "enqueue"]
       ELSE Answer(m) /\ UNCHANGED email_logs
    /\ UNCHANGED <<queue, task, worldVars>>

Enqueue(m) ==
    /\ api[m] = "enqueue"
    /\ queue' = queue \union {m}
    /\ enqueued' = enqueued \union {m}
    /\ Answer(m)
    /\ UNCHANGED <<email_logs, task, mailed, counted, alerts>>

\* No sender is configured, or one of the two calls raises: without effect, or
\* with a row that no job will ever take up.
SendWithoutJob(m) ==
    /\ api[m] # "answered"
    /\ \/ UNCHANGED email_logs
       \/ /\ api[m] = "insert" /\ LogType(m) \in TypeCheck
          /\ email_logs' = [email_logs EXCEPT ![m] = "queued"]
    /\ Answer(m)
    /\ UNCHANGED <<queue, task, worldVars>>

-----------------------------------------------------------------------------
(* ARQ.                                                                     *)

Goto(m, label) == task' = [task EXCEPT ![m].pc = label]

StartTask(m) ==
    /\ m \in queue /\ task[m].pc = "idle" /\ task[m].tries < MaxTries
    /\ task' = [task EXCEPT ![m] =
                  [pc |-> "load", tries |-> @.tries + 1, attempt |-> 1]]
    /\ UNCHANGED <<api, email_logs, queue, worldVars>>

\* The task has returned or raised, or there are no tries left.
FinishJob(m) ==
    /\ m \in queue
    /\ \/ task[m].pc = "done"
       \/ task[m].pc = "idle" /\ task[m].tries = MaxTries
    /\ queue' = queue \ {m}
    /\ Goto(m, "idle")
    /\ UNCHANGED <<api, email_logs, worldVars>>

\* The worker stops, or is stopped, with whatever runs in it.
WorkerStops ==
    /\ \E m \in Mails : task[m].pc # "idle"
    /\ task' = [m \in Mails |-> [task[m] EXCEPT !.pc = "idle"]]
    /\ UNCHANGED <<api, email_logs, queue, worldVars>>

\* The task is cancelled; CancelledError passes by its "except Exception".
JobTimeout(m) ==
    /\ task[m].pc \notin {"idle", "done"}
    /\ Goto(m, "done")
    /\ UNCHANGED <<api, email_logs, queue, worldVars>>

-----------------------------------------------------------------------------
(* task_send_email.                                                         *)

LoadSender(m) ==
    /\ task[m].pc = "load"
    /\ Goto(m, "smtp")
    /\ UNCHANGED <<api, email_logs, queue, worldVars>>

\* The row of the sender is gone: the task fails the mail and returns.
SenderNotFound(m) ==
    /\ task[m].pc = "load"
    /\ email_logs' = [email_logs EXCEPT ![m] = "failed"]
    /\ Goto(m, "done")
    /\ UNCHANGED <<api, queue, worldVars>>

\* Mutant: the loop goes round once too often.
AttemptFailsLate(m) ==
    Goto(m, IF task[m].attempt <= MaxAttempts THEN "backoff" ELSE "fail")

\* The except branch of the loop.
AttemptFails(m) ==
    Goto(m, IF task[m].attempt < MaxAttempts THEN "backoff" ELSE "fail")

\* Mutant: the log is written, and then the mail is sent.
LogFirst(m) ==
    /\ task[m].pc = "smtp"
    /\ email_logs' = [email_logs EXCEPT ![m] = "delivered"]
    /\ Goto(m, "log")
    /\ UNCHANGED <<api, queue, worldVars>>

SmtpAccepts(m) ==
    /\ task[m].pc = "smtp"
    /\ mailed' = [mailed EXCEPT ![m] = @ + 1]
    /\ Goto(m, "log")
    /\ UNCHANGED <<api, email_logs, queue, enqueued, counted, alerts>>

\* send_email raises; the server may have taken the mail all the same.
SmtpFails(m) ==
    /\ task[m].pc = "smtp"
    /\ mailed' \in {mailed, [mailed EXCEPT ![m] = @ + 1]}
    /\ AttemptFails(m)
    /\ UNCHANGED <<api, email_logs, queue, enqueued, counted, alerts>>

\* Inside the same try as send_email: a rejected update is a failed attempt.
LogDelivered(m) ==
    /\ task[m].pc = "log"
    /\ IF "delivered" \in StatusCheck
       THEN /\ email_logs' = [email_logs EXCEPT ![m] = "delivered"]
            /\ Goto(m, "usage")
       ELSE AttemptFails(m) /\ UNCHANGED email_logs
    /\ UNCHANGED <<api, queue, worldVars>>

\* The update raises, with or without its effect.
LogDeliveredRaises(m) ==
    /\ task[m].pc = "log"
    /\ \/ UNCHANGED email_logs
       \/ /\ "delivered" \in StatusCheck
          /\ email_logs' = [email_logs EXCEPT ![m] = "delivered"]
    /\ AttemptFails(m)
    /\ UNCHANGED <<api, queue, worldVars>>

\* Mutant: an increment that raises is retried once.
IncrementTwice(m) ==
    /\ task[m].pc = "usage"
    /\ counted' \in {[counted EXCEPT ![m] = @ + 1], [counted EXCEPT ![m] = @ + 2]}
    /\ Goto(m, "done")
    /\ UNCHANGED <<api, email_logs, queue, enqueued, mailed, alerts>>

\* increment_sender_usage; its exceptions are swallowed, INCR done or not.
IncrementUsage(m) ==
    /\ task[m].pc = "usage"
    /\ counted' \in {counted, [counted EXCEPT ![m] = @ + 1]}
    /\ Goto(m, "done")
    /\ UNCHANGED <<api, email_logs, queue, enqueued, mailed, alerts>>

\* Mutant: the attempt is not counted.
BackoffUncounted(m) ==
    /\ task[m].pc = "backoff"
    /\ Goto(m, "smtp")
    /\ UNCHANGED <<api, email_logs, queue, worldVars>>

\* asyncio.sleep ends and the loop goes round.
Backoff(m) ==
    /\ task[m].pc = "backoff"
    /\ task' = [task EXCEPT ![m].pc = "smtp", ![m].attempt = @ + 1]
    /\ UNCHANGED <<api, email_logs, queue, worldVars>>

\* After the loop.
LogFailed(m) ==
    /\ task[m].pc = "fail"
    /\ email_logs' = [email_logs EXCEPT ![m] = "failed"]
    /\ Goto(m, "alert")
    /\ UNCHANGED <<api, queue, worldVars>>

\* get_sender_email or an update outside the loop raises, and so the task ends.
TaskRaises(m) ==
    /\ task[m].pc \in {"load", "fail"}
    /\ email_logs' \in {email_logs, [email_logs EXCEPT ![m] = "failed"]}
    /\ Goto(m, "done")
    /\ UNCHANGED <<api, queue, worldVars>>

Alert(m) ==
    /\ task[m].pc = "alert"
    /\ alerts' \in {alerts, [alerts EXCEPT ![m] = @ + 1]}
    /\ Goto(m, "done")
    /\ UNCHANGED <<api, email_logs, queue, enqueued, mailed, counted>>

-----------------------------------------------------------------------------

\* What happens when nothing fails.
Progress(m) ==
    \/ InsertLog(m) \/ Enqueue(m)
    \/ StartTask(m) \/ FinishJob(m)
    \/ LoadSender(m) \/ SmtpAccepts(m) \/ LogDelivered(m) \/ IncrementUsage(m)
    \/ Backoff(m) \/ LogFailed(m) \/ Alert(m)

Failure(m) ==
    \/ SendWithoutJob(m) \/ JobTimeout(m) \/ SenderNotFound(m)
    \/ SmtpFails(m) \/ LogDeliveredRaises(m) \/ TaskRaises(m)

\* Every mail is dealt with, and the program waits for the next request.
Settled == queue = {} /\ \A m \in Mails : api[m] = "answered"

Next ==
    \/ \E m \in Mails : Progress(m) \/ Failure(m)
    \/ WorkerStops
    \/ Settled /\ UNCHANGED vars

Spec == Init /\ [][Next]_vars

\* Postgres, Redis and SMTP do what they are asked, and nothing stops.
Reliable == \E m \in Mails : Progress(m)
ReliableSpec == Init /\ [][Reliable]_vars

\* A worker is there (again), calls return or raise and sleeps end.
WorkerStep(m) ==
    \/ StartTask(m) \/ FinishJob(m)
    \/ LoadSender(m) \/ SmtpAccepts(m) \/ SmtpFails(m) \/ LogDelivered(m)
    \/ IncrementUsage(m) \/ Backoff(m) \/ LogFailed(m) \/ Alert(m)

FairSpec == Spec /\ \A m \in Mails : WF_vars(WorkerStep(m))

-----------------------------------------------------------------------------
(* Properties.                                                              *)

\* Every variable stays within its type.
TypeOK ==
    /\ api \in [Mails -> {"insert", "enqueue", "answered"}]
    /\ email_logs \in [Mails -> {"none", "queued", "delivered", "failed"}]
    /\ queue \in SUBSET enqueued
    /\ enqueued \in SUBSET Mails
    /\ task \in [Mails -> Task]
    /\ mailed \in [Mails -> Nat]
    /\ counted \in [Mails -> Nat]
    /\ alerts \in [Mails -> Nat]

\* A recipient gets at most MaxAttempts copies of a mail from one run of its
\* task, however the run fails and wherever the worker stops.
CopiesBounded == \A m \in Mails : mailed[m] <= MaxAttempts * task[m].tries

\* A mail is what RetriedJob says: it goes to the queue once, it is sent while its
\* job lasts and at most MaxAttempts times in each of its MaxTries runs, however
\* they fail, and the log calls it delivered only if an SMTP server took it.
Job == INSTANCE RetriedJob WITH
    Jobs <- Mails, MaxTimes <- MaxAttempts * MaxTries,
    pending <- queue, over <- enqueued \ queue, times <- mailed,
    recorded <- {m \in Mails : email_logs[m] = "delivered"}

MailedAsJob == Job!Spec

\* The sender's counter is never ahead of the mails it stands for, crashes and
\* repeated runs included: rotation may come late, not early.
UsageNotAhead == \A m \in Mails : counted[m] <= mailed[m]

\* The admin is alerted only about a mail whose failure is on record, unless a
\* later run of the job has delivered it since.
AlertIsOnRecord ==
    \A m \in Mails : alerts[m] > 0 => email_logs[m] \in {"failed", "delivered"}

\* No job is stuck: with SMTP, Postgres and Redis failing as they like and the
\* worker stopping at any point, every job leaves the queue.
EventuallyFinished == \A m \in Mails : (m \in queue) ~> (m \notin queue)

-----------------------------------------------------------------------------
(* What the repository says of this code and the code does not do.          *)

\* "On success the row status is updated to 'delivered'"
\* (apps/worker/tasks/send_email.py:12): with no fault anywhere, a mail that was
\* accepted and whose task is over is logged as delivered.  On the shipped
\* schema the update is rejected, the mail is sent again, and logged as failed.
SuccessIsLogged ==
    \A m \in Mails : (mailed[m] > 0 /\ task[m].pc = "done")
                        => email_logs[m] = "delivered"

=============================================================================
