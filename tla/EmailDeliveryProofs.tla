------------------------ MODULE EmailDeliveryProofs ------------------------
(***************************************************************************)
(* Proofs about EmailDelivery, for every set of mails, both kinds of CHECK *)
(* constraint, and every number of attempts and tries.                     *)
(*                                                                         *)
(* Every action is about one mail, or moves tasks to "idle": MailInv says  *)
(* of one mail what the place of its task implies about the mails already  *)
(* accepted, counted and alerted, and IInv says it of all.                 *)
(***************************************************************************)
EXTENDS EmailDelivery, TLAPS

\* One run of the task adds at most MaxAttempts copies; Copies(m) is what the
\* runs up to and including the present one may add up to.
Copies(m) == MaxAttempts * task[m].tries

MailInv(m) ==
    /\ api[m] # "answered" => m \notin enqueued
    /\ task[m].pc # "idle" => m \in queue
    /\ m \notin enqueued => mailed[m] = 0 /\ alerts[m] = 0
    /\ email_logs[m] = "delivered" => mailed[m] > 0
    /\ alerts[m] > 0 => email_logs[m] \in {"failed", "delivered"}
    /\ task[m].pc = "alert" => email_logs[m] = "failed"
    /\ counted[m] <= mailed[m]
    /\ task[m].pc \in {"log", "usage"} => counted[m] < mailed[m]
    /\ mailed[m] <= Copies(m)
    /\ task[m].pc = "load" => mailed[m] + MaxAttempts <= Copies(m)
    /\ task[m].pc = "smtp" =>
           mailed[m] + MaxAttempts < Copies(m) + task[m].attempt
    /\ task[m].pc \in {"log", "backoff"} =>
           mailed[m] + MaxAttempts <= Copies(m) + task[m].attempt
    /\ task[m].pc = "backoff" => task[m].attempt < MaxAttempts

IInv == TypeOK /\ \A m \in Mails : MailInv(m)

-----------------------------------------------------------------------------

(* One more try allows MaxAttempts more copies.                             *)
LEMMA OneMoreTry ==
    \A a, b \in Nat : a * (b + 1) = a * b + a /\ a * b \in Nat
  OBVIOUS

(* Nothing is sent yet: the invariant holds initially.                      *)
LEMMA InitInv == Init => IInv
<1> SUFFICES ASSUME Init PROVE IInv
  OBVIOUS
<1>1. TypeOK
  BY ConstantsAssumption DEF Init, TypeOK, Task
<1>2. ASSUME NEW m \in Mails PROVE MailInv(m)
  <2>1. task[m] = [pc |-> "idle", tries |-> 0, attempt |-> 1]
    BY DEF Init
  <2>2. Copies(m) = 0
    BY <2>1, ConstantsAssumption DEF Copies
  <2>3. QED
    BY <2>1, <2>2 DEF Init, MailInv
<1>3. QED
  BY <1>1, <1>2 DEF IInv

(* A step that changes what belongs to one mail only needs to be looked at  *)
(* for that mail.                                                           *)
LEMMA OneMail ==
    ASSUME IInv, NEW m \in Mails, TypeOK', MailInv(m)',
           \A n \in Mails \ {m} :
               /\ api'[n] = api[n] /\ email_logs'[n] = email_logs[n]
               /\ task'[n] = task[n] /\ mailed'[n] = mailed[n]
               /\ counted'[n] = counted[n] /\ alerts'[n] = alerts[n]
               /\ n \in enqueued' <=> n \in enqueued
               /\ n \in queue' <=> n \in queue
    PROVE  IInv'
<1>1. ASSUME NEW n \in Mails \ {m} PROVE MailInv(n)'
  BY DEF IInv, MailInv, Copies
<1>2. QED
  BY <1>1 DEF IInv

(* The send routes: before the job is enqueued its task has not begun.      *)
LEMMA SendInv ==
    ASSUME IInv, NEW m \in Mails,
           InsertLog(m) \/ Enqueue(m) \/ SendWithoutJob(m)
    PROVE  IInv'
<1> USE DEF IInv, InsertLog, Enqueue, SendWithoutJob, Answer, worldVars
<1>1. TypeOK'
  BY DEF TypeOK
<1>2. MailInv(m)'
  BY DEF MailInv, Copies, TypeOK
<1>3. QED
  BY <1>1, <1>2, OneMail DEF TypeOK

(* StartTask allows MaxAttempts more copies; FinishJob forgets the place.   *)
LEMMA ArqInv ==
    ASSUME IInv, NEW m \in Mails, StartTask(m) \/ FinishJob(m)
    PROVE  IInv'
<1> USE DEF IInv, worldVars
<1>1. CASE StartTask(m)
  <2>1. task[m].tries \in Nat /\ task[m].tries < MaxTries /\ MaxAttempts \in Nat
    BY <1>1, ConstantsAssumption DEF StartTask, TypeOK, Task
  <2>2. task'[m] = [pc |-> "load", tries |-> task[m].tries + 1, attempt |-> 1]
    BY <1>1 DEF StartTask, TypeOK
  <2>3. Copies(m)' = Copies(m) + MaxAttempts /\ Copies(m) \in Nat
    BY <2>1, <2>2, OneMoreTry DEF Copies
  <2>4. TypeOK'
    BY <1>1, <2>1, ConstantsAssumption DEF StartTask, TypeOK, Task
  <2>5. MailInv(m)'
    BY <1>1, <2>1, <2>2, <2>3 DEF StartTask, MailInv, TypeOK
  <2>6. QED
    BY <1>1, <2>4, <2>5, OneMail DEF StartTask, TypeOK
<1>2. CASE FinishJob(m)
  <2> USE <1>2 DEF FinishJob, Goto
  <2>1. TypeOK'
    BY DEF TypeOK, Task
  <2>2. MailInv(m)'
    BY DEF MailInv, Copies, TypeOK, Task
  <2>3. QED
    BY <2>1, <2>2, OneMail DEF TypeOK
<1>3. QED
  BY <1>1, <1>2

(* Forgetting where tasks were is safe for every mail.                      *)
LEMMA WorkerStopsInv == IInv /\ WorkerStops => IInv'
<1> SUFFICES ASSUME IInv, WorkerStops PROVE IInv'
  OBVIOUS
<1> USE DEF IInv, WorkerStops, worldVars
<1>1. TypeOK'
  BY DEF TypeOK, Task
<1>2. ASSUME NEW m \in Mails PROVE MailInv(m)'
  BY DEF MailInv, Copies, TypeOK, Task
<1>3. QED
  BY <1>1, <1>2

(* A task moved to another place is still a task.                           *)
LEMMA GotoType ==
    ASSUME TypeOK, NEW m \in Mails,
           NEW label \in {"smtp", "log", "usage", "backoff", "fail", "alert", "done"},
           Goto(m, label)
    PROVE  task' \in [Mails -> Task]
<1>1. task[m] \in Task
  BY DEF TypeOK
<1>2. [task[m] EXCEPT !.pc = label] \in Task
  BY <1>1 DEF Task
<1>3. task' = [task EXCEPT ![m] = [task[m] EXCEPT !.pc = label]]
  BY DEF Goto, TypeOK
<1>4. QED
  BY <1>2, <1>3 DEF TypeOK

(* The steps of task_send_email up to the end of its loop.                  *)
LEMMA LoopInv ==
    ASSUME IInv, NEW m \in Mails,
           \/ LoadSender(m) \/ SmtpAccepts(m) \/ SmtpFails(m)
           \/ LogDelivered(m) \/ LogDeliveredRaises(m) \/ Backoff(m)
    PROVE  IInv'
<1> USE DEF IInv, worldVars, Goto, AttemptFails
<1>0. Copies(m) \in Nat /\ MaxAttempts \in Nat \ {0}
  BY ConstantsAssumption, OneMoreTry DEF Copies, TypeOK, Task
<1>1. CASE LoadSender(m)
  <2> USE <1>1 DEF LoadSender
  <2>1. TypeOK'
    BY DEF TypeOK, Task
  <2>2. task'[m].tries = task[m].tries /\ task'[m].attempt = task[m].attempt
    BY DEF TypeOK, Task
  <2>3. MailInv(m)'
    BY <1>0, <2>2 DEF MailInv, Copies, TypeOK, Task
  <2>4. QED
    BY <2>1, <2>3, OneMail DEF TypeOK
<1>2. CASE SmtpAccepts(m)
  <2> USE <1>2 DEF SmtpAccepts
  <2>1. TypeOK'
    BY DEF TypeOK, Task
  <2>2. MailInv(m)'
    BY <1>0 DEF MailInv, Copies, TypeOK, Task
  <2>3. QED
    BY <2>1, <2>2, OneMail DEF TypeOK
<1>3. CASE SmtpFails(m)
  <2> USE <1>3 DEF SmtpFails
  <2>1. TypeOK'
    <3>1. task' \in [Mails -> Task]
      BY GotoType
    <3>2. mailed' \in [Mails -> Nat]
      BY DEF TypeOK
    <3>3. QED
      BY <3>1, <3>2 DEF TypeOK
  <2>2. MailInv(m)'
    BY <1>0 DEF MailInv, Copies, TypeOK, Task
  <2>3. QED
    BY <2>1, <2>2, OneMail DEF TypeOK
<1>4. CASE LogDelivered(m) \/ LogDeliveredRaises(m)
  <2> USE <1>4 DEF LogDelivered, LogDeliveredRaises
  <2>1. TypeOK'
    <3>1. task' \in [Mails -> Task]
      BY GotoType
    <3>2. email_logs' \in [Mails -> {"none", "queued", "delivered", "failed"}]
      BY DEF TypeOK
    <3>3. QED
      BY <3>1, <3>2 DEF TypeOK
  <2>2. MailInv(m)'
    BY <1>0, SMTT(30) DEF MailInv, Copies, TypeOK, Task
  <2>3. QED
    BY <2>1, <2>2, OneMail DEF TypeOK
<1>5. CASE Backoff(m)
  <2> USE <1>5 DEF Backoff
  <2>1. task[m].attempt + 1 \in 1..MaxAttempts
    BY <1>0 DEF MailInv, TypeOK, Task
  <2>2. TypeOK'
    BY <2>1 DEF TypeOK, Task
  <2>3. MailInv(m)'
    BY <1>0, <2>1 DEF MailInv, Copies, TypeOK, Task
  <2>4. QED
    BY <2>2, <2>3, OneMail DEF TypeOK
<1>6. QED
  BY <1>1, <1>2, <1>3, <1>4, <1>5

(* The steps that end the task, whatever its outcome.                       *)
LEMMA EndInv ==
    ASSUME IInv, NEW m \in Mails,
           \/ SenderNotFound(m) \/ JobTimeout(m) \/ IncrementUsage(m)
           \/ LogFailed(m) \/ TaskRaises(m) \/ Alert(m)
    PROVE  IInv'
<1> USE DEF IInv, worldVars, Goto
<1>1. CASE SenderNotFound(m) \/ JobTimeout(m) \/ LogFailed(m) \/ TaskRaises(m)
  <2> USE <1>1 DEF SenderNotFound, JobTimeout, LogFailed, TaskRaises
  <2>1. TypeOK'
    <3>1. task' \in [Mails -> Task]
      BY GotoType
    <3>2. email_logs' \in [Mails -> {"none", "queued", "delivered", "failed"}]
      BY DEF TypeOK
    <3>3. QED
      BY <3>1, <3>2 DEF TypeOK
  <2>2. MailInv(m)'
    BY DEF MailInv, Copies, TypeOK, Task
  <2>3. QED
    BY <2>1, <2>2, OneMail DEF TypeOK
<1>2. CASE IncrementUsage(m) \/ Alert(m)
  <2> USE <1>2 DEF IncrementUsage, Alert
  <2>1. TypeOK'
    <3>1. task' \in [Mails -> Task]
      BY GotoType
    <3>2. counted' \in [Mails -> Nat] /\ alerts' \in [Mails -> Nat]
      BY DEF TypeOK
    <3>3. QED
      BY <3>1, <3>2 DEF TypeOK
  <2>2. task'[m].pc = "done" /\ task'[m].tries = task[m].tries /\ m \in queue
    BY DEF MailInv, TypeOK, Task
  <2>3. MailInv(m)'
    <3>1. CASE IncrementUsage(m)
      BY <2>2, <3>1 DEF MailInv, Copies, TypeOK
    <3>2. CASE Alert(m)
      BY <2>2, <3>2 DEF MailInv, Copies, TypeOK
    <3>3. QED
      BY <1>2, <3>1, <3>2
  <2>4. QED
    BY <2>1, <2>3, OneMail DEF TypeOK
<1>3. QED
  BY <1>1, <1>2

(* Every step keeps the invariant.                                          *)
LEMMA NextInv == IInv /\ [Next]_vars => IInv'
<1> SUFFICES ASSUME IInv, [Next]_vars PROVE IInv'
  OBVIOUS
<1>1. CASE UNCHANGED vars
  BY <1>1 DEF vars, worldVars, IInv, TypeOK, MailInv, Copies
<1>2. ASSUME NEW m \in Mails, Progress(m) \/ Failure(m) PROVE IInv'
  BY <1>2, SendInv, ArqInv, LoopInv, EndInv DEF Progress, Failure
<1>3. QED
  BY <1>1, <1>2, WorkerStopsInv DEF Next

(* The inductive invariant holds in every reachable state.                  *)
THEOREM Invariance == Spec => []IInv
  BY InitInv, NextInv, PTL DEF Spec

(* Type correctness.                                                        *)
THEOREM TypeCorrect == Spec => []TypeOK
<1>1. IInv => TypeOK
  BY DEF IInv
<1>2. QED
  BY Invariance, <1>1, PTL

(* At most MaxAttempts copies of a mail leave per run of its task, and so   *)
(* at most MaxAttempts * MaxTries in all.                                   *)
THEOREM CopiesAreBounded == Spec => []CopiesBounded
<1>1. IInv => CopiesBounded
  BY DEF IInv, MailInv, Copies, CopiesBounded
<1>2. QED
  BY Invariance, <1>1, PTL

(* The usage counter counts no mail that was not sent, whatever crashes and *)
(* repeated runs do.                                                        *)
THEOREM UsageIsNotAhead == Spec => []UsageNotAhead
<1>1. IInv => UsageNotAhead
  BY DEF IInv, MailInv, UsageNotAhead
<1>2. QED
  BY Invariance, <1>1, PTL

(* The alert comes only after the failure is in email_logs.                 *)
THEOREM AlertsAreOnRecord == Spec => []AlertIsOnRecord
<1>1. IInv => AlertIsOnRecord
  BY DEF IInv, MailInv, AlertIsOnRecord
<1>2. QED
  BY Invariance, <1>1, PTL

-----------------------------------------------------------------------------
(* EmailDelivery implements RetriedJob.                                     *)

Delivered == {m \in Mails : email_logs[m] = "delivered"}

(* More tries allow more copies.                                            *)
LEMMA TriesBound ==
    ASSUME NEW a \in Nat, NEW t \in 0..MaxTries PROVE a * t <= a * MaxTries
<1>1. PICK d \in Nat : MaxTries = t + d
  <2>1. MaxTries - t \in Nat /\ MaxTries = t + (MaxTries - t)
    BY ConstantsAssumption
  <2>2. QED
    BY <2>1
<1>2. a * (t + d) = a * t + a * d /\ a * t \in Nat /\ a * d \in Nat
  OBVIOUS
<1>3. QED
  BY <1>1, <1>2

(* Nothing is in the queue, sent or logged yet.                             *)
LEMMA JobInit == Init => Job!Init
  BY DEF Init, Job!Init

(* A step that changes neither queue nor copies nor what is on record.      *)
LEMMA JobStutter ==
    ASSUME UNCHANGED <<queue, enqueued, mailed>>, Delivered' = Delivered
    PROVE  UNCHANGED Job!jobVars
  BY DEF Job!jobVars, Delivered

(* A mail that the server takes is the work of a job that is pending and    *)
(* has a copy left.                                                         *)
LEMMA JobWork ==
    ASSUME IInv, NEW m \in Mails, task[m].pc = "smtp",
           mailed' = [mailed EXCEPT ![m] = @ + 1],
           UNCHANGED <<queue, enqueued, email_logs>>
    PROVE  Job!Work(m)
<1>1. m \in queue /\ mailed[m] + MaxAttempts < MaxAttempts * task[m].tries + task[m].attempt
  BY DEF IInv, MailInv, Copies
<1>2. /\ task[m].tries \in 0..MaxTries /\ task[m].attempt \in 1..MaxAttempts
      /\ mailed[m] \in Nat /\ MaxAttempts \in Nat /\ MaxTries \in Nat
  BY ConstantsAssumption DEF IInv, TypeOK, Task
<1>3. MaxAttempts * task[m].tries <= MaxAttempts * MaxTries
  BY <1>2, TriesBound
<1>4. MaxAttempts * task[m].tries \in Nat /\ MaxAttempts * MaxTries \in Nat
  BY <1>2, OneMoreTry
<1>5. mailed[m] < MaxAttempts * MaxTries
  BY ONLY <1>1, <1>2, <1>3, <1>4
<1>6. QED
  BY <1>1, <1>5 DEF Job!Work

(* A log that is written is recorded, withdrawn or neither.                 *)
LEMMA JobRecord ==
    ASSUME IInv, NEW m \in Mails, NEW status \in {"delivered", "failed"},
           email_logs' \in {email_logs, [email_logs EXCEPT ![m] = status]},
           task[m].pc # "idle", status = "delivered" => mailed[m] > 0,
           UNCHANGED <<queue, enqueued, mailed>>
    PROVE  [Job!Next]_(Job!jobVars)
<1>1. CASE email_logs' = email_logs
  BY <1>1, JobStutter DEF Delivered
<1>2. CASE email_logs' = [email_logs EXCEPT ![m] = status]
  <2>1. m \in queue /\ email_logs' = [email_logs EXCEPT ![m] = status]
    BY <1>2 DEF IInv, MailInv
  <2>2. CASE status = "delivered"
    <3>1. Delivered' = Delivered \union {m}
      BY <2>1, <2>2 DEF Delivered, IInv, TypeOK
    <3>2. Job!Record(m)
      BY <2>1, <2>2, <3>1 DEF Job!Record, Delivered
    <3>3. QED
      BY <3>2 DEF Job!Next
  <2>3. CASE status = "failed"
    <3>1. Delivered' = Delivered \ {m}
      BY <2>1, <2>3 DEF Delivered, IInv, TypeOK
    <3>2. Job!Withdraw(m)
      BY <2>1, <3>1 DEF Job!Withdraw, Delivered
    <3>3. QED
      BY <3>2 DEF Job!Next
  <2>4. QED
    BY <2>2, <2>3
<1>3. QED
  BY <1>1, <1>2

(* The steps of a send route: one submits the job, the others are none of   *)
(* the job's, as the row of a mail that is not enqueued is not delivered.   *)
LEMMA JobSend ==
    ASSUME IInv, NEW m \in Mails, InsertLog(m) \/ Enqueue(m) \/ SendWithoutJob(m)
    PROVE  [Job!Next]_(Job!jobVars)
<1>1. CASE Enqueue(m)
  <2>1. m \notin enqueued /\ queue \subseteq enqueued
    BY <1>1 DEF Enqueue, IInv, MailInv, TypeOK
  <2>2. Job!Submit(m)
    BY <1>1, <2>1 DEF Enqueue, Job!Submit
  <2>3. QED
    BY <2>2 DEF Job!Next
<1>2. CASE InsertLog(m) \/ SendWithoutJob(m)
  <2>1. email_logs[m] # "delivered"
    <3>1. m \notin enqueued
      BY <1>2 DEF InsertLog, SendWithoutJob, IInv, MailInv
    <3>2. mailed[m] = 0
      BY <3>1 DEF IInv, MailInv
    <3>3. QED
      BY <3>2 DEF IInv, MailInv
  <2>2. email_logs' \in {email_logs, [email_logs EXCEPT ![m] = "queued"]}
        /\ UNCHANGED <<queue, enqueued, mailed>>
    BY <1>2 DEF InsertLog, SendWithoutJob, worldVars
  <2>3. Delivered' = Delivered
    BY <2>1, <2>2 DEF Delivered, IInv, TypeOK
  <2>4. QED
    BY <2>2, <2>3, JobStutter
<1>3. QED
  BY <1>1, <1>2

(* Every step is one of RetriedJob, or a stutter.                           *)
LEMMA JobStep == IInv /\ [Next]_vars => [Job!Next]_(Job!jobVars)
<1> SUFFICES ASSUME IInv, [Next]_vars PROVE [Job!Next]_(Job!jobVars)
  OBVIOUS
<1>1. CASE UNCHANGED <<queue, enqueued, mailed, email_logs>>
  BY <1>1, JobStutter DEF Delivered
<1>2. ASSUME NEW m \in Mails, FinishJob(m) PROVE [Job!Next]_(Job!jobVars)
  <2>1. m \in queue /\ queue' = queue \ {m} /\ UNCHANGED <<enqueued, mailed, email_logs>>
    BY <1>2 DEF FinishJob, worldVars
  <2>2. Job!End(m)
    BY <2>1 DEF Job!End, IInv, TypeOK
  <2>3. QED
    BY <2>2 DEF Job!Next
<1>3. ASSUME NEW m \in Mails, SmtpAccepts(m) \/ SmtpFails(m)
      PROVE  [Job!Next]_(Job!jobVars)
  <2>1. CASE mailed' = mailed
    BY <1>1, <1>3, <2>1 DEF SmtpAccepts, SmtpFails
  <2>2. CASE mailed' = [mailed EXCEPT ![m] = @ + 1]
    <3>1. Job!Work(m)
      BY <1>3, <2>2, JobWork DEF SmtpAccepts, SmtpFails
    <3>2. QED
      BY <3>1 DEF Job!Next
  <2>3. QED
    BY <1>3, <2>1, <2>2 DEF SmtpAccepts, SmtpFails
<1>4. ASSUME NEW m \in Mails, LogDelivered(m) \/ LogDeliveredRaises(m)
      PROVE  [Job!Next]_(Job!jobVars)
  <2>1. task[m].pc = "log" /\ UNCHANGED <<queue, enqueued, mailed>>
        /\ email_logs' \in {email_logs, [email_logs EXCEPT ![m] = "delivered"]}
    BY <1>4 DEF LogDelivered, LogDeliveredRaises, worldVars
  <2>2. mailed[m] > 0
    BY <2>1 DEF IInv, MailInv, TypeOK
  <2>3. QED
    BY <2>1, <2>2, JobRecord
<1>5. ASSUME NEW m \in Mails, SenderNotFound(m) \/ LogFailed(m) \/ TaskRaises(m)
      PROVE  [Job!Next]_(Job!jobVars)
  <2>1. task[m].pc # "idle" /\ UNCHANGED <<queue, enqueued, mailed>>
        /\ email_logs' \in {email_logs, [email_logs EXCEPT ![m] = "failed"]}
    BY <1>5 DEF SenderNotFound, LogFailed, TaskRaises, worldVars
  <2>2. QED
    BY <2>1, JobRecord
<1>6. ASSUME NEW m \in Mails, Progress(m) \/ Failure(m) PROVE [Job!Next]_(Job!jobVars)
  <2>1. CASE \/ StartTask(m) \/ LoadSender(m) \/ IncrementUsage(m) \/ Backoff(m)
             \/ Alert(m) \/ JobTimeout(m)
    BY <1>1, <2>1
       DEF StartTask, LoadSender, IncrementUsage, Backoff, Alert, JobTimeout, worldVars
  <2>2. QED
    BY <1>2, <1>3, <1>4, <1>5, <1>6, <2>1, JobSend DEF Progress, Failure
<1>7. QED
  BY <1>1, <1>6 DEF Next, WorkerStops, vars, worldVars

(* A mail's job is what RetriedJob says, whatever the numbers of attempts   *)
(* and tries: queued once, sent while it lasts and not more often than its  *)
(* runs allow, and on record as delivered only when it was sent.            *)
THEOREM Refinement == Spec => MailedAsJob
<1>1. Spec => Job!Init /\ [][Job!Next]_(Job!jobVars)
  BY JobInit, JobStep, Invariance, PTL DEF Spec
<1>2. QED
  BY <1>1 DEF MailedAsJob, Job!Spec

-----------------------------------------------------------------------------
(* Every job runs down.                                                     *)
(*                                                                          *)
(* EventuallyFinished needs fairness and stays with TLC; that no job can go *)
(* round for ever needs none.  ARQ starts a job at most MaxTries times, and *)
(* within one run Distance(m), the steps its task still has before it at    *)
(* most, only goes down: attempts left, four steps each, then the place.    *)

Distance(m) ==
    CASE task[m].pc = "load"    -> 4 * MaxAttempts + 3
      [] task[m].pc = "smtp"    -> 4 * (MaxAttempts - task[m].attempt) + 6
      [] task[m].pc = "log"     -> 4 * (MaxAttempts - task[m].attempt) + 5
      [] task[m].pc = "backoff" -> 4 * (MaxAttempts - task[m].attempt) + 4
      [] task[m].pc = "fail"    -> 3
      [] task[m].pc \in {"alert", "usage"} -> 2
      [] task[m].pc = "done"    -> 1
      [] task[m].pc = "idle"    -> 0

\* A task that moves begins another of its MaxTries runs, comes nearer to the
\* end of the present one, or is over for good.
JobsRunDown ==
    [][\A m \in Mails : task'[m] # task[m] =>
          \/ task'[m].tries = task[m].tries + 1 /\ task'[m].tries <= MaxTries
          \/ task'[m].tries = task[m].tries /\ Distance(m)' \in 0..(Distance(m) - 1)
          \/ m \in enqueued' \ queue']_vars

(* The order in which a run of the task visits its places: a move along it  *)
(* comes nearer to the end.                                                 *)
Moves(m, label) ==
    \/ label \in {"idle", "done"} /\ task[m].pc \notin {"idle", "done"}
    \/ label = "idle" /\ task[m].pc = "done"
    \/ label = "smtp" /\ task[m].pc = "load"
    \/ label = "log" /\ task[m].pc = "smtp"
    \/ label \in {"backoff", "fail"} /\ task[m].pc \in {"smtp", "log"}
    \/ label = "usage" /\ task[m].pc = "log"
    \/ label = "alert" /\ task[m].pc = "fail"

LEMMA MovesNearer ==
    ASSUME IInv, NEW m \in Mails, NEW label, Moves(m, label),
           task'[m] = [task[m] EXCEPT !.pc = label]
    PROVE  task'[m].tries = task[m].tries /\ Distance(m)' \in 0..(Distance(m) - 1)
<1>1. task[m] \in Task /\ MaxAttempts \in Nat \ {0}
  BY ConstantsAssumption DEF IInv, TypeOK
<1>2. /\ task'[m].pc = label /\ task'[m].attempt = task[m].attempt
      /\ task'[m].tries = task[m].tries
  BY <1>1 DEF Task
<1>3. task[m].attempt \in Int /\ 1 <= task[m].attempt /\ task[m].attempt <= MaxAttempts
  BY <1>1 DEF Task
<1>4. Distance(m)' \in Int /\ 0 <= Distance(m)' /\ Distance(m)' < Distance(m)
      /\ Distance(m) \in Int
  BY <1>1, <1>2, <1>3 DEF Moves, Distance, Task
<1>5. QED
  BY <1>2, <1>4

(* A job cannot go round for ever, whatever fails: each of its MaxTries runs *)
(* comes nearer to its end with every step, the retries of its loop          *)
(* included.                                                                 *)
THEOREM JobsComeToAnEnd == Spec => JobsRunDown
<1> DEFINE Down(m) ==
        task'[m] # task[m] =>
          \/ task'[m].tries = task[m].tries + 1 /\ task'[m].tries <= MaxTries
          \/ task'[m].tries = task[m].tries /\ Distance(m)' \in 0..(Distance(m) - 1)
          \/ m \in enqueued' \ queue'
<1>1. ASSUME IInv, NEW m \in Mails, Progress(m) \/ Failure(m) PROVE Down(m)
  <2> USE <1>1
  <2>1. ASSUME NEW label, Moves(m, label), Goto(m, label) PROVE Down(m)
    <3>1. task'[m] = [task[m] EXCEPT !.pc = label]
      BY <2>1 DEF Goto, IInv, TypeOK
    <3>2. QED
      BY <2>1, <3>1, MovesNearer
  <2>2. CASE UNCHANGED task
    BY <2>2
  <2>3. CASE StartTask(m)
    <3>1. task'[m].tries = task[m].tries + 1 /\ task[m].tries < MaxTries
      BY <2>3 DEF StartTask, IInv, TypeOK
    <3>2. task[m].tries \in Nat
      BY DEF IInv, TypeOK, Task
    <3>3. QED
      BY <3>1, <3>2, ConstantsAssumption
  <2>4. CASE FinishJob(m)
    BY <2>4 DEF FinishJob, worldVars, IInv, TypeOK
  <2>5. CASE LoadSender(m) \/ SenderNotFound(m) \/ SmtpAccepts(m) \/ JobTimeout(m)
    BY <2>1, <2>5 DEF LoadSender, SenderNotFound, SmtpAccepts, JobTimeout, Moves
  <2>6. CASE SmtpFails(m) \/ LogDelivered(m) \/ LogDeliveredRaises(m)
    BY <2>1, <2>6
       DEF SmtpFails, LogDelivered, LogDeliveredRaises, AttemptFails, Moves
  <2>7. CASE IncrementUsage(m) \/ LogFailed(m) \/ TaskRaises(m) \/ Alert(m)
    BY <2>1, <2>7 DEF IncrementUsage, LogFailed, TaskRaises, Alert, Moves
  <2>8. CASE Backoff(m)
    <3>1. task[m] \in Task /\ MaxAttempts \in Nat \ {0}
      BY ConstantsAssumption DEF IInv, TypeOK
    <3>2. /\ task[m].pc = "backoff" /\ task'[m].pc = "smtp"
          /\ task'[m].attempt = task[m].attempt + 1
          /\ task'[m].tries = task[m].tries
      BY <2>8, <3>1 DEF Backoff, IInv, TypeOK, Task
    <3>3. task[m].attempt \in Nat /\ task[m].attempt < MaxAttempts
      BY <3>1, <3>2 DEF IInv, MailInv, Task
    <3>4. Distance(m) = 4 * (MaxAttempts - task[m].attempt) + 4
          /\ Distance(m)' = 4 * (MaxAttempts - (task[m].attempt + 1)) + 6
      BY <3>2 DEF Distance
    <3>5. QED
      BY <3>1, <3>2, <3>3, <3>4
  <2>9. QED
    BY <2>2, <2>3, <2>4, <2>5, <2>6, <2>7, <2>8
       DEF Progress, Failure, InsertLog, Enqueue, SendWithoutJob
<1>2. ASSUME IInv, NEW m \in Mails, WorkerStops PROVE Down(m)
  <2>1. task'[m] = [task[m] EXCEPT !.pc = "idle"]
    BY <1>2 DEF WorkerStops
  <2>2. CASE task[m].pc = "idle"
    BY <1>2, <2>1, <2>2 DEF IInv, TypeOK, Task
  <2>3. CASE task[m].pc # "idle"
    BY <1>2, <2>1, <2>3, MovesNearer DEF Moves
  <2>4. QED
    BY <2>2, <2>3
<1>3. ASSUME IInv, NEW m \in Mails, NEW n \in Mails \ {m}, Progress(n) \/ Failure(n)
      PROVE  task'[m] = task[m]
  <2> USE DEF IInv, TypeOK, Goto
  <2>1. ASSUME NEW label, Goto(n, label) PROVE task'[m] = task[m]
    BY <1>3, <2>1
  <2>2. CASE StartTask(n) \/ Backoff(n)
    BY <1>3, <2>2 DEF StartTask, Backoff
  <2> HIDE DEF Goto
  <2>3. QED
    BY <1>3, <2>1, <2>2
       DEF Progress, Failure, InsertLog, Enqueue, SendWithoutJob, FinishJob, LoadSender,
           SmtpAccepts, LogDelivered, IncrementUsage, LogFailed, Alert, JobTimeout,
           SenderNotFound, SmtpFails, LogDeliveredRaises, TaskRaises, AttemptFails
<1>4. IInv /\ [Next]_vars => [\A m \in Mails : Down(m)]_vars
  BY <1>1, <1>2, <1>3 DEF Next
<1>5. QED
  BY <1>4, Invariance, PTL DEF Spec, JobsRunDown

-----------------------------------------------------------------------------
(* What the CHECK constraints of email_logs decide.                         *)
(*                                                                          *)
(* With no fault anywhere a mail's job is run once, and the copies it has   *)
(* sent follow from the place of its task.  Whether "delivered" is a status *)
(* the table takes decides how the loop ends.                               *)

Taken == "delivered" \in StatusCheck

\* The one run of the task has returned.
Over(m) == task[m].pc = "done" \/ m \in enqueued \ queue

FaultlessInv(m) ==
    /\ task[m].pc = "idle" /\ m \notin enqueued \ queue =>
           mailed[m] = 0 /\ task[m].tries = 0
    /\ task[m].pc = "load" => mailed[m] = 0 /\ task[m].attempt = 1
    /\ task[m].pc = "smtp" => mailed[m] = task[m].attempt - 1
    /\ task[m].pc \in {"log", "usage", "backoff"} => mailed[m] = task[m].attempt
    /\ task[m].pc \in {"fail", "alert"} => mailed[m] = MaxAttempts
    /\ Taken =>
           /\ task[m].pc \notin {"backoff", "fail", "alert"}
           /\ task[m].pc \in {"smtp", "log", "usage"} => task[m].attempt = 1
           /\ task[m].pc = "usage" \/ Over(m) => email_logs[m] = "delivered"
           /\ Over(m) => mailed[m] = 1
    /\ ~Taken =>
           /\ task[m].pc # "usage"
           /\ Over(m) => mailed[m] = MaxAttempts /\ email_logs[m] = "failed"

FaultlessIInv == IInv /\ \A m \in Mails : FaultlessInv(m)

\* No mail is sent twice, and one whose task is over was sent and logged so.
DeliveredOnce ==
    \A m \in Mails :
        mailed[m] <= 1 /\ (Over(m) => mailed[m] = 1 /\ email_logs[m] = "delivered")

\* Every mail whose task is over was sent MaxAttempts times and is logged as
\* failed.
ResentAndFailed ==
    \A m \in Mails :
        Over(m) => mailed[m] = MaxAttempts /\ email_logs[m] = "failed"

\* No magic-link mail is ever enqueued, let alone sent.
MagicMailsStay ==
    \A m \in MagicMails \intersect Mails : m \notin enqueued /\ mailed[m] = 0

(* Nothing is sent and no task has begun.                                   *)
LEMMA FaultlessInit == Init => FaultlessIInv
<1> SUFFICES ASSUME Init PROVE FaultlessIInv
  OBVIOUS
<1>1. ASSUME NEW m \in Mails PROVE FaultlessInv(m)
  BY DEF Init, FaultlessInv, Over
<1>2. QED
  BY <1>1, InitInv DEF FaultlessIInv

(* A step of one mail leaves what is said of the others.                    *)
LEMMA FaultlessOther ==
    ASSUME IInv, NEW m \in Mails, Progress(m), NEW n \in Mails \ {m},
           FaultlessInv(n)
    PROVE  FaultlessInv(n)'
<1>1. /\ task'[n] = task[n] /\ mailed'[n] = mailed[n]
      /\ email_logs'[n] = email_logs[n]
      /\ n \in enqueued' <=> n \in enqueued
      /\ n \in queue' <=> n \in queue
  <2> USE DEF IInv, TypeOK, worldVars
  <2>1. CASE InsertLog(m) \/ Enqueue(m)
    BY <2>1 DEF InsertLog, Enqueue
  <2>2. CASE StartTask(m) \/ FinishJob(m)
    BY <2>2 DEF StartTask, FinishJob, Goto
  <2>3. CASE LoadSender(m) \/ SmtpAccepts(m) \/ LogDelivered(m)
    BY <2>3 DEF LoadSender, SmtpAccepts, LogDelivered, Goto, AttemptFails
  <2>4. CASE IncrementUsage(m) \/ Backoff(m) \/ LogFailed(m) \/ Alert(m)
    BY <2>4 DEF IncrementUsage, Backoff, LogFailed, Alert, Goto
  <2>5. QED
    BY <2>1, <2>2, <2>3, <2>4 DEF Progress
<1>2. QED
  BY <1>1 DEF FaultlessInv, Over

(* A step of the mail itself.                                               *)
LEMMA FaultlessOwn ==
    ASSUME IInv, NEW m \in Mails, Progress(m), FaultlessInv(m)
    PROVE  FaultlessInv(m)'
<1>0. /\ MaxAttempts \in Nat \ {0} /\ MaxTries \in Nat \ {0}
      /\ task[m] \in Task /\ mailed[m] \in Nat /\ queue \subseteq enqueued
      /\ m \in Mails /\ MailInv(m)
  BY ConstantsAssumption DEF IInv, TypeOK
<1>1. CASE InsertLog(m) \/ Enqueue(m)
  <2>1. task' = task /\ mailed' = mailed /\ api[m] # "answered"
    BY <1>1 DEF InsertLog, Enqueue, worldVars
  <2>2. m \notin enqueued /\ task[m].pc = "idle"
    BY <1>0, <2>1 DEF MailInv
  <2>3. m \notin enqueued' \ queue'
    BY <1>1, <2>2 DEF InsertLog, Enqueue, worldVars
  <2>4. QED
    BY <2>1, <2>2, <2>3 DEF FaultlessInv, Over
<1>2. CASE StartTask(m)
  <2>1. task'[m] = [pc |-> "load", tries |-> task[m].tries + 1, attempt |-> 1]
    BY <1>2 DEF StartTask, IInv, TypeOK
  <2>2. mailed' = mailed /\ queue' = queue /\ m \in queue /\ task[m].pc = "idle"
    BY <1>2 DEF StartTask, worldVars
  <2>3. QED
    BY <2>1, <2>2 DEF FaultlessInv, Over
<1>3. CASE FinishJob(m)
  <2>1. task[m].pc = "done"
    BY <1>0, <1>3 DEF FinishJob, FaultlessInv
  <2>2. task'[m].pc = "idle" /\ m \in enqueued' \ queue'
    BY <1>0, <1>3 DEF FinishJob, Goto, IInv, TypeOK, worldVars
  <2>3. mailed' = mailed /\ email_logs' = email_logs
    BY <1>3 DEF FinishJob, worldVars
  <2>4. QED
    BY <2>1, <2>2, <2>3 DEF FaultlessInv, Over
<1>4. ASSUME task[m].pc \notin {"idle", "done"} PROVE m \in queue
  BY <1>0, <1>4 DEF MailInv
<1>5. CASE LoadSender(m) \/ SmtpAccepts(m) \/ LogDelivered(m)
  <2> USE DEF LoadSender, SmtpAccepts, LogDelivered
  <2>1. m \in queue /\ queue' = queue
    BY <1>4, <1>5
  <2>2. task'[m].tries = task[m].tries /\ task'[m].attempt = task[m].attempt
    BY <1>0, <1>5 DEF Goto, AttemptFails, IInv, TypeOK, Task
  <2>3. CASE LoadSender(m)
    <3>1. task'[m].pc = "smtp" /\ task[m].pc = "load" /\ mailed' = mailed
      BY <1>0, <2>3 DEF Goto, IInv, TypeOK, Task, worldVars
    <3>2. QED
      BY <1>0, <2>1, <2>2, <3>1 DEF FaultlessInv, Over
  <2>4. CASE SmtpAccepts(m)
    <3>1. task'[m].pc = "log" /\ task[m].pc = "smtp" /\ mailed'[m] = mailed[m] + 1
      BY <1>0, <2>4 DEF Goto, IInv, TypeOK, Task
    <3>2. task[m].attempt \in Nat
      BY <1>0 DEF Task
    <3>3. QED
      BY <1>0, <2>1, <2>2, <3>1, <3>2 DEF FaultlessInv, Over
  <2>5. CASE LogDelivered(m)
    <3>1. task[m].pc = "log" /\ mailed' = mailed
      BY <2>5 DEF worldVars
    <3>2. CASE Taken
      <4>1. task'[m].pc = "usage" /\ email_logs'[m] = "delivered"
        BY <1>0, <2>5, <3>2 DEF Taken, Goto, IInv, TypeOK, Task
      <4>2. QED
        BY <2>1, <2>2, <3>1, <3>2, <4>1 DEF FaultlessInv, Over
    <3>3. CASE ~Taken
      <4>1. task'[m].pc = IF task[m].attempt < MaxAttempts THEN "backoff" ELSE "fail"
        BY <1>0, <2>5, <3>3 DEF Taken, Goto, AttemptFails, IInv, TypeOK, Task
      <4>2. task[m].attempt \in 1..MaxAttempts
        BY <1>0 DEF Task
      <4>3. QED
        BY <1>0, <2>1, <2>2, <3>1, <3>3, <4>1, <4>2 DEF FaultlessInv, Over
    <3>4. QED
      BY <3>2, <3>3
  <2>6. QED
    BY <1>5, <2>3, <2>4, <2>5
<1>6. CASE IncrementUsage(m) \/ Alert(m)
  <2>1. task[m].pc \in {"usage", "alert"} /\ mailed' = mailed
        /\ email_logs' = email_logs
    BY <1>6 DEF IncrementUsage, Alert
  <2>2. task'[m].pc = "done"
    BY <1>0, <1>6 DEF IncrementUsage, Alert, Goto, IInv, TypeOK, Task
  <2>3. task[m].pc = "alert" => email_logs[m] = "failed"
    BY <1>0 DEF MailInv
  <2>4. QED
    BY <2>1, <2>2, <2>3 DEF FaultlessInv, Over
<1>7. CASE Backoff(m)
  <2>1. task[m].pc = "backoff" /\ task'[m].pc = "smtp" /\ mailed' = mailed
        /\ task'[m].attempt = task[m].attempt + 1 /\ task[m].attempt \in Nat
    BY <1>0, <1>7 DEF Backoff, IInv, TypeOK, Task, worldVars
  <2>2. m \in queue /\ queue' = queue
    BY <1>4, <1>7 DEF Backoff
  <2>3. QED
    BY <1>0, <2>1, <2>2 DEF FaultlessInv, Over
<1>8. CASE LogFailed(m)
  <2>1. task[m].pc = "fail" /\ task'[m].pc = "alert" /\ mailed' = mailed
    BY <1>0, <1>8 DEF LogFailed, Goto, IInv, TypeOK, Task, worldVars
  <2>2. m \in queue /\ queue' = queue
    BY <1>4, <1>8 DEF LogFailed
  <2>3. QED
    BY <2>1, <2>2 DEF FaultlessInv, Over
<1>9. QED
  BY <1>1, <1>2, <1>3, <1>5, <1>6, <1>7, <1>8 DEF Progress

(* What a run without faults does follows from the CHECK constraint alone.  *)
LEMMA FaultlessInvariance == ReliableSpec => []FaultlessIInv
<1>1. FaultlessIInv /\ [Reliable]_vars => FaultlessIInv'
  <2> SUFFICES ASSUME FaultlessIInv, [Reliable]_vars PROVE FaultlessIInv'
    OBVIOUS
  <2>1. IInv'
    BY NextInv DEF FaultlessIInv, Reliable, Next
  <2>2. CASE UNCHANGED vars
    BY <2>1, <2>2 DEF FaultlessIInv, FaultlessInv, Over, vars, worldVars
  <2>3. ASSUME NEW m \in Mails, Progress(m) PROVE \A n \in Mails : FaultlessInv(n)'
    BY <2>3, FaultlessOther, FaultlessOwn DEF FaultlessIInv
  <2>4. QED
    BY <2>1, <2>2, <2>3 DEF Reliable, FaultlessIInv
<1>2. QED
  BY <1>1, FaultlessInit, PTL DEF ReliableSpec

(* On a schema that takes the status the code writes, an accepted mail whose *)
(* task is over is logged as delivered, as send_email.py:12 says: the CHECK  *)
(* constraint is all that the finding about the log is about.                *)
THEOREM TakenStatusIsLogged ==
    ASSUME "delivered" \in StatusCheck PROVE ReliableSpec => []SuccessIsLogged
<1>1. FaultlessIInv => SuccessIsLogged
  BY DEF FaultlessIInv, FaultlessInv, SuccessIsLogged, Over, Taken
<1>2. QED
  BY <1>1, FaultlessInvariance, PTL

(* On such a schema a run without faults sends each mail once.              *)
THEOREM TakenStatusSendsOnce ==
    ASSUME "delivered" \in StatusCheck PROVE ReliableSpec => []DeliveredOnce
<1>1. FaultlessIInv => DeliveredOnce
  <2> SUFFICES ASSUME FaultlessIInv, NEW m \in Mails
               PROVE  mailed[m] <= 1 /\ (Over(m) => /\ mailed[m] = 1
                                                    /\ email_logs[m] = "delivered")
    BY DEF DeliveredOnce
  <2>1. task[m] \in Task /\ FaultlessInv(m) /\ Taken
    BY DEF FaultlessIInv, IInv, TypeOK, Taken
  <2>2. QED
    BY <2>1 DEF FaultlessInv, Over, Task
<1>2. QED
  BY <1>1, FaultlessInvariance, PTL

(* On the shipped schema a run without faults sends every mail MaxAttempts   *)
(* times and logs it as failed: the finding is not an interleaving but what  *)
(* each and every mail meets.                                                *)
THEOREM RefusedStatusResends ==
    ASSUME "delivered" \notin StatusCheck PROVE ReliableSpec => []ResentAndFailed
<1>1. FaultlessIInv => ResentAndFailed
  BY DEF FaultlessIInv, FaultlessInv, ResentAndFailed, Taken
<1>2. QED
  BY <1>1, FaultlessInvariance, PTL

(* On a schema without the type "magic_link", such as the shipped one, no    *)
(* magic-link mail is ever sent, whatever fails or does not.                 *)
THEOREM RefusedTypeSendsNothing ==
    ASSUME "magic_link" \notin TypeCheck PROVE Spec => []MagicMailsStay
<1> DEFINE Stay == \A m \in MagicMails \intersect Mails :
                       api[m] # "enqueue" /\ m \notin enqueued
<1>1. Init => Stay
  BY DEF Init
<1>2. Stay /\ IInv /\ [Next]_vars => Stay'
  <2> SUFFICES ASSUME Stay, IInv, [Next]_vars, NEW m \in MagicMails \intersect Mails
               PROVE  api'[m] # "enqueue" /\ m \notin enqueued'
    OBVIOUS
  <2>1. CASE UNCHANGED <<api, enqueued>>
    BY <2>1
  <2>2. ASSUME NEW n \in Mails, InsertLog(n) \/ Enqueue(n) \/ SendWithoutJob(n)
        PROVE  api'[m] # "enqueue" /\ m \notin enqueued'
    <3>1. LogType(m) \notin TypeCheck
      BY DEF LogType
    <3>2. api'[m] # "enqueue"
      BY <2>2, <3>1 DEF InsertLog, Enqueue, SendWithoutJob, Answer, IInv, TypeOK
    <3>3. m \notin enqueued'
      BY <2>2 DEF InsertLog, Enqueue, SendWithoutJob, worldVars
    <3>4. QED
      BY <3>2, <3>3
  <2>3. ASSUME NEW n \in Mails, Progress(n) \/ Failure(n)
        PROVE  api'[m] # "enqueue" /\ m \notin enqueued'
    <3>1. CASE StartTask(n) \/ FinishJob(n) \/ JobTimeout(n)
      BY <2>1, <3>1 DEF StartTask, FinishJob, JobTimeout, worldVars
    <3>2. CASE \/ LoadSender(n) \/ SmtpAccepts(n) \/ LogDelivered(n)
               \/ SenderNotFound(n) \/ SmtpFails(n) \/ LogDeliveredRaises(n)
      BY <2>1, <3>2 DEF LoadSender, SmtpAccepts, LogDelivered, SenderNotFound,
                        SmtpFails, LogDeliveredRaises, worldVars
    <3>3. CASE \/ IncrementUsage(n) \/ Backoff(n) \/ LogFailed(n) \/ Alert(n)
               \/ TaskRaises(n)
      BY <2>1, <3>3 DEF IncrementUsage, Backoff, LogFailed, Alert, TaskRaises,
                        worldVars
    <3>4. QED
      BY <2>2, <2>3, <3>1, <3>2, <3>3 DEF Progress, Failure
  <2>4. QED
    BY <2>1, <2>3 DEF Next, WorkerStops, vars, worldVars
<1>3. Stay /\ IInv => MagicMailsStay
  BY DEF IInv, MailInv, MagicMailsStay
<1>4. QED
  BY <1>1, <1>2, <1>3, Invariance, PTL DEF Spec

=============================================================================
