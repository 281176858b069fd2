----------------------- MODULE WebhookDeliveryProofs -----------------------
(***************************************************************************)
(* Proofs about WebhookDelivery, for any webhooks, events, subscriptions   *)
(* and numbers of attempts.                                                *)
(*                                                                         *)
(* OnlySubscribers speaks of POSTs; the invariant follows an endpoint's    *)
(* being allowed to get an event from the list over the fan-out and the    *)
(* queue to the task (FanOutInv).  FailuresAreCounted needs to know what   *)
(* the tasks between read and write hold: a count that is not ahead of the *)
(* updates, and, while they do not overlap, the count of the row (HookInv).*)
(* That a delivery is a RetriedJob rests on how many POSTs the place of a  *)
(* task in its loop still allows (RetryInv).                               *)
(***************************************************************************)
EXTENDS WebhookDelivery, TLAPS

\* The endpoint of w may be sent event e.
Allowed(e, w) == w \in Subscribers[e] /\ <<e, w>> \notin late

SilenceInv ==
    /\ silenced \in SUBSET registered
    /\ silenced \intersect is_active = {}
    /\ \A e \in Events, w \in Webhooks : <<e, w>> \in late => w \in silenced
    /\ \A j \in Jobs : posts[j] > 0 => j \in enqueued

FanOutInv(e) ==
    /\ fire[e] \in {"none", "list"} => \A w \in Webhooks : <<e, w>> \notin enqueued
    /\ \A w \in todo[e] : Allowed(e, w) /\ <<e, w>> \notin enqueued
    /\ \A w \in Webhooks : <<e, w>> \in enqueued => Allowed(e, w)
    /\ fire[e] \in {"enqueue", "done"} =>
         \A w \in listed[e] : w \in todo[e] \/ <<e, w>> \in enqueued \union refused

HookInv(w) ==
    /\ failure_count[w] <= written[w]
    /\ w \notin overlapped => failure_count[w] = written[w]
    /\ \A j \in Counting(w) : task[j].count <= written[w]
    /\ w \notin overlapped =>
         \A j \in Counting(w) : /\ task[j].count = failure_count[w]
                                /\ Counting(w) = {j}

\* A run of the task that is at t, after n POSTs of all the runs: those of its
\* own and of earlier ones stay within their MaxAttempts each, and a task that
\* waits has an attempt left.
Within(t, n) ==
    /\ n <= MaxAttempts * t.tries
    /\ t.pc = "post" => n + MaxAttempts < MaxAttempts * t.tries + t.attempt
    /\ t.pc \in {"touch", "backoff"} =>
           n + MaxAttempts <= MaxAttempts * t.tries + t.attempt
    /\ t.pc = "backoff" => t.attempt < MaxAttempts

RetryInv == \A j \in Jobs : Within(task[j], posts[j])

IInv ==
    /\ TypeOK
    /\ RetryInv
    /\ SilenceInv
    /\ \A e \in Events : FanOutInv(e)
    /\ \A w \in Webhooks : HookInv(w)

-----------------------------------------------------------------------------
(* Initially no event has happened and nothing is counted.                  *)
LEMMA InitInv == Init => IInv
<1> SUFFICES ASSUME Init PROVE IInv
  OBVIOUS
<1>1. TypeOK
  <2>1. task \in [Jobs -> Task]
    BY ConstantsAssumption DEF Init, Task
  <2>2. QED
    BY <2>1 DEF Init, TypeOK
<1>2. SilenceInv
  BY DEF Init, SilenceInv
<1>3. ASSUME NEW e \in Events PROVE FanOutInv(e)
  BY DEF Init, FanOutInv
<1>4. ASSUME NEW w \in Webhooks PROVE HookInv(w)
  <2>1. Counting(w) = {}
    BY DEF Init, Counting
  <2>2. QED
    BY <2>1 DEF Init, HookInv
<1>5. RetryInv
  <2>1. MaxAttempts \in Nat /\ MaxAttempts * 0 = 0
    BY ConstantsAssumption
  <2>2. QED
    BY <2>1 DEF Init, RetryInv, Within
<1>6. QED
  BY <1>1, <1>2, <1>3, <1>4, <1>5 DEF IInv

-----------------------------------------------------------------------------
(* Rows and fan-out: nothing here touches a task or a count.                *)

(* Counts and tasks that are as before keep their invariant.                *)
LEMMA HookKept ==
    ASSUME IInv, UNCHANGED <<failure_count, task, counting>>, NEW w \in Webhooks
    PROVE  HookInv(w)'
<1>1. Counting(w)' = Counting(w) /\ HookInv(w)
  BY DEF IInv, Counting
<1>2. UNCHANGED <<written, overlapped>>
  BY DEF counting
<1>3. QED
  BY <1>1, <1>2 DEF HookInv

(* Registering a webhook or deactivating one.                               *)
LEMMA RowStep ==
    ASSUME IInv, NEW w \in Webhooks, register_webhook(w) \/ deactivate_webhook(w)
    PROVE  IInv'
<1>1. UNCHANGED <<failure_count, fire, todo, listed, enqueued, refused,
                  queue, task, runs, late, counting, posts>>
  BY DEF register_webhook, deactivate_webhook, firing, work, deactivation
<1>2. registered' \in SUBSET Webhooks /\ is_active' \in SUBSET registered'
      /\ silenced' \in SUBSET registered' /\ silenced' \intersect is_active' = {}
      /\ silenced \subseteq silenced'
  BY DEF register_webhook, deactivate_webhook, deactivation, IInv, TypeOK, SilenceInv
<1>3. TypeOK'
  BY <1>1, <1>2 DEF IInv, TypeOK, counting
<1>4. SilenceInv'
  BY <1>1, <1>2 DEF IInv, SilenceInv
<1>5. \A e \in Events : FanOutInv(e)'
  BY <1>1 DEF IInv, FanOutInv, Allowed
<1>6. QED
  BY <1>1, <1>3, <1>4, <1>5, HookKept DEF IInv, RetryInv, Within

(* One event happens, is fanned out, or is lost: what remains to be shown   *)
(* of such a step is its own event's part.                                  *)
LEMMA FireStep ==
    ASSUME IInv, NEW e \in Events, FireEvent(e)
    PROVE  IInv'
<1>1. UNCHANGED <<registered, is_active, failure_count, task, runs,
                  silenced, counting, posts>>
  BY DEF FireEvent, Happen, ListSubscribers, FireFails, Enqueue, EnqueueRaises, rows,
     work, deactivation
<1>2. /\ enqueued \subseteq enqueued' /\ enqueued' \in SUBSET Jobs
      /\ refused \subseteq refused' /\ refused' \in SUBSET Jobs
      /\ queue \subseteq queue' /\ queue' \in SUBSET enqueued'
      /\ late' \in SUBSET Jobs
  BY DEF FireEvent, Happen, ListSubscribers, FireFails, Enqueue, EnqueueRaises, work,
     deactivation, IInv, TypeOK, Jobs
<1>3. ASSUME NEW d \in Events, d # e
      PROVE  /\ fire'[d] = fire[d] /\ todo'[d] = todo[d] /\ listed'[d] = listed[d]
             /\ \A w \in Webhooks : /\ <<d, w>> \in enqueued' <=> <<d, w>> \in enqueued
                                    /\ <<d, w>> \in late' <=> <<d, w>> \in late
  BY <1>3 DEF FireEvent, Happen, ListSubscribers, FireFails, Enqueue, EnqueueRaises,
     NextSubscriber, AfterRefusal, work, deactivation, IInv, TypeOK
<1>4. /\ fire' \in [Events -> {"none", "list", "enqueue", "done", "failed"}]
      /\ todo' \in [Events -> SUBSET Webhooks]
      /\ listed' \in [Events -> SUBSET Webhooks]
      /\ todo'[e] # {} <=> fire'[e] = "enqueue"
      /\ FanOutInv(e)'
      /\ \A w \in Webhooks : <<e, w>> \in late' => w \in silenced
  <2> USE DEF IInv, TypeOK
  <2>1. CASE Happen(e)
    <3>1. fire' = [fire EXCEPT ![e] = "list"] /\ UNCHANGED <<todo, listed, enqueued, refused>>
          /\ fire[e] = "none" /\ late' = late \union ({e} \X silenced)
      BY <2>1 DEF Happen
    <3>2. todo[e] = {} /\ \A w \in Webhooks : <<e, w>> \notin enqueued
      BY <3>1 DEF FanOutInv
    <3>3. QED
      BY <3>1, <3>2 DEF FanOutInv, SilenceInv
  <2>2. CASE ListSubscribers(e)
    <3>1. /\ fire' = [fire EXCEPT ![e] = IF Subscribed(e) = {} THEN "done" ELSE "enqueue"]
          /\ todo' = [todo EXCEPT ![e] = Subscribed(e)]
          /\ listed' = [listed EXCEPT ![e] = Subscribed(e)]
          /\ fire[e] = "list" /\ UNCHANGED <<late, enqueued, refused>>
      BY <2>2 DEF ListSubscribers, deactivation
    <3>2. Subscribed(e) \in SUBSET Webhooks /\ \A w \in Subscribed(e) : Allowed(e, w)
      BY DEF Subscribed, Allowed, SilenceInv
    <3>3. QED
      BY <3>1, <3>2 DEF FanOutInv, SilenceInv, Allowed
  <2>3. ASSUME NEW w \in Webhooks, fire[e] = "enqueue", w \in todo[e],
               NextSubscriber(e, w), UNCHANGED <<listed, late>>,
               enqueued' \in {enqueued, enqueued \union {<<e, w>>}},
               <<e, w>> \in enqueued' \union refused'
        PROVE  /\ fire' \in [Events -> {"none", "list", "enqueue", "done", "failed"}]
               /\ todo' \in [Events -> SUBSET Webhooks]
               /\ todo'[e] # {} <=> fire'[e] = "enqueue"
               /\ FanOutInv(e)'
    <3>1. fire' \in [Events -> {"none", "list", "enqueue", "done", "failed"}]
          /\ todo' \in [Events -> SUBSET Webhooks]
          /\ fire'[e] = (IF todo[e] = {w} THEN "done" ELSE "enqueue")
          /\ todo'[e] = todo[e] \ {w}
      BY <2>3 DEF NextSubscriber
    <3>2. todo'[e] # {} <=> fire'[e] = "enqueue"
      BY <2>3, <3>1
    <3>3. \A v \in todo'[e] : Allowed(e, v)' /\ <<e, v>> \notin enqueued'
      BY <2>3, <3>1 DEF FanOutInv, Allowed
    <3>4. \A v \in Webhooks : <<e, v>> \in enqueued' => Allowed(e, v)'
      BY <2>3 DEF FanOutInv, Allowed
    <3>5. \A v \in listed'[e] : v \in todo'[e] \/ <<e, v>> \in enqueued' \union refused'
      BY <1>2, <2>3, <3>1 DEF FanOutInv
    <3>6. QED
      BY <3>1, <3>2, <3>3, <3>4, <3>5 DEF FanOutInv
  <2>4. ASSUME NEW w \in Webhooks, Enqueue(e, w) \/ EnqueueRaises(e, w)
        PROVE  /\ fire' \in [Events -> {"none", "list", "enqueue", "done", "failed"}]
               /\ todo' \in [Events -> SUBSET Webhooks]
               /\ listed' \in [Events -> SUBSET Webhooks]
               /\ todo'[e] # {} <=> fire'[e] = "enqueue"
               /\ FanOutInv(e)'
               /\ \A v \in Webhooks : <<e, v>> \in late' => v \in silenced
    <3>1. /\ fire[e] = "enqueue" /\ w \in todo[e] /\ NextSubscriber(e, w)
          /\ UNCHANGED <<listed, late>>
          /\ enqueued' \in {enqueued, enqueued \union {<<e, w>>}}
          /\ <<e, w>> \in enqueued' \union refused'
      BY <2>4 DEF Enqueue, EnqueueRaises, AfterRefusal, deactivation
    <3>2. QED
      BY <2>3, <3>1 DEF SilenceInv
  <2>5. CASE FireFails(e)
    <3>1. /\ fire' = [fire EXCEPT ![e] = "failed"] /\ todo' = [todo EXCEPT ![e] = {}]
          /\ UNCHANGED <<listed, late, enqueued, refused>>
      BY <2>5 DEF FireFails, deactivation
    <3>2. QED
      BY <3>1 DEF FanOutInv, SilenceInv, Allowed
  <2>6. QED
    BY <2>1, <2>2, <2>4, <2>5 DEF FireEvent
<1>5. TypeOK'
  <2>1. \A d \in Events : todo'[d] # {} <=> fire'[d] = "enqueue"
    BY <1>3, <1>4 DEF IInv, TypeOK
  <2>2. \A j \in Jobs : task'[j].pc # "idle" => j \in queue'
    BY <1>1, <1>2 DEF IInv, TypeOK
  <2>3. QED
    BY <1>1, <1>2, <1>4, <2>1, <2>2 DEF IInv, TypeOK, counting
<1>6. SilenceInv'
  BY <1>1, <1>2, <1>3, <1>4 DEF IInv, SilenceInv
<1>7. ASSUME NEW d \in Events PROVE FanOutInv(d)'
  <2>1. CASE d = e
    BY <1>4, <2>1
  <2>2. CASE d # e
    <3>1. FanOutInv(d) /\ todo[d] \subseteq Webhooks
      BY DEF IInv, TypeOK
    <3>2. QED
      BY <1>2, <1>3, <2>2, <3>1 DEF FanOutInv, Allowed
  <2>3. QED
    BY <2>1, <2>2
<1>8. \A w \in Webhooks : HookInv(w)'
  BY <1>1, HookKept
<1>9. QED
  BY <1>1, <1>5, <1>6, <1>7, <1>8 DEF IInv, RetryInv, Within

-----------------------------------------------------------------------------
(* The worker: rows of silence and the fan-out are left alone.              *)

(* A run of the task that leaves its loop, or is left, keeps within bounds. *)
LEMMA LeavesLoop ==
    ASSUME NEW t, NEW q, NEW n, Within(t, n), q.tries = t.tries,
           q.pc \notin {"post", "touch", "backoff"}
    PROVE  Within(q, n)
  BY DEF Within

(* A step of one task to q, outside the window between read and write.      *)
LEMMA TaskStep ==
    ASSUME IInv, NEW j \in Jobs, NEW q \in Task, q.pc # "write",
           NEW n \in Nat, Within(q, n),
           n = posts[j] \/ (n = posts[j] + 1 /\ j \in queue),
           task' = [task EXCEPT ![j] = q], posts' = [posts EXCEPT ![j] = n],
           queue' \in {queue, queue \ {j}}, q.pc # "idle" => j \in queue',
           UNCHANGED <<registered, is_active, failure_count, firing, deactivation, counting>>,
           runs' \in Nat
    PROVE  IInv'
<1>1. UNCHANGED <<fire, todo, listed, enqueued, refused, silenced, late, written, overlapped>>
  BY DEF firing, deactivation, counting
<1>2. TypeOK'
  <2>1. task' \in [Jobs -> Task] /\ posts' \in [Jobs -> Nat]
    BY DEF IInv, TypeOK
  <2>2. \A i \in Jobs : task'[i].pc # "idle" => i \in queue'
    BY DEF IInv, TypeOK
  <2>3. queue' \in SUBSET enqueued'
    BY <1>1 DEF IInv, TypeOK
  <2>4. QED
    BY <1>1, <2>1, <2>2, <2>3 DEF IInv, TypeOK
<1>3. SilenceInv'
  <2>1. queue \subseteq enqueued
    BY DEF IInv, TypeOK
  <2>2. ASSUME NEW i \in Jobs, posts'[i] > 0 PROVE i \in enqueued
    BY <2>1, <2>2 DEF IInv, TypeOK, SilenceInv
  <2>3. QED
    BY <1>1, <2>2 DEF IInv, SilenceInv
<1>4. \A e \in Events : FanOutInv(e)'
  BY <1>1 DEF IInv, FanOutInv, Allowed
<1>5. ASSUME NEW w \in Webhooks PROVE HookInv(w)'
  <2>1. Counting(w)' = Counting(w) \ {j}
    BY DEF IInv, TypeOK, Counting
  <2>2. \A i \in Counting(w)' : i \in Counting(w) /\ task'[i] = task[i]
    BY <2>1 DEF IInv, TypeOK, Counting
  <2>3. HookInv(w)
    BY DEF IInv
  <2>4. QED
    BY <1>1, <2>1, <2>2, <2>3 DEF HookInv
<1>6. RetryInv'
  <2>1. ASSUME NEW i \in Jobs PROVE Within(task'[i], posts'[i])
    BY DEF IInv, TypeOK, RetryInv
  <2>2. QED
    BY <2>1 DEF RetryInv, Within
<1>7. QED
  BY <1>2, <1>3, <1>4, <1>5, <1>6 DEF IInv

(* What is left of a task that is over.                                     *)
LEMMA OverIsTask ==
    ASSUME TypeOK, NEW j \in Jobs, NEW l \in {"idle", "done"}
    PROVE  Over(j, l) \in Task /\ Over(j, l).pc = l /\ Over(j, l).tries = task[j].tries
<1>1. task[j] \in Task
  BY DEF TypeOK
<1>2. QED
  BY <1>1, ConstantsAssumption DEF Over, Task

(* The failure count is read.                                               *)
LEMMA ReadStep ==
    ASSUME IInv, NEW j \in Jobs, ReadCount(j) PROVE IInv'
<1>1. UNCHANGED <<registered, is_active, failure_count, fire, todo, listed,
                  enqueued, refused, queue, runs, silenced, late, written, posts>>
  BY DEF ReadCount, rows, firing, deactivation
<1> DEFINE q == [task[j] EXCEPT !.pc = "write", !.count = failure_count[Hook(j)]]
<1>2. j \in queue /\ task[j].pc = "read" /\ Hook(j) \in Webhooks
  BY DEF ReadCount, IInv, TypeOK, Jobs, Hook
<1>3. q \in Task /\ q.pc = "write" /\ q.count = failure_count[Hook(j)]
      /\ q.tries = task[j].tries
  BY <1>2 DEF IInv, TypeOK, Task
<1>4. task' = [task EXCEPT ![j] = q]
  BY DEF ReadCount
<1> HIDE DEF q
<1>5. TypeOK'
  <2>1. task' \in [Jobs -> Task]
    BY <1>3, <1>4 DEF IInv, TypeOK
  <2>2. \A i \in Jobs : task'[i].pc # "idle" => i \in queue
    BY <1>2, <1>4 DEF IInv, TypeOK
  <2>3. overlapped' \in SUBSET Webhooks
    BY <1>2 DEF ReadCount, IInv, TypeOK
  <2>4. QED
    BY <1>1, <2>1, <2>2, <2>3 DEF IInv, TypeOK
<1>6. SilenceInv' /\ \A e \in Events : FanOutInv(e)'
  BY <1>1 DEF IInv, SilenceInv, FanOutInv, Allowed
<1>7. ASSUME NEW w \in Webhooks PROVE HookInv(w)'
  <2>1. HookInv(w) /\ failure_count[w] \in Nat /\ written[w] \in Nat
    BY DEF IInv, TypeOK
  <2>2. CASE w # Hook(j)
    <3>1. Counting(w)' = Counting(w) /\ \A i \in Counting(w) : task'[i] = task[i]
      BY <1>2, <1>4, <2>2 DEF IInv, TypeOK, Counting
    <3>2. w \in overlapped' <=> w \in overlapped
      BY <2>2 DEF ReadCount
    <3>3. QED
      BY <1>1, <2>1, <3>1, <3>2 DEF HookInv
  <2>3. CASE w = Hook(j)
    <3>1. Counting(w)' = Counting(w) \union {j} /\ j \notin Counting(w)
      BY <1>2, <1>3, <1>4, <2>3 DEF IInv, TypeOK, Counting
    <3>2. \A i \in Counting(w) : task'[i] = task[i]
      BY <1>4, <3>1 DEF IInv, TypeOK, Counting
    <3>3. task'[j].count = failure_count[w]
      BY <1>3, <1>4, <2>3 DEF IInv, TypeOK
    <3>4. w \notin overlapped' => Counting(w) = {} /\ w \notin overlapped
      BY <2>3 DEF ReadCount
    <3>5. QED
      BY <1>1, <2>1, <3>1, <3>2, <3>3, <3>4 DEF HookInv
  <2>4. QED
    BY <2>2, <2>3
<1>8. RetryInv'
  <2>1. ASSUME NEW i \in Jobs PROVE Within(task'[i], posts[i])
    BY <1>3, <1>4, LeavesLoop DEF IInv, TypeOK, RetryInv
  <2>2. QED
    BY <1>1, <2>1 DEF RetryInv, Within
<1>9. QED
  BY <1>5, <1>6, <1>7, <1>8 DEF IInv

(* The failure count is written: of what was read, plus one.                *)
LEMMA WriteStep ==
    ASSUME IInv, NEW j \in Jobs, WriteCount(j) PROVE IInv'
<1>1. UNCHANGED <<registered, is_active, fire, todo, listed, enqueued,
                  refused, queue, runs, silenced, late, overlapped, posts>>
  BY DEF WriteCount, firing, deactivation
<1>2. j \in queue /\ task[j].pc = "write" /\ Hook(j) \in Webhooks
  BY DEF WriteCount, IInv, TypeOK, Jobs, Hook
<1>3. task[j].count \in Nat /\ written[Hook(j)] \in Nat
  BY <1>2 DEF IInv, TypeOK, Task
<1>4. /\ failure_count' = [failure_count EXCEPT ![Hook(j)] = task[j].count + 1]
      /\ written' = [written EXCEPT ![Hook(j)] = @ + 1]
      /\ task' = [task EXCEPT ![j] = Over(j, "done")]
      /\ Over(j, "done") \in Task /\ Over(j, "done").pc = "done"
      /\ Over(j, "done").tries = task[j].tries
  BY OverIsTask DEF WriteCount, Return, NewCount, IInv
<1>5. TypeOK'
  <2>1. task' \in [Jobs -> Task]
    BY <1>4 DEF IInv, TypeOK
  <2>2. \A i \in Jobs : task'[i].pc # "idle" => i \in queue
    BY <1>2, <1>4 DEF IInv, TypeOK
  <2>3. failure_count' \in [Webhooks -> Nat] /\ written' \in [Webhooks -> Nat]
    BY <1>2, <1>3, <1>4 DEF IInv, TypeOK
  <2>4. QED
    BY <1>1, <2>1, <2>2, <2>3 DEF IInv, TypeOK
<1>6. SilenceInv' /\ \A e \in Events : FanOutInv(e)'
  BY <1>1 DEF IInv, SilenceInv, FanOutInv, Allowed
<1>7. ASSUME NEW w \in Webhooks PROVE HookInv(w)'
  <2>1. HookInv(w) /\ failure_count[w] \in Nat /\ written[w] \in Nat
    BY DEF IInv, TypeOK
  <2>2. Counting(w)' = Counting(w) \ {j}
    BY <1>4 DEF IInv, TypeOK, Counting
  <2>3. ASSUME NEW i \in Counting(w)'
        PROVE  i \in Counting(w) /\ task'[i] = task[i] /\ task[i].count \in Nat
    BY <1>4, <2>2 DEF IInv, TypeOK, Counting, Task
  <2>4. CASE w # Hook(j)
    <3>1. failure_count'[w] = failure_count[w] /\ written'[w] = written[w]
          /\ Counting(w)' = Counting(w)
      BY <1>4, <2>2, <2>4 DEF IInv, TypeOK, Counting
    <3>2. QED
      BY <1>1, <2>1, <2>3, <3>1 DEF HookInv
  <2>5. CASE w = Hook(j)
    <3>1. j \in Counting(w)
      BY <1>2, <2>5 DEF Counting
    <3>2. failure_count'[w] = task[j].count + 1 /\ written'[w] = written[w] + 1
      BY <1>2, <1>4, <2>5 DEF IInv, TypeOK
    <3>3. task[j].count <= written[w]
          /\ (w \notin overlapped => task[j].count = written[w] /\ Counting(w)' = {})
      BY <2>1, <2>2, <3>1 DEF HookInv
    <3>4. failure_count'[w] <= written'[w]
          /\ (w \notin overlapped => failure_count'[w] = written'[w])
      BY <1>3, <2>1, <3>2, <3>3
    <3>5. ASSUME NEW i \in Counting(w)' PROVE task'[i].count <= written'[w]
      <4>1. task[i].count <= written[w]
        BY <2>1, <2>3 DEF HookInv
      <4>2. QED
        BY <2>1, <2>3, <3>2, <4>1
    <3>6. QED
      BY <1>1, <3>3, <3>4, <3>5 DEF HookInv
  <2>6. QED
    BY <2>4, <2>5
<1>8. RetryInv'
  <2>1. ASSUME NEW i \in Jobs PROVE Within(task'[i], posts[i])
    BY <1>4, LeavesLoop DEF IInv, TypeOK, RetryInv
  <2>2. QED
    BY <1>1, <2>1 DEF RetryInv, Within
<1>9. QED
  BY <1>5, <1>6, <1>7, <1>8 DEF IInv

(* The worker stops, and no task holds a count any more.                    *)
LEMMA StopStep ==
    ASSUME IInv, WorkerStops PROVE IInv'
<1>1. UNCHANGED <<registered, is_active, failure_count, fire, todo, listed,
                  enqueued, refused, queue, runs, silenced, late, written, overlapped, posts>>
  BY DEF WorkerStops, rows, firing, deactivation, counting
<1>2. task' = [i \in Jobs |-> Over(i, "idle")]
  BY DEF WorkerStops
<1>3. ASSUME NEW i \in Jobs
      PROVE  task'[i] \in Task /\ task'[i].pc = "idle" /\ task'[i].tries = task[i].tries
  BY <1>2, OverIsTask DEF IInv
<1>4. task' \in [Jobs -> Task]
  BY <1>2, <1>3
<1>5. TypeOK'
  BY <1>1, <1>3, <1>4 DEF IInv, TypeOK
<1>6. SilenceInv' /\ \A e \in Events : FanOutInv(e)'
  BY <1>1 DEF IInv, SilenceInv, FanOutInv, Allowed
<1>7. ASSUME NEW w \in Webhooks PROVE HookInv(w)'
  <2>1. Counting(w)' = {}
    BY <1>3 DEF Counting
  <2>2. QED
    BY <1>1, <2>1 DEF IInv, HookInv
<1>8. RetryInv'
  <2>1. ASSUME NEW i \in Jobs PROVE Within(task'[i], posts[i])
    BY <1>3, LeavesLoop DEF IInv, RetryInv
  <2>2. QED
    BY <1>1, <2>1 DEF RetryInv, Within
<1>9. QED
  BY <1>5, <1>6, <1>7, <1>8 DEF IInv

(* One more try allows MaxAttempts more POSTs.                              *)
LEMMA OneMoreTry ==
    \A a, b \in Nat : a * (b + 1) = a * b + a /\ a * b \in Nat
  OBVIOUS

(* A POST that was made, or was not, keeps within the bounds of the place   *)
(* the loop goes to.                                                        *)
LEMMA LoopBounds ==
    ASSUME IInv, NEW j \in Jobs, NEW n \in {posts[j], posts[j] + 1},
           \/ task[j].pc = "post"
           \/ task[j].pc = "touch" /\ n = posts[j],
           NEW l \in {"touch", "backoff", "read"},
           l = "backoff" => task[j].attempt < MaxAttempts
    PROVE  /\ Within([task[j] EXCEPT !.pc = l], n)
           /\ n \in Nat /\ n >= posts[j]
<1>1. task[j] \in Task /\ posts[j] \in Nat /\ MaxAttempts \in Nat
  BY ConstantsAssumption DEF IInv, TypeOK
<1>2. task[j].attempt \in 1..MaxAttempts /\ task[j].tries \in Nat
  BY <1>1 DEF Task
<1> DEFINE q == [task[j] EXCEPT !.pc = l]
           c == MaxAttempts * task[j].tries
<1>3. c \in Nat
  BY <1>1, <1>2, OneMoreTry
<1>4. q.pc = l /\ q.tries = task[j].tries /\ q.attempt = task[j].attempt
  BY <1>1 DEF Task
<1>5. n + MaxAttempts <= c + task[j].attempt
  <2>1. CASE task[j].pc = "post"
    <3>1. posts[j] + MaxAttempts < c + task[j].attempt
      BY <2>1 DEF IInv, RetryInv, Within
    <3>2. QED
      BY <1>1, <1>2, <1>3, <3>1
  <2>2. CASE task[j].pc = "touch" /\ n = posts[j]
    BY <2>2 DEF IInv, RetryInv, Within
  <2>3. QED
    BY <2>1, <2>2
<1> HIDE DEF c
<1>6. n \in Nat /\ n >= posts[j] /\ n <= c
  BY ONLY <1>1, <1>2, <1>3, <1>5, n \in {posts[j], posts[j] + 1}
<1>7. Within(q, n)
  <2> HIDE DEF q
  <2>1. QED
    BY <1>4, <1>5, <1>6 DEF Within, c
<1>8. QED
  BY <1>6, <1>7

(* A task goes on to another place of its loop, or past it.                 *)
LEMMA LoopStep ==
    ASSUME IInv, NEW j \in Jobs, NEW n \in {posts[j], posts[j] + 1},
           \/ task[j].pc = "post"
           \/ task[j].pc = "touch" /\ n = posts[j],
           NEW l \in {"touch", "backoff", "read"},
           l = "backoff" => task[j].attempt < MaxAttempts,
           Goto(j, l), posts' = [posts EXCEPT ![j] = n],
           UNCHANGED <<rows, firing, queue, runs, deactivation, counting>>
    PROVE  IInv'
<1> DEFINE q == [task[j] EXCEPT !.pc = l]
<1>1. Within(q, n) /\ n \in Nat /\ n >= posts[j]
  BY LoopBounds
<1>2. task[j] \in Task /\ j \in queue /\ runs \in Nat
  BY DEF IInv, TypeOK
<1>3. q \in Task /\ q.pc = l
  BY <1>2 DEF Task
<1>4. task' = [task EXCEPT ![j] = q]
  BY DEF Goto, IInv, TypeOK
<1>5. UNCHANGED <<registered, is_active, failure_count, firing, deactivation, counting>>
      /\ runs' \in Nat
  BY <1>2 DEF rows
<1> HIDE DEF q
<1>6. QED
  BY <1>1, <1>2, <1>3, <1>4, <1>5, TaskStep

(* A task is over, and its job may leave the queue with it.                 *)
LEMMA OverStep ==
    ASSUME IInv, NEW j \in Jobs, NEW l \in {"idle", "done"},
           task' = [task EXCEPT ![j] = Over(j, l)],
           queue' \in {queue, queue \ {j}}, l = "done" => j \in queue',
           UNCHANGED <<rows, firing, runs, deactivation, counting, posts>>
    PROVE  IInv'
<1>1. /\ Over(j, l) \in Task /\ Over(j, l).pc = l
      /\ Over(j, l).tries = task[j].tries
  BY OverIsTask DEF IInv
<1>2. posts[j] \in Nat /\ Within(task[j], posts[j]) /\ runs \in Nat
      /\ posts' = [posts EXCEPT ![j] = posts[j]]
  BY DEF IInv, TypeOK, RetryInv
<1>3. Within(Over(j, l), posts[j])
  BY <1>1, <1>2, LeavesLoop
<1>4. UNCHANGED <<registered, is_active, failure_count, firing, deactivation, counting>>
  BY DEF rows
<1>5. QED
  BY <1>1, <1>2, <1>3, <1>4, TaskStep

(* ARQ starts a run of the task, with attempts of its own.                  *)
LEMMA StartStep ==
    ASSUME IInv, NEW j \in Jobs, StartTask(j) PROVE IInv'
<1>1. PICK l \in {"post", "done"} :
        task' = [task EXCEPT ![j] =
                  [pc |-> l, tries |-> @.tries + 1, attempt |-> 1, count |-> 0]]
  BY DEF StartTask
<1> DEFINE q == [pc |-> l, tries |-> task[j].tries + 1, attempt |-> 1, count |-> 0]
<1>2. task[j] \in Task /\ posts[j] \in Nat /\ runs \in Nat /\ j \in queue
      /\ task[j].tries < MaxTries /\ MaxAttempts \in Nat \ {0} /\ MaxTries \in Nat
  BY ConstantsAssumption DEF StartTask, IInv, TypeOK
<1>3. task[j].tries \in Nat /\ q \in Task
  BY <1>2 DEF Task
<1>4. MaxAttempts * q.tries = MaxAttempts * task[j].tries + MaxAttempts
      /\ MaxAttempts * task[j].tries \in Nat
  BY <1>2, <1>3, OneMoreTry
<1>5. posts[j] <= MaxAttempts * task[j].tries
  BY DEF IInv, RetryInv, Within
<1>6. /\ posts[j] <= MaxAttempts * q.tries
      /\ posts[j] + MaxAttempts < MaxAttempts * q.tries + 1
  BY ONLY <1>2, <1>4, <1>5
<1>7. Within(q, posts[j])
  BY <1>6 DEF Within
<1>8. /\ task' = [task EXCEPT ![j] = q] /\ posts' = [posts EXCEPT ![j] = posts[j]]
      /\ queue' = queue /\ runs' \in Nat
      /\ UNCHANGED <<registered, is_active, failure_count, firing, deactivation, counting>>
  <2>1. posts' = posts /\ queue' = queue /\ runs' = runs + 1
        /\ UNCHANGED <<rows, firing, deactivation, counting>>
    BY DEF StartTask
  <2>2. posts' = [posts EXCEPT ![j] = posts[j]]
    BY <2>1 DEF IInv, TypeOK
  <2>3. QED
    <3>1. task' = [task EXCEPT ![j] = q]
      BY <1>1
    <3>2. runs' \in Nat
      BY <1>2, <2>1
    <3>3. QED
      BY <2>1, <2>2, <3>1, <3>2 DEF rows
<1>9. q.pc \in {"post", "done"}
  OBVIOUS
<1> HIDE DEF q
<1>10. QED
  BY <1>2, <1>3, <1>7, <1>8, <1>9, TaskStep

(* The next attempt begins.                                                 *)
LEMMA BackoffStep ==
    ASSUME IInv, NEW j \in Jobs, Backoff(j) PROVE IInv'
<1> DEFINE q == [task[j] EXCEPT !.pc = "post", !.attempt = @ + 1]
           c == MaxAttempts * task[j].tries
<1>1. task[j] \in Task /\ posts[j] \in Nat /\ runs \in Nat /\ j \in queue
      /\ MaxAttempts \in Nat
  BY ConstantsAssumption DEF Backoff, IInv, TypeOK
<1>2. task[j].attempt \in 1..MaxAttempts /\ task[j].tries \in Nat
  BY <1>1 DEF Task
<1>3. /\ task[j].attempt < MaxAttempts
      /\ posts[j] <= c /\ posts[j] + MaxAttempts <= c + task[j].attempt
  BY DEF Backoff, IInv, RetryInv, Within
<1>4. c \in Nat
  BY <1>1, <1>2, OneMoreTry
<1> HIDE DEF c
<1>5. task[j].attempt + 1 \in 1..MaxAttempts
      /\ posts[j] + MaxAttempts < c + (task[j].attempt + 1)
  BY ONLY <1>1, <1>2, <1>3, <1>4
<1>6. q \in Task /\ q.pc = "post" /\ q.tries = task[j].tries
      /\ q.attempt = task[j].attempt + 1
  BY ONLY <1>1, <1>5 DEF Task
<1>7. task' = [task EXCEPT ![j] = q] /\ posts' = [posts EXCEPT ![j] = posts[j]]
      /\ queue' = queue /\ runs' \in Nat
      /\ UNCHANGED <<registered, is_active, failure_count, firing, deactivation, counting>>
  BY <1>1 DEF Backoff, rows, IInv, TypeOK
<1> HIDE DEF q
<1>8. Within(q, posts[j])
  BY <1>3, <1>5, <1>6 DEF Within, c
<1>9. QED
  BY <1>1, <1>6, <1>7, <1>8, TaskStep

(* Every step of a job's task.                                              *)
LEMMA DeliverStep ==
    ASSUME IInv, NEW j \in Jobs, Deliver(j)
    PROVE  IInv'
<1>1. posts' = posts => posts' = [posts EXCEPT ![j] = posts[j]]
  BY DEF IInv, TypeOK
<1>2. task[j].pc # "idle" => j \in queue
  BY DEF IInv, TypeOK
<1>3. ASSUME AttemptFails(j)
      PROVE  (Goto(j, "backoff") /\ task[j].attempt < MaxAttempts) \/ Goto(j, "read")
  BY <1>3 DEF AttemptFails
<1>4. CASE FinishJob(j)
  BY <1>4, OverStep DEF FinishJob
<1>5. CASE JobTimeout(j) \/ CountRaises(j)
  BY <1>2, <1>5, OverStep DEF JobTimeout, CountRaises, Return
<1>6. CASE PostAccepted(j)
  BY <1>6, LoopStep DEF PostAccepted
<1>7. CASE PostFails(j)
  <2>1. PICK n \in {posts[j], posts[j] + 1} : posts' = [posts EXCEPT ![j] = n]
    BY <1>1, <1>7 DEF PostFails
  <2>2. QED
    BY <1>3, <1>7, <2>1, LoopStep DEF PostFails
<1>8. CASE Touch(j)
  <2>1. CASE Return(j)
    BY <1>2, <1>8, <2>1, OverStep DEF Touch, Return
  <2>2. CASE AttemptFails(j)
    BY <1>1, <1>3, <1>8, <2>2, LoopStep DEF Touch
  <2>3. QED
    BY <1>8, <2>1, <2>2 DEF Touch
<1>9. QED
  BY <1>4, <1>5, <1>6, <1>7, <1>8, StartStep, BackoffStep, ReadStep, WriteStep DEF Deliver

-----------------------------------------------------------------------------
(* Theorems.                                                                *)

(* The invariant holds in every reachable state.                            *)
THEOREM Invariance == Spec => []IInv
<1>1. IInv /\ [Next]_vars => IInv'
  <2> SUFFICES ASSUME IInv, [Next]_vars PROVE IInv'
    OBVIOUS
  <2>1. CASE UNCHANGED vars
    <3>1. UNCHANGED <<registered, is_active, failure_count, fire, todo,
                      listed, enqueued, refused, queue, task, runs, silenced, late,
                      written, overlapped, counting, posts>>
      BY <2>1 DEF vars, rows, firing, work, deactivation, counting
    <3>2. TypeOK' /\ RetryInv' /\ SilenceInv' /\ \A e \in Events : FanOutInv(e)'
      BY <3>1 DEF IInv, TypeOK, RetryInv, Within, SilenceInv, FanOutInv,
         Allowed
    <3>3. QED
      BY <3>1, <3>2, HookKept DEF IInv
  <2>2. QED
    BY <2>1, RowStep, FireStep, DeliverStep, StopStep DEF Next
<1>2. QED
  BY <1>1, InitInv, PTL DEF Spec

(* Every variable stays within its type.                                    *)
THEOREM TypeCorrect == Spec => []TypeOK
BY Invariance, PTL DEF IInv

(* Endpoints get what their webhooks subscribe to, and no event that        *)
(* happened after the deactivation was answered.                            *)
THEOREM OnlySubscribersReached == Spec => []OnlySubscribers
<1>1. IInv => OnlySubscribers
  <2> SUFFICES ASSUME IInv, NEW j \in Jobs, posts[j] > 0
               PROVE  Hook(j) \in Subscribers[j[1]] /\ j \notin late
    BY DEF OnlySubscribers
  <2>1. PICK e \in Events, w \in Webhooks : j = <<e, w>>
    BY DEF IInv, TypeOK, Jobs
  <2>2. <<e, w>> \in enqueued
    BY <2>1 DEF IInv, SilenceInv
  <2>3. QED
    BY <2>1, <2>2 DEF IInv, FanOutInv, Allowed, Hook
<1>2. QED
  BY <1>1, Invariance, PTL

(* No enqueueing that raises keeps another subscriber from its job.         *)
THEOREM FanOutsAreIsolated == Spec => []FanOutIsIsolated
<1>1. IInv => FanOutIsIsolated
  <2> SUFFICES ASSUME IInv, NEW e \in Events, fire[e] = "done", NEW w \in listed[e]
               PROVE  <<e, w>> \in enqueued \union refused
    BY DEF FanOutIsIsolated
  <2>1. todo[e] = {}
    BY DEF IInv, TypeOK
  <2>2. QED
    BY <2>1 DEF IInv, FanOutInv
<1>2. QED
  BY <1>1, Invariance, PTL

(* The failure count is exact as long as no two updates overlap, and never  *)
(* ahead.                                                                   *)
THEOREM FailureCountIsExact == Spec => []FailuresAreCounted
<1>1. IInv => FailuresAreCounted
  BY DEF IInv, HookInv, FailuresAreCounted
<1>2. QED
  BY <1>1, Invariance, PTL

-----------------------------------------------------------------------------
(* WebhookDelivery implements RetriedJob.                                   *)

(* More tries allow more POSTs.                                             *)
LEMMA TriesBound ==
    ASSUME NEW a \in Nat, NEW t \in 0..MaxTries PROVE a * t <= a * MaxTries
<1>1. PICK d \in Nat : MaxTries = t + d
  <2>1. MaxTries - t \in Nat /\ MaxTries = t + (MaxTries - t)
    BY ConstantsAssumption
  <2>2. QED
    BY <2>1
<1>2. a * (t + d) = a * t + a * d /\ a * t \in Nat /\ a * d \in Nat
  OBVIOUS
<1>3. QED
  BY <1>1, <1>2

(* No event has happened yet.                                               *)
LEMMA JobInit == Init => Delivery!Init
  BY DEF Init, Delivery!Init

(* A POST that arrives is the work of a job that is pending and whose runs  *)
(* have an attempt left.                                                    *)
LEMMA JobWork ==
    ASSUME IInv, NEW j \in Jobs, task[j].pc = "post",
           posts' = [posts EXCEPT ![j] = @ + 1], UNCHANGED <<queue, enqueued>>
    PROVE  Delivery!Work(j)
<1>1. j \in queue /\ posts[j] + MaxAttempts < MaxAttempts * task[j].tries + task[j].attempt
  BY DEF IInv, TypeOK, RetryInv, Within
<1>2. task[j] \in Task /\ posts[j] \in Nat /\ MaxAttempts \in Nat /\ MaxTries \in Nat
  BY ConstantsAssumption DEF IInv, TypeOK
<1>3. task[j].tries \in 0..MaxTries /\ task[j].attempt \in 1..MaxAttempts
  BY <1>2 DEF Task
<1>4. MaxAttempts * task[j].tries <= MaxAttempts * MaxTries
  BY <1>2, <1>3, TriesBound
<1>5. MaxAttempts * task[j].tries \in Nat /\ MaxAttempts * MaxTries \in Nat
  BY <1>2, <1>3, OneMoreTry
<1>6. posts[j] < MaxAttempts * MaxTries
  BY ONLY <1>1, <1>2, <1>3, <1>4, <1>5
<1>7. QED
  BY <1>1, <1>6 DEF Delivery!Work

(* The steps of fire_event: a subscriber's turn comes once, and its job is  *)
(* submitted then or never.                                                 *)
LEMMA JobFire ==
    ASSUME IInv, NEW e \in Events, FireEvent(e)
    PROVE  [Delivery!Next]_(Delivery!jobVars)
<1>1. CASE UNCHANGED <<queue, enqueued>>
  BY <1>1 DEF FireEvent, Happen, ListSubscribers, FireFails, Enqueue, EnqueueRaises,
     Delivery!jobVars
<1>2. ASSUME NEW w \in Webhooks, Enqueue(e, w) \/ EnqueueRaises(e, w),
             ~UNCHANGED <<queue, enqueued>>
      PROVE  [Delivery!Next]_(Delivery!jobVars)
  <2>1. /\ queue' = queue \union {<<e, w>>} /\ enqueued' = enqueued \union {<<e, w>>}
        /\ w \in todo[e] /\ UNCHANGED posts
    BY <1>2 DEF Enqueue, EnqueueRaises
  <2>2. <<e, w>> \notin enqueued /\ queue \subseteq enqueued /\ <<e, w>> \in Jobs
    BY <2>1 DEF IInv, TypeOK, FanOutInv, Jobs
  <2>3. Delivery!Submit(<<e, w>>)
    BY <2>1, <2>2 DEF Delivery!Submit
  <2>4. QED
    BY <2>2, <2>3 DEF Delivery!Next
<1>3. QED
  BY <1>1, <1>2 DEF FireEvent, Happen, ListSubscribers, FireFails, work

(* Every step is one of RetriedJob, or a stutter.                           *)
LEMMA JobStep == IInv /\ [Next]_vars => [Delivery!Next]_(Delivery!jobVars)
<1> SUFFICES ASSUME IInv, [Next]_vars PROVE [Delivery!Next]_(Delivery!jobVars)
  OBVIOUS
<1>1. CASE UNCHANGED <<queue, enqueued, posts>>
  BY <1>1 DEF Delivery!jobVars
<1>2. CASE UNCHANGED vars
  BY <1>1, <1>2 DEF vars, firing, work
<1>3. CASE WorkerStops \/ \E w \in Webhooks : register_webhook(w) \/ deactivate_webhook(w)
  BY <1>1, <1>3 DEF WorkerStops, register_webhook, deactivate_webhook, firing, work
<1>4. ASSUME NEW j \in Jobs, Deliver(j) PROVE [Delivery!Next]_(Delivery!jobVars)
  <2>1. CASE FinishJob(j)
    <3>1. j \in queue /\ queue' = queue \ {j} /\ UNCHANGED <<enqueued, posts>>
      BY <2>1 DEF FinishJob, firing
    <3>2. Delivery!End(j)
      BY <3>1 DEF Delivery!End, IInv, TypeOK
    <3>3. QED
      BY <3>2 DEF Delivery!Next
  <2>2. CASE (PostAccepted(j) \/ PostFails(j)) /\ posts' # posts
    <3>1. posts' = [posts EXCEPT ![j] = @ + 1] /\ task[j].pc = "post"
          /\ UNCHANGED <<queue, enqueued>>
      BY <2>2 DEF PostAccepted, PostFails, firing
    <3>2. Delivery!Work(j)
      BY <3>1, JobWork
    <3>3. QED
      BY <3>2 DEF Delivery!Next
  <2>3. CASE ~FinishJob(j) /\ posts' = posts
    BY <1>1, <1>4, <2>3
       DEF Deliver, StartTask, JobTimeout, PostAccepted, PostFails, Touch, Backoff,
           ReadCount, WriteCount, CountRaises, firing
  <2>4. ASSUME posts' # posts PROVE FinishJob(j) \/ PostAccepted(j) \/ PostFails(j)
    BY <1>4, <2>4
       DEF Deliver, StartTask, JobTimeout, Touch, Backoff, ReadCount, WriteCount, CountRaises
  <2>5. QED
    BY <2>1, <2>2, <2>3, <2>4
<1>5. QED
  BY <1>2, <1>3, <1>4, JobFire DEF Next

(* A delivery is what RetriedJob says, whatever the numbers of attempts and *)
(* tries: queued once for each event and webhook, posted while its job      *)
(* lasts, and not more often than the runs of its task allow.               *)
THEOREM Refinement == Spec => DeliveredAsJob
<1>1. Spec => Delivery!Init /\ [][Delivery!Next]_(Delivery!jobVars)
  BY JobInit, JobStep, Invariance, PTL DEF Spec
<1>2. QED
  BY <1>1 DEF DeliveredAsJob, Delivery!Spec
=============================================================================
