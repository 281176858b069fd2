----------------------------- MODULE RetriedJob -----------------------------
(***************************************************************************)
(* What MailGuard keeps of its background jobs (a mail to send, a webhook  *)
(* event to deliver), stated without queue, attempts, back-off or crashes: *)
(*                                                                         *)
(*  - a job is submitted once, and it is over once: it never comes back;   *)
(*  - the work of a job is done between the two only, and at most          *)
(*    MaxTimes times;                                                      *)
(*  - a job is on record as done only if its work was done.                *)
(*                                                                         *)
(* The work may be done several times, because the program repeats what it *)
(* has not heard the success of, or never, because it gives up in the end. *)
(* What is on record may be withdrawn by a repetition that fails.          *)
(***************************************************************************)
EXTENDS Naturals

CONSTANTS
    Jobs,
    MaxTimes  \* how often the work of one job may be done

VARIABLES
    pending,  \* jobs that were submitted and are not over
    over,     \* jobs that are over
    times,    \* per job, how often its work was done
    recorded  \* jobs on record as done

jobVars == <<pending, over, times, recorded>>

Init ==
    /\ pending = {} /\ over = {} /\ recorded = {}
    /\ times = [j \in Jobs |-> 0]

Submit(j) ==
    /\ j \notin pending \union over
    /\ pending' = pending \union {j}
    /\ UNCHANGED <<over, times, recorded>>

Work(j) ==
    /\ j \in pending /\ times[j] < MaxTimes
    /\ times' = [times EXCEPT ![j] = @ + 1]
    /\ UNCHANGED <<pending, over, recorded>>

Record(j) ==
    /\ j \in pending /\ times[j] > 0
    /\ recorded' = recorded \union {j}
    /\ UNCHANGED <<pending, over, times>>

Withdraw(j) ==
    /\ j \in pending
    /\ recorded' = recorded \ {j}
    /\ UNCHANGED <<pending, over, times>>

End(j) ==
    /\ j \in pending
    /\ pending' = pending \ {j} /\ over' = over \union {j}
    /\ UNCHANGED <<times, recorded>>

Next == \E j \in Jobs : Submit(j) \/ Work(j) \/ Record(j) \/ Withdraw(j) \/ End(j)

Spec == Init /\ [][Next]_jobVars
=============================================================================
