--------------------------- MODULE SenderRotation ---------------------------
(***************************************************************************)
(* How MailGuard spreads its mails over the SMTP senders: every accepted   *)
(* mail is counted in Redis under sender:daily:{sender_id}                 *)
(* (increment_sender_usage of core/sender_rotation.py), and an hourly cron *)
(* (apps/worker/tasks/rotation_check.py) calls check_and_rotate for every  *)
(* active project: one whose sender has used up Threshold of its           *)
(* daily_limit is moved to the least used of the senders that were active  *)
(* when they were listed.                                                  *)
(*                                                                         *)
(* Mails are sent, keys expire and rows of sender_emails are written (by   *)
(* the /addemail wizard, apps/bot/wizards/add_email.py, and in the         *)
(* Supabase console) between any two calls of a pass of the cron.  A usage *)
(* percentage is a fraction, compared by cross-multiplication, of a count  *)
(* by the daily_limit of the row as it was read.  sender_email_id is       *)
(* written by the pass only, so that check_and_rotate's reads of the       *)
(* project and of its sender are one step.                                 *)
(***************************************************************************)
EXTENDS Integers, Sequences, FiniteSets

CONSTANTS
    Projects, Senders,
    None,           \* no sender, no project
    Limits,         \* values of daily_limit; 0 or less is possible
    InitialLimit,   \* the one in each sender's row at first
    DefaultLimit,   \* _DEFAULT_DAILY_LIMIT of /addemail
    Threshold,      \* settings.ROTATION_THRESHOLD, <<numerator, denominator>>
    TTL,            \* _DAILY_TTL
    FailingProjects,\* those whose check may raise, every time if it likes
    MaxMails,       \* bound: mails sent in all
    MaxTime,        \* bound: the clock stops here
    MaxEdits,       \* bound: edits of rows, by the bot or in Supabase
    MaxStops        \* bound: stops of the worker during a pass

ASSUME ConstantsAssumption ==
    /\ None \notin Senders /\ None \notin Projects
    /\ Limits \subseteq Int
    /\ InitialLimit \in [Senders -> Limits] /\ DefaultLimit \in Limits
    /\ Threshold \in Nat \X (Nat \ {0})
    /\ TTL \in Nat \ {0} /\ MaxTime \in Nat

VARIABLES
    clock,
    counter,         \* sender:daily:{sender_id}, 0 when there is no such key
    expires,         \* when that key expires, 0 when there is none
    active,          \* senders with is_active
    daily_limit,     \* of each sender's row
    live,            \* projects with is_active
    sender_email_id, \* the sender each project uses
    jobs,            \* per sender, mails under way that are not counted yet
    mails, edits, stops \* what MaxMails, MaxEdits and MaxStops bound

VARIABLES            \* the pass of the cron
    pc,              \* "idle", or what check_and_rotate does next
    todo,            \* listed projects that are not dealt with yet
    project,         \* the one being checked
    current,         \* the row of its sender
    listed,          \* the rows list_sender_emails returned
    readings,        \* what select_best_sender has read so far, in order
    best             \* what it returned

VARIABLES            \* history
    recent,          \* answers <<count, time>> of the INCRs of the last TTL
    forgot,          \* senders whose key expired during the current check
    edited           \* senders whose row was written during it

world == <<clock, counter, expires, jobs, mails, recent>>
rows == <<active, daily_limit, live, sender_email_id>>
pass == <<pc, todo, project, current, listed, readings, best>>
bounded == <<edits, stops>>
hist == <<forgot, edited>>
vars == <<world, rows, pass, bounded, hist>>

Time == 0..MaxTime
Row == [sender : Senders, limit : Int]
Reading == [sender : Senders, limit : Int, count : Nat]

RowOf(s) == [sender |-> s, limit |-> daily_limit[s]]

\* get_usage_pct: the GET, and the quotient as a fraction.
Read(row) ==
    [sender |-> row.sender, limit |-> row.limit, count |-> counter[row.sender]]
Usage(r) == IF r.limit <= 0 THEN <<0, 1>> ELSE <<r.count, r.limit>>

Lower(f, g) == f[1] * g[2] < g[1] * f[2]

\* The comparison with settings.ROTATION_THRESHOLD.
IsExhausted(row) == ~Lower(Usage(Read(row)), Threshold)

Init ==
    /\ clock = 0
    /\ counter = [s \in Senders |-> 0]
    /\ expires = [s \in Senders |-> 0]
    /\ active \in SUBSET Senders
    /\ daily_limit = InitialLimit
    /\ live = Projects
    /\ sender_email_id \in [Projects -> Senders \union {None}]
    /\ jobs = [s \in Senders |-> 0]
    /\ mails = 0 /\ edits = 0 /\ stops = 0
    /\ pc = "idle" /\ todo = {} /\ project = None /\ current = None
    /\ listed = {} /\ readings = <<>> /\ best = None
    /\ recent = [s \in Senders |-> {}]
    /\ forgot = {} /\ edited = {}

-----------------------------------------------------------------------------
(* Mails, time, and edits of the rows.                                      *)

\* A send route puts a mail on its way with the sender of its project.
Send(p) ==
    /\ sender_email_id[p] # None /\ mails < MaxMails
    /\ jobs' = [jobs EXCEPT ![sender_email_id[p]] = @ + 1]
    /\ mails' = mails + 1
    /\ UNCHANGED <<clock, counter, expires, recent, rows, pass, bounded, hist>>

\* Mutant: the time to live is set when the key is made, as the module's
\* docstring has it.
IncrementOnceTimed(s) ==
    /\ jobs[s] > 0
    /\ jobs' = [jobs EXCEPT ![s] = @ - 1]
    /\ counter' = [counter EXCEPT ![s] = @ + 1]
    /\ expires' = [expires EXCEPT ![s] = IF counter[s] = 0 THEN clock + TTL ELSE @]
    /\ recent' = [recent EXCEPT ![s] = @ \union {<<counter'[s], clock>>}]
    /\ UNCHANGED <<clock, mails, rows, pass, bounded, hist>>

\* INCR and EXPIRE, in one pipeline.
increment_sender_usage(s) ==
    /\ jobs[s] > 0
    /\ jobs' = [jobs EXCEPT ![s] = @ - 1]
    /\ counter' = [counter EXCEPT ![s] = @ + 1]
    /\ expires' = [expires EXCEPT ![s] = clock + TTL]
    /\ recent' = [recent EXCEPT ![s] = @ \union {<<counter'[s], clock>>}]
    /\ UNCHANGED <<clock, mails, rows, pass, bounded, hist>>

\* The mail is never accepted, or the pipeline raises.
NotCounted(s) ==
    /\ jobs[s] > 0
    /\ jobs' = [jobs EXCEPT ![s] = @ - 1]
    /\ UNCHANGED <<clock, counter, expires, mails, recent, rows, pass, bounded, hist>>

\* Mutant: a key outlives its time by one unit.
ExpiringLate == {s \in Senders : counter[s] > 0 /\ expires[s] <= clock}

\* Keys that are gone at the next reading of the clock.
Expiring == {s \in Senders : counter[s] > 0 /\ expires[s] <= clock + 1}

Tick ==
    /\ clock < MaxTime
    /\ clock' = clock + 1
    /\ counter' = [s \in Senders |-> IF s \in Expiring THEN 0 ELSE counter[s]]
    /\ expires' = [s \in Senders |-> IF s \in Expiring THEN 0 ELSE expires[s]]
    /\ recent' = [s \in Senders |-> {u \in recent[s] : u[2] + TTL > clock + 1}]
    /\ forgot' = IF project = None THEN {} ELSE forgot \union Expiring
    /\ UNCHANGED <<jobs, mails, rows, pass, bounded, edited>>

\* /deleteproject and /activateproject of the bot.
SetProjectActive(p) ==
    /\ edits < MaxEdits /\ edits' = edits + 1
    /\ live' \in {live \union {p}, live \ {p}}
    /\ UNCHANGED <<world, active, daily_limit, sender_email_id, pass, stops, hist>>

WriteRow(s, limit) ==
    /\ edits < MaxEdits /\ edits' = edits + 1
    /\ daily_limit' = [daily_limit EXCEPT ![s] = limit]
    /\ edited' = IF project = None THEN {} ELSE edited \union {s}
    /\ UNCHANGED <<world, live, sender_email_id, pass, stops, forgot>>

\* The upsert of receive_password, for a new address or one that is known.
AddEmail(s) ==
    /\ active' = active \union {s}
    /\ WriteRow(s, DefaultLimit)

\* A row is edited in the Supabase console.
EditSender(s, limit) ==
    /\ active' \in {active \union {s}, active \ {s}}
    /\ WriteRow(s, limit)

-----------------------------------------------------------------------------
(* rotation_check.                                                          *)

StartPass ==
    /\ pc = "idle"
    /\ todo' = {p \in live : sender_email_id[p] # None}
    /\ pc' = "check"
    /\ UNCHANGED <<world, rows, project, current, listed, readings, best, bounded, hist>>

EndPass ==
    /\ pc = "check" /\ todo = {}
    /\ pc' = "idle"
    /\ UNCHANGED <<world, rows, todo, project, current, listed, readings, best, bounded, hist>>

\* The locals of check_and_rotate are gone.
Leave ==
    /\ project' = None /\ current' = None
    /\ listed' = {} /\ readings' = <<>> /\ best' = None
    /\ forgot' = {} /\ edited' = {}

\* The next round of the loop over the projects.
DoneWith(p) ==
    /\ pc' = "check" /\ todo' = todo \ {p}
    /\ Leave

\* Mutant: no try around the check of one project.
EscapingException(p) ==
    /\ pc' = "idle" /\ todo' = {}
    /\ Leave

\* The except branch of the loop.
Caught(p) == DoneWith(p)

\* Any call of the check raises; an update may have had its effect.
CheckRaises(p) ==
    /\ p \in FailingProjects
    /\ \/ pc = "check" /\ p \in todo
       \/ pc \in {"usage", "list", "rate", "update"} /\ p = project
    /\ \/ UNCHANGED sender_email_id
       \/ /\ pc = "update"
          /\ sender_email_id' = [sender_email_id EXCEPT ![p] = best.sender]
    /\ Caught(p)
    /\ UNCHANGED <<world, active, daily_limit, live, bounded>>

\* The worker stops, or the task runs into job_timeout.
WorkerStops ==
    /\ pc # "idle" /\ stops < MaxStops
    /\ stops' = stops + 1
    /\ pc' = "idle" /\ todo' = {}
    /\ Leave
    /\ UNCHANGED <<world, rows, edits>>

-----------------------------------------------------------------------------
(* check_and_rotate.                                                        *)

\* get_project and get_sender_email.
ReadSender(p) ==
    /\ pc = "check" /\ p \in todo
    /\ pc' = "usage" /\ project' = p /\ current' = RowOf(sender_email_id[p])
    /\ UNCHANGED <<world, rows, todo, listed, readings, best, bounded, hist>>

\* Up to the return below the threshold.
ReadUsage(p) ==
    /\ pc = "usage" /\ p = project
    /\ IF IsExhausted(current)
       THEN /\ pc' = "list" /\ current' = None
            /\ UNCHANGED <<todo, project, listed, readings, best, hist>>
       ELSE DoneWith(p)
    /\ UNCHANGED <<world, rows, bounded>>

\* Without an active sender there is nothing to choose from.
list_sender_emails(p) ==
    /\ pc = "list" /\ p = project
    /\ IF active # {}
       THEN /\ pc' = "rate" /\ listed' = {RowOf(s) : s \in active}
            /\ UNCHANGED <<todo, project, current, readings, best, hist>>
       ELSE DoneWith(p)
    /\ UNCHANGED <<world, rows, bounded>>

\* Python's min over the readings at the positions of I: the first least one.
FirstLeast(rs, I, i) ==
    /\ i \in I
    /\ \A j \in I : ~Lower(Usage(rs[j]), Usage(rs[i]))
    /\ \A j \in I : j < i => Lower(Usage(rs[i]), Usage(rs[j]))

BelowThreshold(rs) == {i \in DOMAIN rs : Lower(Usage(rs[i]), Threshold)}

\* Mutant: all exhausted, the choice falls on any of them.
select_best_sender_any(rs, i) ==
    IF BelowThreshold(rs) # {}
    THEN FirstLeast(rs, BelowThreshold(rs), i)
    ELSE i \in DOMAIN rs

\* select_best_sender returns the sender of reading i.
select_best_sender(rs, i) ==
    IF BelowThreshold(rs) # {}
    THEN FirstLeast(rs, BelowThreshold(rs), i)
    ELSE FirstLeast(rs, DOMAIN rs, i)

\* The senders that are read.
Seen(rs) == {rs[i].sender : i \in DOMAIN rs}

\* One GET of select_best_sender's loop, over a list in no particular order.
\* After the last one the list is not looked at again.
ReadCandidate(p, row) ==
    /\ pc = "rate" /\ p = project
    /\ row.sender \notin Seen(readings)
    /\ LET rs == Append(readings, Read(row)) IN
       IF \E r \in listed : r.sender \notin Seen(rs)
       THEN /\ readings' = rs
            /\ UNCHANGED <<pc, todo, project, current, listed, best, hist>>
       ELSE \E i \in DOMAIN rs :
              /\ select_best_sender(rs, i)
              /\ IF rs[i].sender = sender_email_id[p]
                 THEN DoneWith(p)
                 ELSE /\ pc' = "update" /\ best' = rs[i]
                      /\ readings' = <<>> /\ listed' = {}
                      /\ UNCHANGED <<todo, project, current, hist>>
    /\ UNCHANGED <<world, rows, bounded>>

\* update_project, and the Telegram alert, whose failure is swallowed.
Rotate(p) ==
    /\ pc = "update" /\ p = project
    /\ sender_email_id' = [sender_email_id EXCEPT ![p] = best.sender]
    /\ DoneWith(p)
    /\ UNCHANGED <<world, active, daily_limit, live, bounded>>

-----------------------------------------------------------------------------

Check(p) ==
    \/ ReadSender(p) \/ ReadUsage(p) \/ list_sender_emails(p)
    \/ \E row \in listed : ReadCandidate(p, row)
    \/ Rotate(p)

\* A pass is begun and gone through, its calls returning or raising.
Cron == StartPass \/ EndPass \/ \E p \in Projects : Check(p) \/ CheckRaises(p)

Surroundings ==
    \/ \E p \in Projects : Send(p) \/ SetProjectActive(p)
    \/ \E s \in Senders : increment_sender_usage(s) \/ NotCounted(s) \/ AddEmail(s)
    \/ \E s \in Senders, limit \in Limits : EditSender(s, limit)
    \/ Tick

Next == Cron \/ WorkerStops \/ Surroundings

Spec == Init /\ [][Next]_vars

\* The worker runs the cron again and again.
FairSpec == Spec /\ WF_vars(Cron)

-----------------------------------------------------------------------------
(* Properties.                                                              *)

\* Every variable stays within its type, a counter has an expiry in the future,
\* and the locals of a check exist while it runs.
TypeOK ==
    /\ clock \in Time
    /\ counter \in [Senders -> Nat]
    /\ expires \in [Senders -> Nat]
    /\ \A s \in Senders : IF counter[s] = 0 THEN expires[s] = 0 ELSE expires[s] > clock
    /\ active \in SUBSET Senders
    /\ daily_limit \in [Senders -> Limits]
    /\ live \in SUBSET Projects
    /\ sender_email_id \in [Projects -> Senders \union {None}]
    /\ jobs \in [Senders -> Nat] /\ mails \in Nat
    /\ edits \in Nat /\ stops \in Nat
    /\ pc \in {"idle", "check", "usage", "list", "rate", "update"}
    /\ todo \in SUBSET Projects
    /\ IF pc \in {"idle", "check"} THEN project = None ELSE project \in todo
    /\ IF pc = "usage" THEN current \in Row ELSE current = None
    /\ listed \in SUBSET Row
    /\ readings \in Seq(Reading)
    /\ IF pc = "update" THEN best \in Reading ELSE best = None
    /\ recent \in [Senders -> SUBSET ((Nat \ {0}) \X Time)]
    /\ forgot \in SUBSET Senders /\ edited \in SUBSET Senders

\* No mail of the last day is forgotten: a sender's counter is at least the
\* number of mails that were counted for it within the last TTL, however the
\* expiry of its key and the increments fall.
CounterCoversDay == \A s \in Senders : Cardinality(recent[s]) <= counter[s]

\* What the reads made one after another are still worth when the row is
\* written.  The senders whose key expired (forgot) or whose row was written
\* (edited) since the check of the project began apart: the sender that is left
\* is exhausted, the one that is taken is active, and no active sender has a
\* lower usage than the one taken had when it was read.  Nothing is promised of
\* a sender that /addemail adds, activates or gives another limit during the
\* check: the choice is made among the rows as they were listed.
RotationIsJustified ==
    [][\A p \in Projects :
         sender_email_id'[p] # sender_email_id[p] =>
           LET left == sender_email_id[p]
               taken == sender_email_id'[p] IN
           /\ left \in forgot \union edited \/ IsExhausted(RowOf(left))
           /\ taken = best.sender
           /\ taken \in active \union edited
           /\ \A s \in active \ (forgot \union edited) :
                ~Lower(Usage(Read(RowOf(s))), Usage(best))]_vars

\* The project's sender is exhausted and another one could take over.
Overdue(p) ==
    /\ p \in live /\ sender_email_id[p] # None
    /\ IsExhausted(RowOf(sender_email_id[p]))
    /\ \E s \in active : ~IsExhausted(RowOf(s))

\* Once the rows are not edited any more, a project is not left with an exhausted
\* sender for ever while there is a better one, even if the check of another
\* project raises every time and the worker stops during passes.
EventuallyRotated ==
    \A p \in Projects \ FailingProjects : []<>~Overdue(p)
=============================================================================
