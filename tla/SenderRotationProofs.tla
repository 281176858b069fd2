------------------------ MODULE SenderRotationProofs ------------------------
(***************************************************************************)
(* Proofs about SenderRotation, for any senders, projects, limits,         *)
(* threshold and time to live.                                             *)
(*                                                                         *)
(* CounterCoversDay is not inductive: when a key expires, its counter must *)
(* cover nothing any more.  It does because every counted mail was counted *)
(* at least a TTL before its key expires (DayInv).  RotationIsJustified    *)
(* relates the write of the row to reads made several steps before it: the *)
(* invariant CheckInv carries what was read, weakened by what may have     *)
(* happened since to counters (forgot) and rows (edited), from each read   *)
(* to the write.                                                           *)
(***************************************************************************)
EXTENDS SenderRotation, FiniteSetTheorems, TLAPS

Fraction == Nat \X (Nat \ {0})

DayInv(s) ==
    /\ IsFiniteSet(recent[s]) /\ Cardinality(recent[s]) <= counter[s]
    /\ \A u \in recent[s] : u[2] <= clock /\ u[2] + TTL <= expires[s]

\* The row that was read is still as it was, unless it was written.
RowStands(row) == row.sender \in edited \/ row.limit = daily_limit[row.sender]

\* So is a listed one, and it is active.
ListedStands(row) == RowStands(row) /\ row.sender \in active \union edited

\* The counter has not fallen below reading r, unless its key expired.
Stands(r) ==
    /\ ListedStands(r)
    /\ r.sender \in forgot \/ r.count <= counter[r.sender]

Left == sender_email_id[project]

CheckInv ==
    /\ \A p \in todo : sender_email_id[p] \in Senders
    /\ project = None => readings = <<>> /\ listed = {}
    /\ pc = "usage" => RowStands(current) /\ current.sender = Left
    /\ pc \in {"list", "rate", "update"} =>
         Left \in forgot \union edited \/ IsExhausted(RowOf(Left))
    /\ \A row \in listed : ListedStands(row)
    /\ pc = "rate" => \A s \in active \ edited : \E row \in listed : row.sender = s
    /\ \A i \in DOMAIN readings : Stands(readings[i])
    /\ pc = "update" =>
         /\ best.sender \in active \union edited
         /\ \A s \in active \ (forgot \union edited) :
              ~Lower(Usage(Read(RowOf(s))), Usage(best))

IInv == TypeOK /\ (\A s \in Senders : DayInv(s)) /\ CheckInv

-----------------------------------------------------------------------------
(* Usage is a fraction, and "not lower" is transitive.                      *)

(* A reading's usage is a fraction: the limit is positive where it divides.  *)
LEMMA UsageIsFraction ==
    ASSUME NEW r \in Reading PROVE Usage(r) \in Fraction
<1>1. r.count \in Nat /\ r.limit \in Int
  BY DEF Reading
<1>2. QED
  BY <1>1 DEF Usage, Fraction

(* Fractions that are not lower than one another form a chain.              *)
LEMMA NotLowerTransitive ==
    ASSUME NEW f \in Fraction, NEW g \in Fraction, NEW h \in Fraction,
           ~Lower(f, g), ~Lower(g, h)
    PROVE  ~Lower(f, h)
<1> DEFINE a == f[1]  b == f[2]  c == g[1]  d == g[2]  e == h[1]  k == h[2]
<1>1. a \in Nat /\ b \in Nat /\ b > 0 /\ c \in Nat /\ d \in Nat /\ d > 0
      /\ e \in Nat /\ k \in Nat /\ k > 0
  BY DEF Fraction
<1>2. a * d >= c * b /\ c * k >= e * d
  BY <1>1 DEF Lower
<1> HIDE DEF a, b, c, d, e, k
<1>3. (a * d) * k >= (c * b) * k /\ (c * k) * b >= (e * d) * b
  BY <1>1, <1>2
<1>4. (a * k) * d >= (e * b) * d
  BY <1>1, <1>3
<1>5. a * k >= e * b
  BY <1>1, <1>4
<1>6. QED
  BY <1>1, <1>5 DEF Lower, a, b, e, k

(* Of two fractions one is not lower than the other.                        *)
LEMMA LowerAsymmetric ==
    ASSUME NEW f \in Fraction, NEW g \in Fraction, Lower(f, g)
    PROVE  ~Lower(g, f)
<1>1. f[1] * g[2] \in Int /\ g[1] * f[2] \in Int
  BY DEF Fraction
<1>2. QED
  BY <1>1 DEF Lower

(* A sender's usage does not fall while its counter does not.               *)
LEMMA UsageMonotone ==
    ASSUME NEW r \in Reading, NEW q \in Reading, r.limit = q.limit,
           r.count <= q.count, NEW f \in Fraction, ~Lower(Usage(r), f)
    PROVE  ~Lower(Usage(q), f)
<1> DEFINE c == r.count  d == q.count  l == q.limit
<1>1. c \in Nat /\ d \in Nat /\ l \in Int /\ c <= d /\ r.limit = l
  BY DEF Reading
<1>2. CASE l <= 0
  BY <1>1, <1>2 DEF Usage
<1>3. CASE ~(l <= 0)
  <2>1. Usage(r) = <<c, l>> /\ Usage(q) = <<d, l>>
    BY <1>1, <1>3 DEF Usage
  <2> HIDE DEF c, d, l
  <2>2. d * l >= c * l
    BY <1>1, <1>3
  <2>3. ~Lower(Usage(q), Usage(r))
    BY <2>1, <2>2, <1>1 DEF Lower
  <2>4. QED
    BY <2>3, UsageIsFraction, NotLowerTransitive
<1>4. QED
  BY <1>2, <1>3

(* What select_best_sender returns is the least used of all it has read,    *)
(* whether or not any of them is below the threshold.                       *)
LEMMA BestIsLeast ==
    ASSUME NEW rs \in Seq(Reading), NEW i \in DOMAIN rs, NEW j \in DOMAIN rs,
           select_best_sender(rs, i)
    PROVE  ~Lower(Usage(rs[j]), Usage(rs[i]))
<1>1. Usage(rs[i]) \in Fraction /\ Usage(rs[j]) \in Fraction /\ Threshold \in Fraction
  <2>1. rs[i] \in Reading /\ rs[j] \in Reading
    OBVIOUS
  <2>2. QED
    BY <2>1, UsageIsFraction, ConstantsAssumption DEF Fraction
<1>2. CASE BelowThreshold(rs) = {} \/ j \in BelowThreshold(rs)
  BY <1>2 DEF select_best_sender, FirstLeast
<1>3. CASE BelowThreshold(rs) # {} /\ j \notin BelowThreshold(rs)
  <2>1. i \in BelowThreshold(rs)
    BY <1>3 DEF select_best_sender, FirstLeast
  <2>2. ~Lower(Threshold, Usage(rs[i])) /\ ~Lower(Usage(rs[j]), Threshold)
    BY <1>1, <1>3, <2>1, LowerAsymmetric DEF BelowThreshold
  <2>3. QED
    BY <1>1, <2>2, NotLowerTransitive
<1>4. QED
  BY <1>2, <1>3

-----------------------------------------------------------------------------
(* Types.                                                                   *)

(* What a row and its sender's counter make a reading of is one.            *)
LEMMA ReadType ==
    ASSUME TypeOK, NEW s \in Senders
    PROVE  /\ RowOf(s) \in Row /\ RowOf(s).sender = s /\ RowOf(s).limit = daily_limit[s]
           /\ Read(RowOf(s)) \in Reading /\ Read(RowOf(s)).limit = daily_limit[s]
           /\ Read(RowOf(s)).sender = s /\ Read(RowOf(s)).count = counter[s]
<1>1. counter[s] \in Nat /\ daily_limit[s] \in Int
  BY ConstantsAssumption DEF TypeOK
<1>2. QED
  BY <1>1 DEF RowOf, Read, Row, Reading

(* Every step keeps TypeOK.                                                 *)
LEMMA TypeStep ==
    ASSUME TypeOK, [Next]_vars,
           \A p \in todo : sender_email_id[p] \in Senders
    PROVE  TypeOK'
<1> USE ConstantsAssumption
<1>1. CASE UNCHANGED vars
  BY <1>1 DEF TypeOK, vars, world, rows, pass, bounded, hist, Time
<1>2. ASSUME NEW p \in Projects, Send(p) PROVE TypeOK'
  <2>1. sender_email_id[p] \in Senders
    BY <1>2 DEF TypeOK, Send
  <2>2. jobs' \in [Senders -> Nat] /\ mails' \in Nat
    BY <1>2, <2>1 DEF TypeOK, Send
  <2>3. QED
    BY <1>2, <2>2 DEF TypeOK, Send, rows, pass, bounded, hist, Time
<1>3. ASSUME NEW s \in Senders, increment_sender_usage(s) PROVE TypeOK'
  <2>1. counter' \in [Senders -> Nat] /\ expires' \in [Senders -> Nat]
        /\ jobs' \in [Senders -> Nat]
    <3>1. /\ counter \in [Senders -> Nat] /\ expires \in [Senders -> Nat]
          /\ jobs \in [Senders -> Nat] /\ clock + TTL \in Nat
      BY DEF TypeOK, Time
    <3>2. counter[s] + 1 \in Nat /\ jobs[s] - 1 \in Nat
      BY <1>3, <3>1 DEF increment_sender_usage
    <3>3. counter' = [counter EXCEPT ![s] = counter[s] + 1]
      BY <1>3 DEF increment_sender_usage
    <3>4. expires' = [expires EXCEPT ![s] = clock + TTL]
      BY <1>3 DEF increment_sender_usage
    <3>5. jobs' = [jobs EXCEPT ![s] = jobs[s] - 1]
      BY <1>3 DEF increment_sender_usage
    <3>6. counter' \in [Senders -> Nat]
      BY <3>1, <3>2, <3>3
    <3>7. expires' \in [Senders -> Nat]
      BY <3>1, <3>4
    <3>8. jobs' \in [Senders -> Nat]
      BY <3>1, <3>2, <3>5
    <3>9. QED
      BY <3>6, <3>7, <3>8
  <2>2. ASSUME NEW t \in Senders
        PROVE  IF counter'[t] = 0 THEN expires'[t] = 0 ELSE expires'[t] > clock'
    <3>1. /\ counter[t] \in Nat /\ clock \in Int /\ TTL \in Nat \ {0} /\ clock' = clock
          /\ counter'[t] = IF t = s THEN counter[t] + 1 ELSE counter[t]
          /\ expires'[t] = IF t = s THEN clock + TTL ELSE expires[t]
      BY <1>3 DEF TypeOK, increment_sender_usage, Time
    <3>2. QED
      BY <3>1 DEF TypeOK
  <2>3. ASSUME NEW t \in Senders PROVE recent'[t] \subseteq (Nat \ {0}) \X Time
    <3>1. counter[s] \in Nat /\ counter'[s] = counter[s] + 1 /\ clock \in Time
      BY <1>3 DEF TypeOK, increment_sender_usage
    <3>2. <<counter'[s], clock>> \in (Nat \ {0}) \X Time
      BY <3>1
    <3>3. recent'[t] \subseteq recent[t] \union {<<counter'[s], clock>>}
      BY <1>3 DEF TypeOK, increment_sender_usage
    <3>4. QED
      BY <3>2, <3>3 DEF TypeOK
  <2>4. QED
    BY <1>3, <2>1, <2>2, <2>3 DEF TypeOK, increment_sender_usage, rows, pass, bounded, hist, Time
<1>4. ASSUME NEW s \in Senders, NotCounted(s) PROVE TypeOK'
  <2>1. jobs' \in [Senders -> Nat]
    BY <1>4 DEF TypeOK, NotCounted
  <2>2. QED
    BY <1>4, <2>1 DEF TypeOK, NotCounted, rows, pass, bounded, hist, Time
<1>5. CASE Tick
  <2>1. clock' \in Time /\ counter' \in [Senders -> Nat] /\ expires' \in [Senders -> Nat]
    BY <1>5 DEF TypeOK, Tick, Time
  <2>2. \A t \in Senders : IF counter'[t] = 0 THEN expires'[t] = 0 ELSE expires'[t] > clock'
    BY <1>5 DEF TypeOK, Tick, Time, Expiring
  <2>3. \A t \in Senders : recent'[t] \subseteq (Nat \ {0}) \X Time
    BY <1>5 DEF TypeOK, Tick
  <2>4. forgot' \in SUBSET Senders
    BY <1>5 DEF TypeOK, Tick, Expiring
  <2>5. QED
    BY <1>5, <2>1, <2>2, <2>3, <2>4 DEF TypeOK, Tick, rows, pass, bounded
<1>6. ASSUME NEW p \in Projects, SetProjectActive(p) PROVE TypeOK'
  BY <1>6 DEF TypeOK, SetProjectActive, world, pass, bounded, hist, Time
<1>7. ASSUME NEW s \in Senders, NEW limit \in Limits, WriteRow(s, limit),
             active' \in SUBSET Senders
      PROVE  TypeOK'
  <2>1. daily_limit' \in [Senders -> Limits] /\ edited' \in SUBSET Senders /\ edits' \in Nat
    BY <1>7 DEF TypeOK, WriteRow
  <2>2. QED
    BY <1>7, <2>1 DEF TypeOK, WriteRow, world, pass, Time
<1>7a. ASSUME NEW s \in Senders, AddEmail(s) PROVE TypeOK'
  BY <1>7, <1>7a DEF TypeOK, AddEmail
<1>7b. ASSUME NEW s \in Senders, NEW limit \in Limits, EditSender(s, limit) PROVE TypeOK'
  BY <1>7, <1>7b DEF TypeOK, EditSender
<1>8. CASE StartPass
  BY <1>8 DEF TypeOK, StartPass, world, rows, bounded, hist, Time
<1>9. CASE EndPass
  BY <1>9 DEF TypeOK, EndPass, world, rows, bounded, hist, Time
<1>10. ASSUME NEW p \in Projects, UNCHANGED <<world, active, daily_limit, live, bounded>>,
              DoneWith(p), sender_email_id' \in [Projects -> Senders \union {None}]
       PROVE  TypeOK'
  BY <1>10 DEF TypeOK, DoneWith, Leave, world, bounded, Time
<1>11. ASSUME NEW p \in Projects, CheckRaises(p) PROVE TypeOK'
  <2>1. sender_email_id' \in [Projects -> Senders \union {None}]
    BY <1>11 DEF TypeOK, CheckRaises, Reading
  <2>2. QED
    BY <1>10, <1>11, <2>1 DEF CheckRaises, Caught
<1>12. CASE WorkerStops
  BY <1>12 DEF TypeOK, WorkerStops, Leave, world, rows, bounded, hist, Time
<1>12a. ASSUME NEW p \in Projects, ReadSender(p), sender_email_id[p] \in Senders
        PROVE  TypeOK'
  <2>1. RowOf(sender_email_id[p]) \in Row
    BY <1>12a DEF TypeOK, RowOf, Row
  <2>2. p # None
    OBVIOUS
  <2>3. QED
    BY <1>12a, <2>1, <2>2 DEF TypeOK, ReadSender, world, rows, bounded, hist, Time
<1>13. ASSUME NEW p \in Projects, ReadUsage(p) PROVE TypeOK'
  <2>1. CASE IsExhausted(current)
    BY <1>13, <2>1 DEF TypeOK, ReadUsage, world, rows, bounded, hist, Time
  <2>2. CASE ~IsExhausted(current)
    BY <1>10, <1>13, <2>2 DEF TypeOK, ReadUsage, rows
  <2>3. QED
    BY <2>1, <2>2
<1>14. ASSUME NEW p \in Projects, list_sender_emails(p) PROVE TypeOK'
  <2>1. CASE active # {}
    <3>1. {RowOf(s) : s \in active} \in SUBSET Row
      BY ReadType DEF TypeOK
    <3>2. listed' \in SUBSET Row /\ pc' = "rate"
      BY <1>14, <2>1, <3>1 DEF list_sender_emails
    <3>3. project # None /\ project \in todo /\ current = None /\ best = None
      BY <1>14 DEF TypeOK, list_sender_emails
    <3>4. UNCHANGED <<clock, counter, expires, jobs, mails, recent, active, daily_limit,
                      live, sender_email_id, edits, stops, todo, project, current,
                      readings, best, forgot, edited>>
      BY <1>14, <2>1 DEF list_sender_emails, world, rows, bounded, hist
    <3>5. QED
      BY <3>2, <3>3, <3>4 DEF TypeOK
  <2>2. CASE ~(active # {})
    BY <1>10, <1>14, <2>2 DEF TypeOK, list_sender_emails, rows
  <2>3. QED
    BY <2>1, <2>2
<1>15. ASSUME NEW p \in Projects, NEW row \in listed, ReadCandidate(p, row) PROVE TypeOK'
  <2> DEFINE rs == Append(readings, Read(row))
             more == \E r \in listed : r.sender \notin Seen(rs)
  <2>1. Read(row) \in Reading
    <3>1. row \in Row /\ row.sender \in Senders /\ row.limit \in Int
      BY DEF TypeOK, Row
    <3>2. QED
      BY <3>1 DEF TypeOK, Read, Reading
  <2>2. rs \in Seq(Reading)
    BY <2>1 DEF TypeOK
  <2>3. UNCHANGED <<world, rows, bounded>> /\ pc = "rate"
    BY <1>15 DEF ReadCandidate
  <2>4. CASE more
    <3>1. readings' = rs /\ UNCHANGED <<pc, todo, project, current, listed, best, hist>>
      BY <1>15, <2>4 DEF ReadCandidate
    <3> HIDE DEF rs, more
    <3>2. QED
      BY <2>2, <2>3, <3>1 DEF TypeOK, world, rows, bounded, hist, Time
  <2>5. CASE ~more
    <3>1. PICK i \in DOMAIN rs :
            IF rs[i].sender = sender_email_id[p]
            THEN DoneWith(p)
            ELSE /\ pc' = "update" /\ best' = rs[i]
                 /\ readings' = <<>> /\ listed' = {}
                 /\ UNCHANGED <<todo, project, current, hist>>
      BY <1>15, <2>5 DEF ReadCandidate
    <3> HIDE DEF rs, more
    <3>2. rs[i] \in Reading
      BY <2>2
    <3>3. CASE rs[i].sender = sender_email_id[p]
      BY <1>10, <2>3, <3>1, <3>3 DEF TypeOK, rows
    <3>4. CASE rs[i].sender # sender_email_id[p]
      <4>1. /\ pc' = "update" /\ best' = rs[i] /\ readings' = <<>> /\ listed' = {}
            /\ UNCHANGED <<todo, project, current, hist>>
        BY <3>1, <3>4
      <4>2. project # None /\ project \in todo
        BY <2>3 DEF TypeOK
      <4>3. UNCHANGED <<clock, counter, expires, jobs, mails, recent, active, daily_limit,
                        live, sender_email_id, edits, stops, todo, project, current,
                        forgot, edited>>
        BY <2>3, <4>1 DEF world, rows, bounded, hist
      <4>4. QED
        BY <2>3, <3>2, <4>1, <4>2, <4>3 DEF TypeOK, Time
    <3>5. QED
      BY <3>3, <3>4
  <2>6. QED
    BY <2>4, <2>5
<1>16. ASSUME NEW p \in Projects, Rotate(p) PROVE TypeOK'
  <2>1. sender_email_id' \in [Projects -> Senders \union {None}]
    BY <1>16 DEF TypeOK, Rotate, Reading
  <2>2. QED
    BY <1>10, <1>16, <2>1 DEF Rotate
<1>17. QED
  BY <1>1, <1>2, <1>3, <1>4, <1>5, <1>6, <1>7a, <1>7b, <1>8, <1>9, <1>11, <1>12,
     <1>12a, <1>13, <1>14, <1>15, <1>16 DEF ReadSender, Next, Cron, Surroundings, Check

-----------------------------------------------------------------------------
(* The counter and the uses of the last day.                                *)

(* Every step keeps DayInv: an increment adds at most one use to those the  *)
(* counter covers, and a key that expires leaves no use of the last TTL.    *)
LEMMA DayStep ==
    ASSUME TypeOK, \A s \in Senders : DayInv(s), [Next]_vars, NEW s \in Senders
    PROVE  DayInv(s)'
<1>1. CASE UNCHANGED <<clock, counter, expires, recent>>
  BY <1>1 DEF DayInv
<1>2. ASSUME NEW t \in Senders, increment_sender_usage(t) PROVE DayInv(s)'
  <2>1. CASE s # t
    <3>1. counter'[s] = counter[s] /\ expires'[s] = expires[s] /\ recent'[s] = recent[s]
          /\ clock' = clock
      BY <1>2, <2>1 DEF TypeOK, increment_sender_usage
    <3>2. QED
      BY <3>1 DEF DayInv
  <2>2. CASE s = t
    <3> DEFINE u == <<counter'[s], clock>>
    <3>1. counter'[s] = counter[s] + 1 /\ counter[s] \in Nat /\ expires'[s] = clock + TTL
          /\ recent'[s] = recent[s] \union {u} /\ clock \in Int /\ TTL \in Int
      BY <1>2, <2>2, ConstantsAssumption DEF TypeOK, increment_sender_usage, Time
    <3>2. recent[s] \subseteq (Nat \ {0}) \X Time /\ DayInv(s)
      BY DEF TypeOK
    <3>3. IsFiniteSet(recent'[s]) /\ Cardinality(recent'[s]) <= Cardinality(recent[s]) + 1
      <4>1. IsFiniteSet(recent[s]) /\ Cardinality(recent[s]) \in Nat
        BY <3>2, FS_CardinalityType DEF DayInv
      <4>2. ASSUME NEW w, recent'[s] = recent[s] \union {w}
            PROVE  IsFiniteSet(recent'[s]) /\ Cardinality(recent'[s]) <= Cardinality(recent[s]) + 1
        <5>1. IsFiniteSet(recent[s] \union {w})
              /\ (\/ Cardinality(recent[s] \union {w}) = Cardinality(recent[s])
                  \/ Cardinality(recent[s] \union {w}) = Cardinality(recent[s]) + 1)
          BY <4>1, FS_AddElement
        <5>2. QED
          BY <4>1, <4>2, <5>1
      <4>3. QED
        BY <3>1, <4>2
    <3>4. Cardinality(recent'[s]) <= counter'[s]
      <4>1. Cardinality(recent[s]) \in Nat /\ Cardinality(recent'[s]) \in Nat
        BY <3>2, <3>3, FS_CardinalityType DEF DayInv
      <4>2. QED
        BY <3>1, <3>2, <3>3, <4>1 DEF DayInv
    <3>5. ASSUME NEW v \in recent'[s] PROVE v[2] <= clock' /\ v[2] + TTL <= expires'[s]
      <4>0. clock' = clock
        BY <1>2 DEF increment_sender_usage
      <4>1. CASE v = u
        BY <3>1, <4>0, <4>1
      <4>2. CASE v \in recent[s]
        <5>1. v[2] \in Int /\ v[2] <= clock
          BY <3>2, <4>2 DEF Time, DayInv
        <5>2. QED
          BY <3>1, <4>0, <5>1
      <4>3. QED
        BY <3>1, <4>1, <4>2
    <3>6. QED
      BY <3>3, <3>4, <3>5 DEF DayInv
  <2>3. QED
    BY <2>1, <2>2
<1>3. CASE Tick
  <2>1. recent'[s] = {u \in recent[s] : u[2] + TTL > clock + 1}
    BY <1>3 DEF Tick
  <2>2. IsFiniteSet(recent'[s]) /\ Cardinality(recent'[s]) <= Cardinality(recent[s])
    BY <2>1, FS_Subset DEF DayInv
  <2>3. Cardinality(recent[s]) \in Nat /\ Cardinality(recent'[s]) \in Nat
        /\ counter[s] \in Nat /\ expires[s] \in Nat /\ clock \in Int
    BY <2>2, FS_CardinalityType DEF DayInv, TypeOK, Time
  <2>4. CASE s \in Expiring
    <3>1. counter'[s] = 0 /\ expires'[s] = 0 /\ expires[s] <= clock + 1
      BY <1>3, <2>4 DEF Tick, Expiring
    <3>2. ASSUME NEW u \in recent'[s] PROVE FALSE
      <4>1. u \in recent[s] /\ u[2] + TTL > clock + 1
        BY <2>1
      <4>2. u[2] \in Int /\ TTL \in Int /\ u[2] + TTL <= expires[s]
        BY <4>1, ConstantsAssumption DEF TypeOK, DayInv, Time
      <4>3. QED
        BY <2>3, <3>1, <4>1, <4>2
    <3>3. recent'[s] = {}
      BY <3>2
    <3>4. QED
      BY <3>1, <3>3, FS_EmptySet DEF DayInv
  <2>5. CASE s \notin Expiring
    <3>1. counter'[s] = counter[s] /\ expires'[s] = expires[s] /\ clock' = clock + 1
      BY <1>3, <2>5 DEF Tick
    <3>2. ASSUME NEW u \in recent'[s] PROVE u[2] <= clock' /\ u[2] + TTL <= expires'[s]
      <4>1. u \in recent[s] /\ u[2] \in Int
        BY <2>1 DEF TypeOK, Time
      <4>2. u[2] <= clock /\ u[2] + TTL <= expires[s]
        BY <4>1 DEF DayInv
      <4>3. QED
        BY <2>3, <3>1, <4>1, <4>2
    <3>3. Cardinality(recent'[s]) <= counter'[s]
      BY <2>2, <2>3, <3>1 DEF DayInv
    <3>4. QED
      BY <2>2, <3>2, <3>3 DEF DayInv
  <2>6. QED
    BY <2>4, <2>5
<1>4. QED
  BY <1>1, <1>2, <1>3 DEF Next, Cron, Surroundings, Check, vars, world, Send, NotCounted,
     SetProjectActive, AddEmail, EditSender, WriteRow, ReadSender, StartPass, EndPass, CheckRaises, WorkerStops,
     ReadUsage, list_sender_emails, ReadCandidate, Rotate

-----------------------------------------------------------------------------
(* A check, from its first read to its write.                               *)

(* A usage that is not below f stays so while the counter only grows and    *)
(* the row is as it was.                                                    *)
LEMMA UsageStands ==
    ASSUME TypeOK, TypeOK', NEW s \in Senders, NEW f \in Fraction,
           ~Lower(Usage(Read(RowOf(s))), f),
           counter[s] <= counter'[s], daily_limit'[s] = daily_limit[s]
    PROVE  ~Lower(Usage(Read(RowOf(s)))', f)
<1>1. /\ Read(RowOf(s)) \in Reading /\ Read(RowOf(s)).limit = daily_limit[s]
      /\ Read(RowOf(s)).count = counter[s]
  BY ReadType
<1>2. /\ Read(RowOf(s))' \in Reading /\ Read(RowOf(s))'.limit = daily_limit'[s]
      /\ Read(RowOf(s))'.count = counter'[s]
  <2>1. counter'[s] \in Nat /\ daily_limit'[s] \in Int
    BY ConstantsAssumption DEF TypeOK
  <2>2. QED
    BY <2>1 DEF RowOf, Read, Row, Reading
<1>3. \A q \in Reading : q.limit = daily_limit[s] /\ counter[s] <= q.count
        => ~Lower(Usage(q), f)
  BY <1>1, UsageMonotone
<1>4. ~Lower(Usage(Read(RowOf(s))'), f)
  BY <1>2, <1>3
<1>5. QED
  BY <1>4 DEF Usage, Lower

(* What a check has read stands when counters only grow and rows stay as    *)
(* they are, or their senders are forgotten or edited.                      *)
LEMMA ReadsStand ==
    ASSUME IInv, TypeOK', UNCHANGED <<sender_email_id, pass>>,
           project # None => forgot \subseteq forgot' /\ edited \subseteq edited',
           \A s \in Senders :
               project = None \/ s \in forgot' \/ counter[s] <= counter'[s],
           \A s \in Senders :
               \/ project = None \/ s \in edited'
               \/ daily_limit'[s] = daily_limit[s] /\ (s \in active' <=> s \in active)
    PROVE  CheckInv'
<1> USE ConstantsAssumption
<1>1. UNCHANGED <<pc, todo, project, current, listed, readings, best>>
  BY DEF pass
<1>2. CASE project = None
  <2>1. pc \in {"idle", "check"} /\ readings = <<>> /\ listed = {}
    BY <1>2 DEF IInv, TypeOK, CheckInv
  <2>2. QED
    BY <1>1, <2>1 DEF IInv, CheckInv
<1>3. CASE project # None
  <2> DEFINE out == forgot \union edited
  <2>1. /\ pc \in {"usage", "list", "rate", "update"} /\ project \in todo
        /\ forgot \subseteq forgot' /\ edited \subseteq edited'
    BY <1>3 DEF IInv, TypeOK
  <2>2. Left \in Senders /\ Left' = Left /\ Threshold \in Fraction
    BY <1>1, <2>1 DEF IInv, CheckInv, Fraction, Left
  <2>3. ASSUME NEW s \in Senders, NEW f \in Fraction,
               s \in out \/ ~Lower(Usage(Read(RowOf(s))), f), s \notin out'
        PROVE  ~Lower(Usage(Read(RowOf(s)))', f)
    <3>1. s \notin out /\ ~Lower(Usage(Read(RowOf(s))), f)
      BY <2>1, <2>3
    <3>2. counter[s] <= counter'[s] /\ daily_limit'[s] = daily_limit[s]
      BY <1>3, <2>3
    <3>3. QED
      BY <3>1, <3>2, UsageStands DEF IInv
  <2>4. ASSUME NEW row, row.sender \in Senders, RowStands(row) PROVE RowStands(row)'
    BY <1>3, <2>1, <2>4 DEF RowStands
  <2>5. ASSUME NEW row, row.sender \in Senders, ListedStands(row) PROVE ListedStands(row)'
    <3>1. RowStands(row)'
      BY <2>4, <2>5 DEF ListedStands
    <3>2. row.sender \in active' \union edited'
      BY <1>3, <2>1, <2>5 DEF ListedStands
    <3>3. QED
      BY <3>1, <3>2 DEF ListedStands
  <2>6. pc = "usage" => RowStands(current)' /\ current.sender = Left'
    <3> SUFFICES ASSUME pc = "usage" PROVE RowStands(current)' /\ current.sender = Left'
      OBVIOUS
    <3>1. RowStands(current) /\ current.sender = Left
      BY DEF IInv, CheckInv
    <3>2. current.sender \in edited' \/ current.limit = daily_limit'[current.sender]
      BY <1>3, <2>1, <2>2, <3>1 DEF RowStands
    <3>3. QED
      BY <1>1, <2>2, <3>1, <3>2 DEF RowStands
  <2>7. pc \in {"list", "rate", "update"} =>
          Left' \in out' \/ IsExhausted(RowOf(Left))'
    <3> SUFFICES ASSUME pc \in {"list", "rate", "update"}, Left \notin out'
                 PROVE  ~Lower(Usage(Read(RowOf(Left)))', Threshold)
      BY <2>2 DEF IsExhausted
    <3>1. PICK s \in Senders : s = Left /\ Left' = s
      BY <2>2
    <3>2. s \in out \/ ~Lower(Usage(Read(RowOf(s))), Threshold)
      BY <3>1 DEF IInv, CheckInv, IsExhausted
    <3>3. ~Lower(Usage(Read(RowOf(s)))', Threshold)
      BY <2>2, <2>3, <3>1, <3>2
    <3>4. QED
      BY <3>1, <3>3 DEF RowOf, Read, Usage, Lower
  <2>8. ASSUME NEW row \in listed PROVE ListedStands(row)'
    <3>1. row.sender \in Senders /\ ListedStands(row)
      BY DEF IInv, TypeOK, CheckInv, Row
    <3>2. QED
      BY <2>5, <3>1
  <2>9. ASSUME pc = "rate", NEW s \in active' \ edited'
        PROVE  \E row \in listed : row.sender = s
    <3>1. s \in active \ edited
      BY <1>3, <2>1 DEF TypeOK
    <3>2. QED
      BY <2>9, <3>1 DEF IInv, CheckInv
  <2>10. ASSUME NEW i \in DOMAIN readings PROVE Stands(readings[i])'
    <3> DEFINE r == readings[i]
    <3>1. r \in Reading /\ Stands(r)
      BY DEF IInv, TypeOK, CheckInv
    <3>2. r.sender \in Senders /\ r.count \in Nat
      BY <3>1 DEF Reading
    <3>3. counter[r.sender] \in Nat /\ counter'[r.sender] \in Nat
      BY <3>2 DEF IInv, TypeOK
    <3>4. ListedStands(r)'
      BY <2>5, <3>1, <3>2, <1>1 DEF Stands, ListedStands, RowStands
    <3>5. r.sender \in forgot' \/ r.count <= counter'[r.sender]
      BY <1>3, <2>1, <3>1, <3>2, <3>3 DEF Stands
    <3>6. QED
      BY <1>1, <3>4, <3>5 DEF Stands
  <2>11. ASSUME pc = "update"
         PROVE  /\ best.sender \in active' \union edited'
                /\ \A s \in active' \ out' : ~Lower(Usage(Read(RowOf(s)))', Usage(best))
    <3>1. best \in Reading /\ best.sender \in Senders
      BY <2>11 DEF IInv, TypeOK, Reading
    <3>2. best.sender \in active' \union edited'
      <4>1. best.sender \in active \union edited
        BY <2>11 DEF IInv, CheckInv
      <4>2. QED
        BY <1>3, <2>1, <3>1, <4>1
    <3>3. ASSUME NEW s \in active' \ out'
          PROVE  ~Lower(Usage(Read(RowOf(s)))', Usage(best))
      <4>1. s \in Senders /\ s \in active /\ Usage(best) \in Fraction
        BY <1>3, <3>1, UsageIsFraction DEF TypeOK
      <4>2. s \in out \/ ~Lower(Usage(Read(RowOf(s))), Usage(best))
        BY <2>11, <4>1 DEF IInv, CheckInv
      <4>3. QED
        BY <2>3, <4>1, <4>2
    <3>4. QED
      BY <3>2, <3>3
  <2>12. \A p \in todo : sender_email_id[p] \in Senders
    BY DEF IInv, CheckInv
  <2>13. QED
    BY <1>1, <1>3, <2>6, <2>7, <2>8, <2>9, <2>10, <2>11, <2>12
    DEF CheckInv, RowOf, Read, Usage, Lower
<1>4. QED
  BY <1>2, <1>3

(* When the check of a project is over, nothing of it is left.              *)
LEMMA AfterCheck ==
    ASSUME IInv, TypeOK', pc' \in {"idle", "check"}, todo' \subseteq todo, Leave,
           \/ UNCHANGED sender_email_id
           \/ /\ pc = "update"
              /\ \E p \in Projects :
                    sender_email_id' = [sender_email_id EXCEPT ![p] = best.sender]
    PROVE  CheckInv'
<1>1. ASSUME NEW q \in todo' PROVE sender_email_id'[q] \in Senders
  <2>1. q \in Projects /\ sender_email_id[q] \in Senders
    BY DEF IInv, TypeOK, CheckInv
  <2>2. CASE UNCHANGED sender_email_id
    BY <2>1, <2>2
  <2>3. CASE /\ pc = "update"
             /\ \E p \in Projects :
                   sender_email_id' = [sender_email_id EXCEPT ![p] = best.sender]
    <3>1. best.sender \in Senders
      BY <2>3 DEF IInv, TypeOK, Reading
    <3>2. sender_email_id \in [Projects -> Senders \union {None}]
      BY DEF IInv, TypeOK
    <3>3. QED
      BY <2>1, <2>3, <3>1, <3>2
  <2>4. QED
    BY <2>2, <2>3
<1>2. readings' = <<>> /\ listed' = {}
  BY DEF Leave
<1>3. QED
  BY <1>1, <1>2 DEF CheckInv

(* A pass is begun or ended between two checks.                             *)
LEMMA BetweenChecks ==
    ASSUME IInv, TypeOK', StartPass \/ EndPass PROVE CheckInv'
<1>1. /\ UNCHANGED <<project, readings, listed, sender_email_id>>
      /\ pc' \in {"idle", "check"} /\ pc \in {"idle", "check"}
      /\ todo' = todo \/ todo' = {p \in live : sender_email_id[p] # None}
  BY DEF StartPass, EndPass, rows
<1>2. readings = <<>> /\ listed = {}
  BY <1>1 DEF IInv, TypeOK, CheckInv
<1>3. \A p \in todo' : sender_email_id'[p] \in Senders
  BY <1>1 DEF IInv, TypeOK, CheckInv
<1>4. QED
  BY <1>1, <1>2, <1>3 DEF CheckInv

(* The two reads of the project's sender, and the list.                     *)
LEMMA SenderReadInv ==
    ASSUME IInv, TypeOK', NEW p \in Projects,
           ReadSender(p) \/ ReadUsage(p) \/ list_sender_emails(p)
    PROVE  CheckInv'
<1> USE ConstantsAssumption
<1>1. UNCHANGED <<counter, daily_limit, active, sender_email_id>>
  BY DEF ReadSender, ReadUsage, list_sender_emails, world, rows
<1>2. \A q \in todo : sender_email_id[q] \in Senders
  BY DEF IInv, CheckInv
<1>3. CASE ReadSender(p)
  <2>1. /\ pc = "check" /\ pc' = "usage" /\ p \in todo /\ project' = p
        /\ current' = RowOf(sender_email_id[p])
        /\ UNCHANGED <<todo, listed, readings>>
    BY <1>3 DEF ReadSender
  <2>2. readings = <<>> /\ listed = {} /\ p # None
    BY <2>1 DEF IInv, TypeOK, CheckInv
  <2>3. RowStands(current)' /\ current'.sender = Left'
    BY <1>1, <2>1 DEF RowStands, RowOf, Left
  <2>4. QED
    BY <1>1, <1>2, <2>1, <2>2, <2>3 DEF CheckInv
<1>4. CASE ReadUsage(p) /\ ~IsExhausted(current)
  BY <1>1, <1>4, AfterCheck DEF ReadUsage, DoneWith
<1>5. CASE ReadUsage(p) /\ IsExhausted(current)
  <2>1. /\ pc = "usage" /\ pc' = "list" /\ p = project
        /\ UNCHANGED <<todo, project, listed, readings, forgot, edited>>
    BY <1>5 DEF ReadUsage, hist
  <2>2. RowStands(current) /\ current.sender = Left /\ p # None /\ current \in Row
    BY <2>1 DEF IInv, TypeOK, CheckInv
  <2>3. Left \in edited \/ current = RowOf(Left)
    BY <2>2 DEF RowStands, RowOf, Row
  <2>4. (Left \in forgot \union edited \/ IsExhausted(RowOf(Left)))'
    <3>1. Left' = Left
      BY <1>1, <2>1 DEF Left
    <3>2. CASE Left \in edited
      BY <2>1, <3>1, <3>2
    <3>3. CASE current = RowOf(Left)
      <4>1. IsExhausted(RowOf(Left))
        BY <1>5, <3>3
      <4>2. QED
        BY <1>1, <3>1, <4>1 DEF IsExhausted, RowOf, Read, Usage, Lower
    <3>4. QED
      BY <2>3, <3>2, <3>3
  <2>5. (\A row \in listed : ListedStands(row))'
    BY <1>1, <2>1 DEF IInv, CheckInv, ListedStands, RowStands
  <2>6. (\A i \in DOMAIN readings : Stands(readings[i]))'
    BY <1>1, <2>1 DEF IInv, CheckInv, Stands, ListedStands, RowStands
  <2>7. QED
    BY <1>1, <1>2, <2>1, <2>2, <2>4, <2>5, <2>6 DEF CheckInv
<1>6. CASE list_sender_emails(p) /\ active = {}
  BY <1>1, <1>6, AfterCheck DEF list_sender_emails, DoneWith
<1>7. CASE list_sender_emails(p) /\ active # {}
  <2>1. /\ pc = "list" /\ pc' = "rate" /\ p = project
        /\ listed' = {RowOf(s) : s \in active}
        /\ UNCHANGED <<todo, project, readings, forgot, edited>>
    BY <1>7 DEF list_sender_emails, hist
  <2>2. p # None
    OBVIOUS
  <2>3. (Left \in forgot \union edited \/ IsExhausted(RowOf(Left)))'
    BY <1>1, <2>1 DEF IInv, CheckInv, Left, IsExhausted, RowOf, Read, Usage, Lower
  <2>4. \A row \in listed' : ListedStands(row)'
    BY <1>1, <2>1 DEF ListedStands, RowStands, RowOf
  <2>5. \A s \in active' : \E row \in listed' : row.sender = s
    <3>1. \A s \in active : RowOf(s) \in listed' /\ RowOf(s).sender = s
      BY <2>1 DEF RowOf
    <3>2. QED
      BY <1>1, <3>1
  <2>6. (\A i \in DOMAIN readings : Stands(readings[i]))'
    BY <1>1, <2>1 DEF IInv, CheckInv, Stands, ListedStands, RowStands
  <2>7. QED
    BY <1>1, <1>2, <2>1, <2>2, <2>3, <2>4, <2>5, <2>6 DEF CheckInv
<1>8. QED
  BY <1>3, <1>4, <1>5, <1>6, <1>7

(* A GET of the loop; after the last one, the choice.                       *)
LEMMA CandidateReadInv ==
    ASSUME IInv, TypeOK', NEW p \in Projects, NEW row \in listed, ReadCandidate(p, row)
    PROVE  CheckInv'
<1> USE ConstantsAssumption
<1> DEFINE rs == Append(readings, Read(row))
           more == \E r \in listed : r.sender \notin Seen(rs)
<1>1. /\ UNCHANGED <<counter, daily_limit, active, sender_email_id>>
      /\ pc = "rate" /\ p = project /\ p # None
  BY DEF ReadCandidate, world, rows
<1>2. /\ Read(row) \in Reading /\ Stands(Read(row)) /\ readings \in Seq(Reading)
  <2>1. row \in Row /\ row.sender \in Senders /\ row.limit \in Int /\ ListedStands(row)
    BY DEF IInv, TypeOK, CheckInv, Row
  <2>2. counter[row.sender] \in Nat /\ readings \in Seq(Reading)
    BY <2>1 DEF IInv, TypeOK
  <2>3. /\ Read(row) \in Reading /\ Read(row).sender = row.sender
        /\ Read(row).limit = row.limit /\ Read(row).count = counter[row.sender]
    BY <2>1, <2>2 DEF Read, Reading
  <2>4. ListedStands(Read(row))
    BY <2>1, <2>3 DEF ListedStands, RowStands
  <2>5. QED
    BY <2>2, <2>3, <2>4 DEF Stands
<1>3. rs \in Seq(Reading)
  BY <1>2
<1>4. \A i \in DOMAIN rs : Stands(rs[i])
  <2>1. ASSUME NEW i \in DOMAIN rs
        PROVE  rs[i] = Read(row) \/ (i \in DOMAIN readings /\ rs[i] = readings[i])
    BY <1>2
  <2>2. QED
    BY <1>2, <2>1 DEF IInv, CheckInv
<1>5. \A q \in todo : sender_email_id[q] \in Senders
  BY DEF IInv, CheckInv
<1>6. ASSUME UNCHANGED <<project, hist>>
      PROVE  (Left \in forgot \union edited \/ IsExhausted(RowOf(Left)))'
  BY <1>1, <1>6 DEF IInv, CheckInv, Left, IsExhausted, RowOf, Read, Usage, Lower, hist
<1>7. CASE more
  <2>1. readings' = rs /\ UNCHANGED <<pc, todo, project, current, listed, best, hist>>
    BY <1>7 DEF ReadCandidate
  <2> HIDE DEF rs, more
  <2>2. \A i \in DOMAIN readings' : Stands(readings[i])'
    BY <1>1, <1>4, <2>1 DEF Stands, ListedStands, RowStands, hist
  <2>3. \A r \in listed : ListedStands(r)'
    BY <1>1, <2>1 DEF IInv, CheckInv, ListedStands, RowStands, hist
  <2>4. \A s \in active' \ edited' : \E r \in listed' : r.sender = s
    BY <1>1, <2>1 DEF IInv, CheckInv, hist
  <2>5. (Left \in forgot \union edited \/ IsExhausted(RowOf(Left)))'
    BY <1>6, <2>1
  <2>6. QED
    BY <1>1, <1>5, <2>1, <2>2, <2>3, <2>4, <2>5 DEF CheckInv
<1>8. CASE ~more
  <2>1. PICK i \in DOMAIN rs :
          /\ select_best_sender(rs, i)
          /\ IF rs[i].sender = sender_email_id[p]
             THEN DoneWith(p)
             ELSE /\ pc' = "update" /\ best' = rs[i]
                  /\ readings' = <<>> /\ listed' = {}
                  /\ UNCHANGED <<todo, project, current, hist>>
    BY <1>8 DEF ReadCandidate
  <2>2. \A r \in listed : r.sender \in Seen(rs)
    BY <1>8
  <2> HIDE DEF rs, more
  <2>3. CASE rs[i].sender = sender_email_id[p]
    BY <1>1, <2>1, <2>3, AfterCheck DEF DoneWith
  <2>4. CASE rs[i].sender # sender_email_id[p]
    <3>1. /\ pc' = "update" /\ best' = rs[i] /\ readings' = <<>> /\ listed' = {}
          /\ UNCHANGED <<todo, project, current, hist>>
      BY <2>1, <2>4
    <3>2. rs[i].sender \in active \union edited
      BY <1>4 DEF Stands, ListedStands
    <3>3. ASSUME NEW s \in active \ (forgot \union edited)
          PROVE  ~Lower(Usage(Read(RowOf(s))), Usage(rs[i]))
      <4>1. PICK j \in DOMAIN rs : rs[j].sender = s
        <5>1. PICK r \in listed : r.sender = s
          BY <1>1 DEF IInv, CheckInv
        <5>2. QED
          BY <2>2, <5>1 DEF Seen
      <4>2. ~Lower(Usage(rs[j]), Usage(rs[i]))
        BY <1>3, <2>1, BestIsLeast
      <4>3. rs[j] \in Reading /\ rs[i] \in Reading
        BY <1>3
      <4>4. rs[j].count <= counter[s] /\ rs[j].limit = daily_limit[s]
        BY <1>4, <4>1 DEF Stands, ListedStands, RowStands
      <4>5. /\ s \in Senders /\ Read(RowOf(s)) \in Reading
            /\ Read(RowOf(s)).limit = daily_limit[s] /\ Read(RowOf(s)).count = counter[s]
        BY ReadType DEF IInv, TypeOK
      <4>6. Usage(rs[i]) \in Fraction
        BY <4>3, UsageIsFraction
      <4>7. QED
        BY <4>2, <4>3, <4>4, <4>5, <4>6, UsageMonotone
    <3>4. \A s \in (active \ (forgot \union edited))' :
            ~Lower(Usage(Read(RowOf(s)))', Usage(best'))
      <4>1. active' \ (forgot' \union edited') = active \ (forgot \union edited)
        BY <1>1, <3>1 DEF hist
      <4>2. QED
        BY <1>1, <3>1, <3>3, <4>1 DEF RowOf, Read, Usage, Lower
    <3>5. best'.sender \in (active \union edited)'
      BY <1>1, <3>1, <3>2 DEF hist
    <3>6. (Left \in forgot \union edited \/ IsExhausted(RowOf(Left)))'
      BY <1>6, <3>1
    <3>7. QED
      BY <1>1, <1>5, <3>1, <3>4, <3>5, <3>6 DEF CheckInv, Usage, Lower
  <2>5. QED
    BY <2>3, <2>4
<1>9. QED
  BY <1>7, <1>8

(* Each step of the cron carries the reads on, or ends the check.           *)
LEMMA CheckStep ==
    ASSUME IInv, TypeOK', [Next]_vars PROVE CheckInv'
<1> USE ConstantsAssumption
<1>1. CASE UNCHANGED <<counter, active, daily_limit, sender_email_id, pass, hist>>
  <2>1. \A s \in Senders : counter[s] \in Nat
    BY DEF IInv, TypeOK
  <2>2. QED
    BY <1>1, <2>1, ReadsStand DEF hist
<1>2. ASSUME NEW s \in Senders, increment_sender_usage(s) PROVE CheckInv'
  <2>1. ASSUME NEW t \in Senders PROVE counter[t] <= counter'[t]
    <3>1. counter[t] \in Nat /\ (counter'[t] = counter[t] \/ counter'[t] = counter[t] + 1)
      BY <1>2 DEF IInv, TypeOK, increment_sender_usage
    <3>2. QED
      BY <3>1
  <2>2. UNCHANGED <<active, daily_limit, sender_email_id, pass, hist>>
    BY <1>2 DEF increment_sender_usage, rows
  <2>3. QED
    BY <2>1, <2>2, ReadsStand DEF hist
<1>3. CASE Tick
  <2>1. \A t \in Senders : t \in Expiring \/ (counter[t] \in Nat /\ counter[t] <= counter'[t])
    BY <1>3 DEF IInv, TypeOK, Tick
  <2>2. UNCHANGED <<active, daily_limit, sender_email_id, pass, edited>>
        /\ (project # None => forgot' = forgot \union Expiring)
    BY <1>3 DEF Tick, rows
  <2>3. QED
    BY <2>1, <2>2, ReadsStand
<1>4. ASSUME NEW s \in Senders, NEW limit \in Limits, WriteRow(s, limit),
             \A t \in Senders : t = s \/ (t \in active' <=> t \in active)
      PROVE  CheckInv'
  <2>1. UNCHANGED <<counter, sender_email_id, pass, forgot>>
        /\ (project # None => edited' = edited \union {s})
    BY <1>4 DEF WriteRow, world
  <2>2. \A t \in Senders : t = s \/ daily_limit'[t] = daily_limit[t]
    BY <1>4 DEF IInv, TypeOK, WriteRow
  <2>3. \A t \in Senders : counter[t] \in Nat
    BY DEF IInv, TypeOK
  <2>4. QED
    BY <1>4, <2>1, <2>2, <2>3, ReadsStand
<1>5. ASSUME NEW s \in Senders, AddEmail(s) PROVE CheckInv'
  BY <1>4, <1>5 DEF AddEmail
<1>6. ASSUME NEW s \in Senders, NEW limit \in Limits, EditSender(s, limit) PROVE CheckInv'
  BY <1>4, <1>6 DEF EditSender
<1>7. ASSUME NEW p \in Projects, CheckRaises(p) PROVE CheckInv'
  BY <1>7, AfterCheck DEF CheckRaises, Caught, DoneWith
<1>8. CASE WorkerStops
  BY <1>8, AfterCheck DEF WorkerStops, rows
<1>9. ASSUME NEW p \in Projects, Check(p) PROVE CheckInv'
  <2>1. CASE Rotate(p)
    BY <2>1, AfterCheck DEF Rotate, DoneWith
  <2>2. QED
    BY <1>9, <2>1, SenderReadInv, CandidateReadInv DEF Check
<1>10. CASE UNCHANGED vars
  BY <1>1, <1>10 DEF vars, world, rows, pass, hist
<1>11. ASSUME NEW p \in Projects, Send(p) \/ SetProjectActive(p) PROVE CheckInv'
  BY <1>1, <1>11 DEF Send, SetProjectActive, world, rows, pass, hist
<1>12. ASSUME NEW s \in Senders, NotCounted(s) PROVE CheckInv'
  BY <1>1, <1>12 DEF NotCounted, rows
<1>13. QED
  BY <1>2, <1>3, <1>5, <1>6, <1>7, <1>8, <1>9, <1>10, <1>11, <1>12, BetweenChecks
  DEF Next, Cron, Surroundings

-----------------------------------------------------------------------------
(* Theorems.                                                                *)

(* Nothing is counted, and no check is running.                             *)
LEMMA InitInv == Init => IInv
<1> SUFFICES ASSUME Init PROVE IInv
  OBVIOUS
<1>1. TypeOK
  BY ConstantsAssumption DEF Init, TypeOK, Time
<1>2. ASSUME NEW s \in Senders PROVE DayInv(s)
  BY FS_EmptySet DEF Init, DayInv
<1>3. CheckInv
  BY DEF Init, CheckInv
<1>4. QED
  BY <1>1, <1>2, <1>3 DEF IInv

(* The invariant holds in every reachable state.                            *)
THEOREM Invariance == Spec => []IInv
<1>1. IInv /\ [Next]_vars => IInv'
  <2> SUFFICES ASSUME IInv, [Next]_vars PROVE IInv'
    OBVIOUS
  <2>1. TypeOK'
    BY TypeStep DEF IInv, CheckInv
  <2>2. \A s \in Senders : DayInv(s)'
    BY DayStep DEF IInv
  <2>3. QED
    BY <2>1, <2>2, CheckStep DEF IInv
<1>2. QED
  BY <1>1, InitInv, PTL DEF Spec

(* Every variable stays within its type.                                    *)
THEOREM TypeCorrect == Spec => []TypeOK
BY Invariance, PTL DEF IInv

(* A counter covers the uses of the last TTL.                               *)
THEOREM CounterCovers == Spec => []CounterCoversDay
<1>1. IInv => CounterCoversDay
  BY DEF IInv, DayInv, CounterCoversDay
<1>2. QED
  BY <1>1, Invariance, PTL

(* The senders whose key expired or whose row was written during the check  *)
(* apart, a project is moved off an exhausted sender only, to an active one *)
(* that no other active sender had a lower usage than when it was chosen.   *)
THEOREM RotationsAreJustified == Spec => RotationIsJustified
<1> DEFINE Justified(p) ==
      LET left == sender_email_id[p]
          taken == sender_email_id'[p] IN
      /\ left \in forgot \union edited \/ IsExhausted(RowOf(left))
      /\ taken = best.sender
      /\ taken \in active \union edited
      /\ \A s \in active \ (forgot \union edited) :
           ~Lower(Usage(Read(RowOf(s))), Usage(best))
<1> DEFINE A == \A p \in Projects :
      sender_email_id'[p] # sender_email_id[p] => Justified(p)
<1>1. IInv /\ [Next]_vars => [A]_vars
  <2> SUFFICES ASSUME IInv, [Next]_vars, NEW p \in Projects,
                      sender_email_id'[p] # sender_email_id[p]
               PROVE  Justified(p)
    OBVIOUS
  <2>1. PICK q \in Projects : Rotate(q) \/ CheckRaises(q)
    BY DEF Next, Cron, Surroundings, Check, vars, world, rows, Send, NotCounted, Tick,
       increment_sender_usage, SetProjectActive, AddEmail, EditSender, WriteRow,
       StartPass, EndPass, WorkerStops, ReadSender, ReadUsage, list_sender_emails,
       ReadCandidate
  <2>2. pc = "update" /\ sender_email_id' = [sender_email_id EXCEPT ![q] = best.sender]
    BY <2>1 DEF Rotate, CheckRaises
  <2>3. q = project
    BY <2>1, <2>2 DEF Rotate, CheckRaises
  <2>4. p = q /\ sender_email_id'[p] = best.sender
    BY <2>2 DEF IInv, TypeOK
  <2>5. QED
    BY <2>2, <2>3, <2>4 DEF IInv, CheckInv, Left
<1>2. QED
  BY <1>1, Invariance, PTL DEF Spec, RotationIsJustified
=============================================================================
