------------------------- MODULE OtpLifecycleProofs -------------------------
(***************************************************************************)
(* Proofs about OtpLifecycle, for every number of requests, scopes, codes, *)
(* attempts, rows and ticks.                                               *)
(*                                                                         *)
(* The safety properties are not inductive: each speaks of a moment at     *)
(* which a call has finished, and depends on what the calls still running  *)
(* read before.  IInv adds what ties a running call to the table now:      *)
(* what the purge took (TableInv), the row a call holds (CallInv), why     *)
(* newer rows were passed over (SupersededInv), what a comparison or       *)
(* acceptance leaves behind (HistoryInv), and that a call alone on its row *)
(* knows the row's current count (OverlapInv).                             *)
(***************************************************************************)
EXTENDS OtpLifecycle, TLAPS

TableInv ==
    /\ \A i \in 1..issued : ~rec[i].is_verified
    /\ \A w \in Sends : unsaved[w] # None => ~unsaved[w].is_verified
    /\ UnexpiredKept

CallInv ==
    \A r \in Requests :
        /\ call[r].pc = "idle" => call[r].row = NoOtp
        /\ call[r].pc # "idle" =>
            /\ call[r].row \in 1..issued
            /\ call[r].newest \in 0..issued
            /\ rec[call[r].row].scope = call[r].scope
        /\ call[r].pc \in {"count", "consume"} =>
            /\ call[r].attempt_count < MaxAttempts
            /\ call[r].began <= rec[call[r].row].expires_at
        /\ call[r].pc # "idle" => call[r].began <= now
        /\ call[r].pc = "consume" =>
            /\ call[r].submitted = rec[call[r].row].otp_hash

SupersededInv ==
    \A r \in Requests : call[r].pc # "idle" =>
        \A j \in 1..call[r].newest :
            (j > call[r].row /\ rec[j].scope = call[r].scope) =>
                \/ rec[j].is_invalidated
                \/ /\ j \notin otp_records
                   /\ \/ call[r].pc = "check"
                      \/ rec[j].expires_at < rec[call[r].row].expires_at

HistoryInv ==
    \A i \in OtpIds :
        /\ comparisons[i] > 0 => rec[i].attempt_count > 0
        /\ accepted[i] > 0 => rec[i].is_invalidated
        /\ i > issued => comparisons[i] = 0 /\ accepted[i] = 0

OverlapInv ==
    \A i \in OtpIds \ overlapped :
        /\ comparisons[i] <= rec[i].attempt_count
        /\ accepted[i] <= 1
        /\ \A r, q \in Requests : Holds(r, i) /\ Holds(q, i) => r = q
        /\ \A r \in Requests : Holds(r, i) =>
            /\ accepted[i] = 0
            /\ call[r].pc \in {"check", "count"}
                => call[r].attempt_count = rec[i].attempt_count

IInv ==
    /\ TypeOK
    /\ TableInv
    /\ CallInv
    /\ SupersededInv
    /\ HistoryInv
    /\ OverlapInv

-----------------------------------------------------------------------------

(* What an idle slot holds is a call, whatever the CHOOSEs pick. *)
LEMMA IdleCallType ==
    /\ IdleCall \in Call
    /\ IdleCall.pc = "idle" /\ IdleCall.row = NoOtp
<1>1. (CHOOSE s \in Scopes : TRUE) \in Scopes
  BY ConstantsAssumption
<1>2. (CHOOSE c \in Codes : TRUE) \in Codes
  BY ConstantsAssumption
<1>3. QED
  BY <1>1, <1>2, ConstantsAssumption DEF IdleCall, Call, NoOtp, OtpIds

(* The empty table satisfies the inductive invariant.                       *)
LEMMA InitInv == Init => IInv
<1> SUFFICES ASSUME Init PROVE IInv
  OBVIOUS
<1> USE ConstantsAssumption, IdleCallType DEF Init, OtpIds, NoOtp
<1>1. TypeOK
  BY DEF TypeOK, Record, NewRecord, Answers, Silence, Call
<1>2. TableInv
  BY DEF TableInv, UnexpiredKept
<1>3. CallInv
  BY DEF CallInv
<1>4. SupersededInv
  BY DEF SupersededInv
<1>5. HistoryInv
  BY DEF HistoryInv
<1>6. OverlapInv
  BY DEF OverlapInv, Holds, NewRecord
<1>7. QED
  BY <1>1, <1>2, <1>3, <1>4, <1>5, <1>6 DEF IInv

(* Freeing a slot, with the table left alone: LookupNone, the early returns *)
(* of Check, an exception, a crash.                                         *)
LEMMA RespondInv ==
    ASSUME IInv, NEW r \in Requests, NEW a \in Answers, Respond(r, a),
           UNCHANGED <<now, tableVars, unsaved, histVars>>
    PROVE  IInv'
<1> USE ConstantsAssumption, IdleCallType DEF IInv, Respond, tableVars, histVars
<1>1. TypeOK'
  BY DEF TypeOK, Silence, Answers
<1>2. TableInv'
  BY DEF TableInv, UnexpiredKept
<1>3. CallInv'
  BY DEF CallInv, TypeOK
<1>4. SupersededInv'
  BY DEF SupersededInv, TypeOK
<1>5. HistoryInv'
  BY DEF HistoryInv
<1>6. OverlapInv'
  BY DEF OverlapInv, Holds, TypeOK
<1>7. QED
  BY <1>1, <1>2, <1>3, <1>4, <1>5, <1>6

(* save_otp computes a row, and gives it up: nobody has read it.            *)
LEMMA UnsavedInv ==
    ASSUME IInv, NEW w \in Sends,
           SaveFails(w) \/ \E s \in Scopes, c \in Codes : ComputeRow(w, s, c)
    PROVE  IInv'
<1> USE ConstantsAssumption DEF IInv
<1>1. /\ UNCHANGED <<now, tableVars, call, histVars>> /\ answer' = Silence
      /\ \E x \in Record \union {None} :
            /\ x = None \/ ~x.is_verified
            /\ unsaved' = [unsaved EXCEPT ![w] = x]
  <2>1. CASE SaveFails(w)
    BY <2>1 DEF SaveFails
  <2>2. ASSUME NEW s \in Scopes, NEW c \in Codes, ComputeRow(w, s, c)
        PROVE  <1>1
    <3>1. NewRecord(s, c) \in Record /\ ~NewRecord(s, c).is_verified
      BY DEF NewRecord, Record, TypeOK
    <3>2. QED
      BY <2>2, <3>1 DEF ComputeRow
  <2>3. QED
    BY <2>1, <2>2
<1>2. PICK x \in Record \union {None} :
        /\ x = None \/ ~x.is_verified
        /\ unsaved' = [unsaved EXCEPT ![w] = x]
  BY <1>1
<1> USE DEF tableVars, histVars
<1>3. TypeOK'
  BY <1>1, <1>2 DEF TypeOK, Silence, Answers
<1>4. TableInv'
  <2>1. \A v \in Sends : unsaved'[v] = IF v = w THEN x ELSE unsaved[v]
    BY <1>2 DEF TypeOK
  <2>2. QED
    BY <1>1, <1>2, <2>1 DEF TableInv, UnexpiredKept
<1>5. CallInv' /\ SupersededInv' /\ HistoryInv' /\ OverlapInv'
  BY <1>1 DEF CallInv, SupersededInv, HistoryInv, OverlapInv, Holds
<1>6. QED
  BY <1>3, <1>4, <1>5

(* The insert adds the newest row: no call holds it, no call began after it. *)
LEMMA SaveOtpInv ==
    ASSUME IInv, NEW w \in Sends, SaveOtp(w)
    PROVE  IInv'
<1> DEFINE i == issued + 1
<1> USE ConstantsAssumption DEF IInv, SaveOtp, histVars
<1>1. /\ i \in OtpIds /\ i \notin 1..issued /\ i > issued
      /\ unsaved[w] \in Record
      /\ ~unsaved[w].is_verified
  BY DEF TypeOK, OtpIds, TableInv
<1>2. \A j \in OtpIds : j # i => rec'[j] = rec[j]
  BY <1>1 DEF TypeOK
<1>3. rec'[i] = unsaved[w]
  BY <1>1 DEF TypeOK
<1>4. TypeOK'
  BY <1>1 DEF TypeOK, Silence, Answers, OtpIds
<1>5. TableInv'
  <2>1. \A j \in 1..issued' : j = i \/ (j \in 1..issued /\ rec'[j] = rec[j])
    BY <1>1, <1>2 DEF TypeOK, OtpIds
  <2>2. \A v \in Sends : unsaved'[v] = None \/ unsaved'[v] = unsaved[v]
    BY DEF TypeOK
  <2>3. QED
    BY <1>1, <1>3, <2>1, <2>2 DEF TableInv, UnexpiredKept
<1>5a. \A q \in Requests : call[q].pc # "idle" =>
          /\ call[q].row \in OtpIds /\ call[q].row # i
          /\ rec'[call[q].row] = rec[call[q].row]
          /\ \A j \in 1..call[q].newest :
                j \in OtpIds /\ j # i /\ rec'[j] = rec[j]
  <2> SUFFICES ASSUME NEW q \in Requests, call[q].pc # "idle"
               PROVE  /\ call[q].row \in OtpIds /\ call[q].row # i
                      /\ rec'[call[q].row] = rec[call[q].row]
                      /\ \A j \in 1..call[q].newest :
                            j \in OtpIds /\ j # i /\ rec'[j] = rec[j]
    OBVIOUS
  <2>1. /\ issued \in Nat /\ call[q].row \in 1..issued
        /\ call[q].newest \in 0..issued
    BY DEF CallInv, TypeOK
  <2>2. \A j \in 1..issued : j \in OtpIds /\ j # i /\ rec'[j] = rec[j]
    BY <1>1, <1>2, <2>1 DEF OtpIds
  <2>3. QED
    BY <2>1, <2>2
<1>6. CallInv'
  BY <1>1, <1>5a DEF CallInv, TypeOK
<1>7. SupersededInv'
  BY <1>5a DEF SupersededInv
<1>8. HistoryInv'
  BY <1>1, <1>2, <1>3 DEF HistoryInv, TypeOK, OtpIds
<1>9. OverlapInv'
  <2> SUFFICES ASSUME NEW k \in OtpIds, k \notin overlapped PROVE OverlapInv!(k)'
    BY DEF OverlapInv
  <2>1. OverlapInv!(k)
    BY DEF OverlapInv
  <2>2. \A q \in Requests : Holds(q, k)' <=> Holds(q, k)
    BY DEF Holds
  <2>3. CASE k = i
    <3>1. \A q \in Requests : ~Holds(q, k)
      BY <1>5a, <2>3 DEF Holds
    <3>2. comparisons[k] = 0 /\ accepted[k] = 0
      BY <1>1, <2>3 DEF HistoryInv
    <3>3. rec'[k].attempt_count \in Nat
      BY <1>1, <1>3, <2>3 DEF Record
    <3>4. QED
      BY <2>2, <3>1, <3>2, <3>3
  <2>4. CASE k # i
    BY <1>2, <2>1, <2>2, <2>4
  <2>5. QED
    BY <2>3, <2>4
<1>10. QED
  BY <1>4, <1>5, <1>6, <1>7, <1>8, <1>9

(* The read establishes what the call relies on afterwards.  A newer row of *)
(* the scope that is not in the answer was consumed, or is not in the table *)
(* any more.                                                                *)
LEMMA LookupInv ==
    ASSUME IInv, NEW r \in Requests, NEW s \in Scopes, NEW c \in Codes,
           Lookup(r, s, c)
    PROVE  IInv'
<1> USE ConstantsAssumption DEF IInv, tableVars
<1>1. PICK i \in OtpIds :
        /\ NewestActive(s, i)
        /\ call' = [call EXCEPT ![r] =
             [pc |-> "check", scope |-> s, submitted |-> c, row |-> i,
              attempt_count |-> rec[i].attempt_count,
              began |-> now, newest |-> issued]]
        /\ overlapped' = IF \E q \in Requests \ {r} : Holds(q, i)
                         THEN overlapped \union {i} ELSE overlapped
  BY DEF Lookup
<1>2. /\ call[r].pc = "idle" /\ answer' = Silence
      /\ UNCHANGED <<now, tableVars, unsaved, comparisons, accepted>>
  BY DEF Lookup
<1>3. /\ i \in 1..issued /\ rec[i].scope = s /\ ~rec[i].is_invalidated
      /\ rec[i] \in Record
      /\ \A j \in ActiveOtps(s) : j <= i
  BY <1>1 DEF NewestActive, ActiveOtps, TypeOK
<1>4. \A q \in Requests : q # r => call'[q] = call[q]
  BY <1>1 DEF TypeOK
<1>5. call'[r] = [pc |-> "check", scope |-> s, submitted |-> c, row |-> i,
                  attempt_count |-> rec[i].attempt_count,
                  began |-> now, newest |-> issued]
  BY <1>1 DEF TypeOK
<1>6. TypeOK'
  <2>1. call'[r] \in Call
    BY <1>3, <1>5 DEF Call, Record, TypeOK, OtpIds, NoOtp
  <2>2. overlapped' \in SUBSET OtpIds
    BY <1>1 DEF TypeOK
  <2>3. QED
    BY <1>1, <1>2, <1>5, <2>1, <2>2 DEF TypeOK, Silence, Answers
<1>7. TableInv'
  BY <1>2 DEF TableInv, UnexpiredKept
<1>8. CallInv'
  <2>1. ASSUME NEW q \in Requests, q # r
        PROVE  CallInv!(q)'
    BY <1>2, <1>4, <2>1 DEF CallInv
  <2>2. CallInv!(r)'
    BY <1>2, <1>3, <1>5 DEF CallInv, TypeOK
  <2>3. QED
    BY <2>1, <2>2 DEF CallInv
<1>9. SupersededInv'
  <2>1. ASSUME NEW j \in 1..issued, j > i, rec[j].scope = s, ~rec[j].is_invalidated
        PROVE  j \notin otp_records
    <3>1. ~rec[j].is_verified /\ ~(j <= i)
      BY <1>3, <2>1 DEF TableInv, TypeOK, OtpIds
    <3>2. QED
      BY <1>3, <2>1, <3>1 DEF ActiveOtps
  <2>2. QED
    BY <1>2, <1>4, <1>5, <2>1 DEF SupersededInv
<1>10. HistoryInv'
  BY <1>2 DEF HistoryInv
<1>11. OverlapInv'
  <2> SUFFICES ASSUME NEW k \in OtpIds, k \notin overlapped'
               PROVE  OverlapInv!(k)'
    BY <1>1 DEF OverlapInv
  <2>1. k \notin overlapped
    BY <1>1
  <2>2. \A q \in Requests : q # r => (Holds(q, k)' <=> Holds(q, k))
    BY <1>4 DEF Holds
  <2>3. CASE k = i
    <3>1. \A q \in Requests \ {r} : ~Holds(q, i)
      BY <1>1, <2>3
    <3>2. accepted[i] = 0
      BY <1>3 DEF HistoryInv, TypeOK
    <3>3. QED
      BY <1>2, <1>5, <2>1, <2>2, <2>3, <3>1, <3>2 DEF OverlapInv, Holds
  <2>4. CASE k # i
    <3>1. ~Holds(r, k)'
      BY <1>5, <2>4 DEF Holds
    <3>2. QED
      BY <1>2, <1>4, <2>1, <2>2, <3>1 DEF OverlapInv
  <2>5. QED
    BY <2>3, <2>4
<1>12. QED
  BY <1>6, <1>7, <1>8, <1>9, <1>10, <1>11

(* Passing the checks: the OTP had not expired, so a newer OTP of the scope *)
(* that was purged expired before it would; the count read is below the     *)
(* limit.                                                                   *)
LEMMA CheckInv ==
    ASSUME IInv, NEW r \in Requests, Check(r)
    PROVE  IInv'
<1> USE ConstantsAssumption DEF IInv
<1>1. UNCHANGED <<now, tableVars, unsaved, histVars>> /\ call[r].pc = "check"
  BY DEF Check
<1>2. CASE Respond(r, "otp_expired") \/ Respond(r, "account_locked")
  BY <1>1, <1>2, RespondInv DEF Answers
<1>3. CASE ~Expired(r) /\ ~AttemptsUsedUp(r) /\ Goto(r, "count")
  <2> USE <1>1, <1>3 DEF Goto, tableVars, histVars
  <2>1. /\ call'[r] = [call[r] EXCEPT !.pc = "count"]
        /\ \A q \in Requests : q # r => call'[q] = call[q]
    BY DEF TypeOK
  <2>2. /\ call'[r].pc = "count" /\ call'[r].row = call[r].row
        /\ call'[r].scope = call[r].scope /\ call'[r].newest = call[r].newest
        /\ call'[r].attempt_count = call[r].attempt_count
        /\ call'[r].began = call[r].began
        /\ call'[r] \in Call
    BY <2>1, SMTT(30) DEF TypeOK, Call
  <2>3. TypeOK'
    BY <2>2 DEF TypeOK, Silence, Answers
  <2>4. TableInv'
    BY DEF TableInv, UnexpiredKept
  <2>5. call[r].row \in OtpIds /\ rec[call[r].row] \in Record /\ call[r].began <= now
    BY DEF CallInv, TypeOK, OtpIds
  <2>6. /\ now <= rec[call[r].row].expires_at
        /\ call[r].began <= rec[call[r].row].expires_at
        /\ call[r].attempt_count < MaxAttempts
    BY <2>5 DEF Expired, AttemptsUsedUp, Record, TypeOK, Call
  <2>7. CallInv'
    <3>1. ASSUME NEW q \in Requests, q # r PROVE CallInv!(q)'
      BY <2>1, <3>1 DEF CallInv
    <3>2. CallInv!(r)'
      BY <2>2, <2>6 DEF CallInv
    <3>3. QED
      BY <3>1, <3>2 DEF CallInv
  <2>8. SupersededInv'
    <3>1. ASSUME NEW q \in Requests, q # r PROVE SupersededInv!(q)'
      BY <2>1, <3>1 DEF SupersededInv
    <3>2. \A j \in 1..call[r].newest : j \notin otp_records =>
            rec[j].expires_at < rec[call[r].row].expires_at
      <4> SUFFICES ASSUME NEW j \in 1..call[r].newest, j \notin otp_records
                   PROVE  rec[j].expires_at < rec[call[r].row].expires_at
        OBVIOUS
      <4>1. j \in 1..issued /\ j \in OtpIds
        BY DEF CallInv, TypeOK, OtpIds
      <4>2. ~(now <= rec[j].expires_at)
        BY <4>1 DEF TableInv, UnexpiredKept
      <4>3. /\ now \in Nat /\ rec[j].expires_at \in Nat
            /\ rec[call[r].row].expires_at \in Nat
        BY <2>5, <4>1 DEF TypeOK, Record
      <4>4. QED
        BY <2>6, <4>2, <4>3
    <3>2a. SupersededInv!(r)'
      BY <2>2, <3>2 DEF SupersededInv
    <3>3. QED
      BY <3>1, <3>2a DEF SupersededInv
  <2>9. HistoryInv'
    BY DEF HistoryInv
  <2>10. \A q \in Requests : /\ call'[q].pc # "idle" <=> call[q].pc # "idle"
                             /\ call'[q].row = call[q].row
    BY <2>1, <2>2
  <2>11. OverlapInv'
    BY <2>1, <2>2, <2>10 DEF OverlapInv, Holds
  <2>12. QED
    BY <2>3, <2>4, <2>7, <2>8, <2>9, <2>11
<1>4. QED
  BY <1>2, <1>3 DEF Check

(* The cron only removes expired rows; what a call holds is history.        *)
LEMMA PurgeInv ==
    ASSUME IInv, PurgeExpiredOtps
    PROVE  IInv'
<1> USE DEF IInv, PurgeExpiredOtps, histVars
<1>1. TypeOK'
  BY DEF TypeOK, Silence, Answers
<1>2. TableInv'
  <2>1. UnexpiredKept'
    <3> SUFFICES ASSUME NEW i \in 1..issued, now <= rec[i].expires_at
                 PROVE  i \in otp_records'
      BY DEF UnexpiredKept
    <3>1. i \in otp_records
      BY DEF TableInv, UnexpiredKept
    <3>2. ~Purgeable(i)
      <4>1. now \in Nat /\ rec[i].expires_at \in Nat
        BY ConstantsAssumption DEF TypeOK, Record, OtpIds
      <4>2. QED
        BY <4>1 DEF Purgeable
    <3>3. QED
      BY <3>1, <3>2
  <2>2. QED
    BY <2>1 DEF TableInv
<1>3. CallInv' /\ SupersededInv' /\ HistoryInv'
  BY DEF CallInv, SupersededInv, HistoryInv
<1>4. OverlapInv'
  BY DEF OverlapInv, Holds
<1>5. QED
  BY <1>1, <1>2, <1>3, <1>4

(* Time only brings rows closer to their expiry; no row is passed over or   *)
(* taken by it.                                                             *)
LEMMA TickInv ==
    ASSUME IInv, Tick
    PROVE  IInv'
<1> USE ConstantsAssumption DEF IInv, Tick, tableVars, histVars
<1>1. TypeOK'
  BY DEF TypeOK, Silence, Answers
<1>2. \A i \in 1..issued : i \in OtpIds /\ rec[i].expires_at \in Nat
  BY DEF TypeOK, Record, OtpIds
<1>3. TableInv'
  <2>1. UnexpiredKept'
    BY <1>2 DEF TableInv, UnexpiredKept, TypeOK
  <2>2. QED
    BY <2>1 DEF TableInv
<1>4. \A q \in Requests : call[q].began \in Nat
  BY DEF TypeOK, Call
<1>5. CallInv'
  BY <1>4 DEF CallInv, TypeOK
<1>6. SupersededInv'
  BY <1>2 DEF SupersededInv, CallInv, TypeOK
<1>7. HistoryInv' /\ OverlapInv'
  BY DEF HistoryInv, OverlapInv, Holds
<1>8. QED
  BY <1>1, <1>3, <1>5, <1>6, <1>7

(* The two updates leave what a row is about as it is.                      *)
SameRows ==
    /\ rec' \in [OtpIds -> Record]
    /\ \A j \in OtpIds :
        /\ rec'[j].scope = rec[j].scope
        /\ rec'[j].otp_hash = rec[j].otp_hash
        /\ rec'[j].expires_at = rec[j].expires_at
        /\ rec'[j].is_verified = rec[j].is_verified
        /\ rec[j].is_invalidated => rec'[j].is_invalidated

(* The blind write of attempt_count, made by update_otp_record in a call    *)
(* that passed the check, leaves the rest of the rows as SameRows says.     *)
LEMMA WriteAttemptRows ==
    ASSUME IInv, NEW r \in Requests, call[r].pc = "count", WriteAttempt(r)
    PROVE  LET i == call[r].row IN
           /\ SameRows
           /\ i \in OtpIds
           /\ \A j \in OtpIds : j # i => rec'[j] = rec[j]
           /\ \A j \in OtpIds : rec'[j].is_invalidated = rec[j].is_invalidated
           /\ rec'[i].attempt_count = call[r].attempt_count + 1
           /\ call[r].attempt_count \in Nat
<1> DEFINE i == call[r].row
<1> USE ConstantsAssumption DEF IInv
<1>1. /\ i \in OtpIds /\ call[r].attempt_count \in 0..MaxAttempts
      /\ call[r].attempt_count < MaxAttempts
      /\ rec \in [OtpIds -> Record]
  BY SMTT(30) DEF CallInv, TypeOK, Call, OtpIds
<1>2. rec'[i] = [rec[i] EXCEPT !.attempt_count = call[r].attempt_count + 1]
  BY <1>1 DEF WriteAttempt
<1>3. \A j \in OtpIds : j # i => rec'[j] = rec[j]
  BY <1>1 DEF WriteAttempt
<1>4. rec[i] \in Record /\ call[r].attempt_count + 1 \in 0..MaxAttempts
  BY <1>1
<1>5. /\ rec'[i] \in Record
      /\ rec'[i].attempt_count = call[r].attempt_count + 1
      /\ rec'[i].scope = rec[i].scope
      /\ rec'[i].otp_hash = rec[i].otp_hash
      /\ rec'[i].expires_at = rec[i].expires_at
      /\ rec'[i].is_verified = rec[i].is_verified
      /\ rec'[i].is_invalidated = rec[i].is_invalidated
  BY <1>2, <1>4 DEF Record
<1>6. rec' \in [OtpIds -> Record]
  BY <1>1, <1>5 DEF WriteAttempt
<1>7. QED
  BY <1>1, <1>3, <1>5, <1>6 DEF SameRows

(* So does the second update of verify_and_consume, is_invalidated.         *)
LEMMA InvalidateRows ==
    ASSUME IInv, NEW r \in Requests, call[r].pc = "consume",
           rec' = [rec EXCEPT ![call[r].row].is_invalidated = TRUE]
    PROVE  LET i == call[r].row IN
           /\ SameRows
           /\ i \in OtpIds
           /\ rec'[i].is_invalidated
           /\ \A j \in OtpIds : rec'[j].attempt_count = rec[j].attempt_count
<1> DEFINE i == call[r].row
<1> USE ConstantsAssumption DEF IInv
<1>1. i \in OtpIds /\ rec \in [OtpIds -> Record]
  BY DEF CallInv, TypeOK, OtpIds
<1>2. rec'[i] = [rec[i] EXCEPT !.is_invalidated = TRUE] /\ rec[i] \in Record
  BY <1>1
<1>3. \A j \in OtpIds : j # i => rec'[j] = rec[j]
  BY <1>1
<1>4. /\ rec'[i] \in Record
      /\ rec'[i].attempt_count = rec[i].attempt_count
      /\ rec'[i].scope = rec[i].scope
      /\ rec'[i].otp_hash = rec[i].otp_hash
      /\ rec'[i].expires_at = rec[i].expires_at
      /\ rec'[i].is_verified = rec[i].is_verified
      /\ rec'[i].is_invalidated = TRUE
  <2>1. \A x \in Record : [x EXCEPT !.is_invalidated = TRUE] \in Record
    BY Zenon DEF Record
  <2>2. rec'[i].is_invalidated = TRUE
    BY <1>2, ZenonT(30) DEF Record
  <2>3. rec'[i].is_verified = rec[i].is_verified
    BY <1>2, ZenonT(30) DEF Record
  <2>4. QED
    <3>1. rec'[i] \in Record
      BY <1>2, <2>1
    <3>2. QED
      BY <1>2, <2>2, <2>3, <3>1 DEF Record
<1>5. rec' \in [OtpIds -> Record]
  BY <1>1, <1>4
<1>6. QED
  BY <1>1, <1>3, <1>4, <1>5 DEF SameRows

(* After an update the call is over, or its code was right and it goes on.  *)
LEMMA UpdateInv ==
    ASSUME NEW r \in Requests,
           IInv, SameRows, UNCHANGED <<now, issued, otp_records, unsaved>>,
           \/ call' = [call EXCEPT ![r] = IdleCall]
           \/ /\ call[r].pc = "count"
              /\ call[r].submitted = rec[call[r].row].otp_hash
              /\ call' = [call EXCEPT ![r].pc = "consume"]
    PROVE  /\ TableInv' /\ CallInv' /\ SupersededInv'
           /\ call' \in [Requests -> Call]
           /\ \A q \in Requests : q # r => call'[q] = call[q]
<1> USE ConstantsAssumption DEF IInv
<1>1. \A q \in Requests : q # r => call'[q] = call[q]
  BY DEF TypeOK
<1>2. \/ call'[r] = IdleCall
      \/ /\ call[r].pc = "count"
         /\ call[r].submitted = rec[call[r].row].otp_hash
         /\ call'[r] = [call[r] EXCEPT !.pc = "consume"]
  BY DEF TypeOK
<1>3. \/ call'[r].pc = "idle" /\ call'[r].row = NoOtp /\ call'[r] \in Call
      \/ /\ call[r].pc = "count"
         /\ call[r].submitted = rec[call[r].row].otp_hash
         /\ call'[r] \in Call
         /\ call'[r].pc = "consume" /\ call'[r].row = call[r].row
         /\ call'[r].scope = call[r].scope /\ call'[r].newest = call[r].newest
         /\ call'[r].submitted = call[r].submitted
         /\ call'[r].attempt_count = call[r].attempt_count
         /\ call'[r].began = call[r].began
  BY <1>2, IdleCallType DEF TypeOK, Call
<1>4. call' \in [Requests -> Call]
  BY <1>3 DEF TypeOK
<1>5. issued \in 0..MaxOtps /\ \A j \in 1..issued : j \in OtpIds
  BY DEF TypeOK, OtpIds
<1>6. TableInv'
  BY <1>5 DEF TableInv, UnexpiredKept, SameRows
<1>7. \A q \in Requests : call[q].pc # "idle" =>
        /\ call[q].row \in OtpIds
        /\ \A j \in 1..call[q].newest : j \in OtpIds
  BY <1>5 DEF CallInv
<1>8. CallInv'
  <2>1. ASSUME NEW q \in Requests, q # r PROVE CallInv!(q)'
    BY <1>1, <1>7, <2>1 DEF CallInv, SameRows
  <2>2. CallInv!(r)'
    BY <1>3, <1>7 DEF CallInv, SameRows
  <2>3. QED
    BY <2>1, <2>2 DEF CallInv
<1>9. SupersededInv'
  <2>1. ASSUME NEW q \in Requests, q # r PROVE SupersededInv!(q)'
    BY <1>1, <1>7, <2>1 DEF SupersededInv, SameRows
  <2>2. SupersededInv!(r)'
    BY <1>3, <1>7 DEF SupersededInv, SameRows
  <2>3. QED
    BY <2>1, <2>2 DEF SupersededInv
<1>10. QED
  BY <1>1, <1>3, <1>4, <1>6, <1>8, <1>9

(* The counting update and the comparison after it keep the invariant: a    *)
(* call alone on its row writes one more than all comparisons before it.    *)
LEMMA CountAttemptInv ==
    ASSUME IInv, NEW r \in Requests, CountAttempt(r)
    PROVE  IInv'
<1> DEFINE i == call[r].row
<1> USE ConstantsAssumption
<1>1. /\ call[r].pc = "count" /\ i \in otp_records /\ WriteAttempt(r)
      /\ comparisons' = [comparisons EXCEPT ![i] = @ + 1]
      /\ UNCHANGED <<now, issued, otp_records, unsaved, accepted, overlapped>>
      /\ \/ call' = [call EXCEPT ![r] = IdleCall]
         \/ /\ call[r].pc = "count"
            /\ call[r].submitted = rec[call[r].row].otp_hash
            /\ call' = [call EXCEPT ![r].pc = "consume"]
      /\ answer' = Silence \/ answer' = [Silence EXCEPT ![r] = "invalid_code"]
  BY DEF CountAttempt, Goto, Respond
<1>2. /\ SameRows /\ i \in OtpIds
      /\ \A j \in OtpIds : j # i => rec'[j] = rec[j]
      /\ \A j \in OtpIds : rec'[j].is_invalidated = rec[j].is_invalidated
      /\ rec'[i].attempt_count = call[r].attempt_count + 1
      /\ call[r].attempt_count \in Nat
  BY <1>1, WriteAttemptRows
<1>3. /\ TableInv' /\ CallInv' /\ SupersededInv'
      /\ call' \in [Requests -> Call]
      /\ \A q \in Requests : q # r => call'[q] = call[q]
      /\ call'[r].pc = "idle" \/ (call'[r].pc = "consume" /\ call'[r].row = i)
  <2>1. UNCHANGED <<now, issued, otp_records, unsaved>>
    BY <1>1
  <2>2. \/ call' = [call EXCEPT ![r] = IdleCall]
        \/ /\ call[r].pc = "count"
           /\ call[r].submitted = rec[call[r].row].otp_hash
           /\ call' = [call EXCEPT ![r].pc = "consume"]
    BY <1>1
  <2>3. call'[r].pc = "idle" \/ (call'[r].pc = "consume" /\ call'[r].row = i)
    BY <2>2, IdleCallType DEF IInv, TypeOK, Call
  <2>4. QED
    BY <1>2, <2>1, <2>2, <2>3, UpdateInv
<1>4. /\ comparisons \in [OtpIds -> Nat] /\ comparisons' \in [OtpIds -> Nat]
      /\ comparisons'[i] = comparisons[i] + 1
      /\ \A j \in OtpIds : j # i => comparisons'[j] = comparisons[j]
  BY <1>1, <1>2 DEF IInv, TypeOK
<1>5. TypeOK'
  BY <1>1, <1>2, <1>3, <1>4 DEF IInv, TypeOK, SameRows, Silence, Answers
<1>6. HistoryInv'
  <2>1. i <= issued
    BY <1>1 DEF IInv, CallInv, TypeOK
  <2>2. rec'[i].attempt_count > 0
    BY <1>2
  <2>3. ASSUME NEW k \in OtpIds PROVE HistoryInv!(k)'
    <3>1. HistoryInv!(k)
      BY DEF IInv, HistoryInv
    <3>2. CASE k = i
      <4>1. issued \in Nat /\ i \in Nat
        BY <1>2 DEF IInv, TypeOK, OtpIds
      <4>2. QED
        BY <1>1, <1>2, <2>1, <2>2, <3>1, <3>2, <4>1
    <3>3. CASE k # i
      BY <1>1, <1>2, <1>4, <3>1, <3>3
    <3>4. QED
      BY <3>2, <3>3
  <2>4. QED
    BY <2>3 DEF HistoryInv
<1>7. OverlapInv'
  <2> SUFFICES ASSUME NEW k \in OtpIds \ overlapped
               PROVE  OverlapInv!(k)'
    BY <1>1 DEF OverlapInv
  <2>1. OverlapInv!(k)
    BY DEF IInv, OverlapInv
  <2>2. /\ \A q \in Requests : Holds(q, k)' => Holds(q, k)
        /\ \A q \in Requests : q # r => (Holds(q, k)' <=> Holds(q, k))
    BY <1>1, <1>3 DEF Holds
  <2>3. CASE k = i
    <3>1. Holds(r, k)
      BY <1>1, <2>3 DEF Holds
    <3>2. \A q \in Requests : Holds(q, k)' => q = r
      BY <2>1, <2>2, <3>1
    <3>3. /\ call[r].attempt_count = rec[k].attempt_count /\ accepted[k] = 0
          /\ comparisons[k] <= rec[k].attempt_count
      BY <1>1, <2>1, <3>1
    <3>4. comparisons'[k] <= rec'[k].attempt_count
      BY <1>2, <1>4, <2>3, <3>3
    <3>5. ~(Holds(r, k)' /\ call'[r].pc \in {"check", "count"})
      BY <1>3
    <3>6. QED
      BY <1>1, <3>2, <3>3, <3>4, <3>5
  <2>4. CASE k # i
    <3>1. ~Holds(r, k)'
      BY <1>1, <2>2, <2>4 DEF Holds
    <3>2. QED
      BY <1>1, <1>2, <1>3, <1>4, <2>1, <2>2, <2>4, <3>1
  <2>5. QED
    BY <2>3, <2>4
<1>8. QED
  BY <1>3, <1>5, <1>6, <1>7 DEF IInv

(* The consuming update and the "verified" answer keep the invariant: a call *)
(* alone on its row is the first to be accepted with it.                    *)
LEMMA ConsumeInv ==
    ASSUME IInv, NEW r \in Requests, Consume(r)
    PROVE  IInv'
<1> DEFINE i == call[r].row
<1> USE ConstantsAssumption
<1>1. /\ call[r].pc = "consume" /\ i \in otp_records
      /\ rec' = [rec EXCEPT ![i].is_invalidated = TRUE]
      /\ accepted' = [accepted EXCEPT ![i] = @ + 1]
      /\ UNCHANGED <<now, issued, otp_records, unsaved, comparisons, overlapped>>
      /\ call' = [call EXCEPT ![r] = IdleCall]
      /\ answer' = [Silence EXCEPT ![r] = "verified"]
  BY DEF Consume, Respond
<1>2. /\ SameRows /\ i \in OtpIds /\ rec'[i].is_invalidated
      /\ \A j \in OtpIds : rec'[j].attempt_count = rec[j].attempt_count
  BY <1>1, InvalidateRows
<1>3. /\ TableInv' /\ CallInv' /\ SupersededInv'
      /\ call' \in [Requests -> Call]
      /\ \A q \in Requests : q # r => call'[q] = call[q]
      /\ call'[r].pc = "idle"
  <2>1. UNCHANGED <<now, issued, otp_records, unsaved>>
    BY <1>1
  <2>2. \/ call' = [call EXCEPT ![r] = IdleCall]
        \/ /\ call[r].pc = "count"
           /\ call[r].submitted = rec[call[r].row].otp_hash
           /\ call' = [call EXCEPT ![r].pc = "consume"]
    BY <1>1
  <2>3. call'[r].pc = "idle"
    BY <1>1, IdleCallType DEF IInv, TypeOK
  <2>4. QED
    BY <1>2, <2>1, <2>2, <2>3, UpdateInv
<1>4. /\ accepted \in [OtpIds -> Nat] /\ accepted' \in [OtpIds -> Nat]
      /\ accepted'[i] = accepted[i] + 1
      /\ \A j \in OtpIds : j # i => accepted'[j] = accepted[j]
  BY <1>1, <1>2 DEF IInv, TypeOK
<1>5. TypeOK'
  BY <1>1, <1>2, <1>3, <1>4 DEF IInv, TypeOK, SameRows, Silence, Answers
<1>6. HistoryInv'
  <2>1. i <= issued
    BY <1>1 DEF IInv, CallInv, TypeOK
  <2>2. QED
    BY <1>1, <1>2, <1>4, <2>1, SMTT(30) DEF IInv, HistoryInv, SameRows, TypeOK, OtpIds
<1>7. OverlapInv'
  <2> SUFFICES ASSUME NEW k \in OtpIds \ overlapped
               PROVE  OverlapInv!(k)'
    BY <1>1 DEF OverlapInv
  <2>1. OverlapInv!(k)
    BY DEF IInv, OverlapInv
  <2>2. /\ ~Holds(r, k)'
        /\ \A q \in Requests : q # r => (Holds(q, k)' <=> Holds(q, k))
    BY <1>3 DEF Holds
  <2>3. CASE k = i
    <3>1. Holds(r, k)
      BY <1>1, <2>3 DEF Holds
    <3>2. accepted[k] = 0 /\ \A q \in Requests : ~Holds(q, k)'
      BY <2>1, <2>2, <3>1
    <3>3. QED
      BY <1>1, <1>2, <1>4, <2>1, <2>3, <3>2
  <2>4. CASE k # i
    BY <1>1, <1>2, <1>3, <1>4, <2>1, <2>2, <2>4
  <2>5. QED
    BY <2>3, <2>4
<1>8. QED
  BY <1>3, <1>5, <1>6, <1>7 DEF IInv

(* An update that is applied without the API learning of it keeps the       *)
(* invariant: it can only count an attempt, or invalidate, for nothing.     *)
LEMMA StatementUnacknowledgedInv ==
    ASSUME IInv, NEW r \in Requests, StatementUnacknowledged(r)
    PROVE  IInv'
<1> DEFINE i == call[r].row
<1> USE ConstantsAssumption
<1>1. /\ UNCHANGED <<now, issued, otp_records, unsaved, comparisons, accepted, overlapped>>
      /\ call' = [call EXCEPT ![r] = IdleCall]
      /\ answer' = [Silence EXCEPT ![r] = "service_unavailable"]
      /\ \/ call[r].pc = "count" /\ WriteAttempt(r)
         \/ /\ call[r].pc = "consume"
            /\ rec' = [rec EXCEPT ![i].is_invalidated = TRUE]
  BY DEF StatementUnacknowledged, Respond, histVars
<1>2. /\ SameRows /\ i \in OtpIds
      /\ \A j \in OtpIds :
            \/ rec'[j].attempt_count = rec[j].attempt_count
            \/ /\ call[r].pc = "count" /\ j = i
               /\ call[r].attempt_count \in Nat
               /\ rec'[j].attempt_count = call[r].attempt_count + 1
  BY <1>1, WriteAttemptRows, InvalidateRows
<1>3. /\ TableInv' /\ CallInv' /\ SupersededInv'
      /\ call' \in [Requests -> Call]
      /\ \A q \in Requests : q # r => call'[q] = call[q]
      /\ call'[r].pc = "idle"
  <2>1. UNCHANGED <<now, issued, otp_records, unsaved>>
    BY <1>1
  <2>2. \/ call' = [call EXCEPT ![r] = IdleCall]
        \/ /\ call[r].pc = "count"
           /\ call[r].submitted = rec[call[r].row].otp_hash
           /\ call' = [call EXCEPT ![r].pc = "consume"]
    BY <1>1
  <2>3. call'[r].pc = "idle"
    BY <1>1, IdleCallType DEF IInv, TypeOK
  <2>4. QED
    BY <1>2, <2>1, <2>2, <2>3, UpdateInv
<1>4. TypeOK'
  BY <1>1, <1>2, <1>3 DEF IInv, TypeOK, SameRows, Silence, Answers
<1>5. HistoryInv'
  BY <1>1, <1>2 DEF IInv, HistoryInv, SameRows, TypeOK
<1>6. OverlapInv'
  <2> SUFFICES ASSUME NEW k \in OtpIds \ overlapped
               PROVE  OverlapInv!(k)'
    BY <1>1 DEF OverlapInv
  <2>1. OverlapInv!(k)
    BY DEF IInv, OverlapInv
  <2>2. /\ ~Holds(r, k)'
        /\ \A q \in Requests : q # r => (Holds(q, k)' <=> Holds(q, k))
    BY <1>3 DEF Holds
  <2>3. CASE rec'[k].attempt_count = rec[k].attempt_count
    BY <1>1, <1>3, <2>1, <2>2, <2>3
  <2>4. CASE /\ call[r].pc = "count" /\ k = i
             /\ call[r].attempt_count \in Nat
             /\ rec'[k].attempt_count = call[r].attempt_count + 1
    <3>1. Holds(r, k)
      BY <2>4 DEF Holds
    <3>2. \A q \in Requests : ~Holds(q, k)'
      BY <2>1, <2>2, <3>1
    <3>3. /\ call[r].attempt_count = rec[k].attempt_count
          /\ comparisons[k] \in Nat
      BY <2>1, <2>4, <3>1 DEF IInv, TypeOK
    <3>4. QED
      BY <1>1, <2>1, <2>4, <3>2, <3>3
  <2>5. QED
    BY <1>2, <2>3, <2>4
<1>7. QED
  BY <1>3, <1>4, <1>5, <1>6 DEF IInv

(* Every step of the API, of the worker and of time keeps the invariant.    *)
LEMMA NextInv == IInv /\ [Next]_vars => IInv'
<1> SUFFICES ASSUME IInv, [Next]_vars PROVE IInv'
  OBVIOUS
<1>1. CASE UNCHANGED vars
  <2> USE <1>1 DEF vars, tableVars, histVars
  <2>1. TypeOK' /\ TableInv' /\ CallInv'
    BY DEF IInv, TypeOK, TableInv, UnexpiredKept, CallInv
  <2>2. SupersededInv' /\ HistoryInv' /\ OverlapInv'
    BY DEF IInv, SupersededInv, HistoryInv, OverlapInv, Holds
  <2>3. QED
    BY <2>1, <2>2 DEF IInv
<1>2. ASSUME NEW r \in Requests, Verify(r) PROVE IInv'
  <2>1. ASSUME NEW s \in Scopes, LookupNone(r, s) PROVE IInv'
    BY <2>1, RespondInv DEF LookupNone, Answers
  <2>2. CASE LookupFails(r)
    BY <2>2, RespondInv DEF LookupFails, Answers
  <2>3. CASE StatementFails(r)
    BY <2>3, RespondInv DEF StatementFails, Answers
  <2>4. CASE Crash(r)
    BY <2>4, RespondInv DEF Crash, Answers
  <2>5. QED
    BY <1>2, <2>1, <2>2, <2>3, <2>4, LookupInv, CheckInv, CountAttemptInv,
       ConsumeInv, StatementUnacknowledgedInv DEF Verify, Step
<1>3. QED
  BY <1>1, <1>2, UnsavedInv, SaveOtpInv, PurgeInv, TickInv DEF Next, Send

(* The inductive invariant holds in every reachable state of the OTP table   *)
(* and the calls on it; every safety theorem below follows from it.         *)
THEOREM Invariance == Spec => []IInv
BY InitInv, NextInv, PTL DEF Spec

-----------------------------------------------------------------------------

(* Type correctness: for any number of concurrent calls, attempt_count      *)
(* never passes otp_max_attempts, although every write of it is blind.      *)
THEOREM TypeCorrect == Spec => []TypeOK
<1>1. IInv => TypeOK
  BY DEF IInv
<1>2. QED
  BY <1>1, Invariance, PTL

(* The purge cron never deletes a row before verify_and_consume would       *)
(* refuse it as expired.                                                    *)
THEOREM PurgeIsSafe == Spec => []UnexpiredKept
<1>1. IInv => UnexpiredKept
  BY DEF IInv, TableInv
<1>2. QED
  BY <1>1, Invariance, PTL

(* An OTP that no two verify calls hold at once is compared at most         *)
(* otp_max_attempts times and accepted at most once, whatever crashes and   *)
(* lost database answers do.                                                *)
THEOREM AloneIsLimited == Spec => []LimitsWithoutOverlap
<1>1. IInv => LimitsWithoutOverlap
  <2> SUFFICES ASSUME IInv, NEW i \in OtpIds \ overlapped
               PROVE  comparisons[i] <= MaxAttempts /\ accepted[i] <= 1
    BY DEF LimitsWithoutOverlap
  <2>1. comparisons[i] <= rec[i].attempt_count /\ accepted[i] <= 1
    BY DEF IInv, OverlapInv
  <2>2. rec[i].attempt_count \in 0..MaxAttempts /\ comparisons[i] \in Nat
    BY DEF IInv, TypeOK, Record
  <2>3. QED
    BY <2>1, <2>2, ConstantsAssumption
<1>2. QED
  BY <1>1, Invariance, PTL

(* A comparison is never forgotten altogether by a stale write.             *)
THEOREM ComparisonsLeaveACount == Spec => []ComparedIsCounted
<1>1. IInv => ComparedIsCounted
  BY DEF IInv, HistoryInv, ComparedIsCounted
<1>2. QED
  BY <1>1, Invariance, PTL

(* A call compares an OTP only if every newer OTP of its scope, inserted    *)
(* before the call began, has been consumed, or was sent by a call that     *)
(* overlapped the OTP's own, has the earlier expiry and has been purged.    *)
THEOREM NewestFirst == Spec => []SupersededUnlessConsumed
<1>1. IInv => SupersededUnlessConsumed
  BY DEF IInv, SupersededInv, SupersededUnlessConsumed
<1>2. QED
  BY <1>1, Invariance, PTL

(* Only Consume gives an acceptance, and it gives it to the call that       *)
(* holds the OTP, has its code and began before it expired.                 *)
THEOREM AcceptanceIsJustified == Spec => AcceptOnlyTheHolder
<1> DEFINE A == \A i \in OtpIds : accepted'[i] # accepted[i] =>
        \E r \in Requests :
            /\ answer'[r] = "verified" /\ call[r].row = i
            /\ call[r].scope = rec[i].scope
            /\ call[r].submitted = rec[i].otp_hash
            /\ call[r].began <= rec[i].expires_at
<1>1. IInv /\ [Next]_vars => [A]_vars
  <2> SUFFICES ASSUME IInv, Next PROVE A
    OBVIOUS
  <2>1. CASE UNCHANGED accepted
    BY <2>1
  <2>2. ASSUME NEW r \in Requests, Consume(r) PROVE A
    <3>1. /\ call[r].pc = "consume"
          /\ accepted' = [accepted EXCEPT ![call[r].row] = @ + 1]
          /\ answer' = [Silence EXCEPT ![r] = "verified"]
      BY <2>2 DEF Consume, Respond
    <3>2. answer'[r] = "verified"
      BY <3>1 DEF Silence
    <3>3. /\ call[r].scope = rec[call[r].row].scope
          /\ call[r].submitted = rec[call[r].row].otp_hash
          /\ call[r].began <= rec[call[r].row].expires_at
      BY <3>1 DEF IInv, CallInv
    <3>4. \A i \in OtpIds : accepted'[i] # accepted[i] => i = call[r].row
      BY <3>1 DEF IInv, TypeOK
    <3>5. QED
      BY <3>2, <3>3, <3>4
  <2>3. QED
    BY <2>1, <2>2 DEF Next, Verify, Step, Send, ComputeRow, SaveOtp, SaveFails, LookupNone, Lookup,
       LookupFails, Check, CountAttempt, StatementFails,
       StatementUnacknowledged, Crash, PurgeExpiredOtps, Tick, histVars
<1>2. QED
  BY <1>1, Invariance, PTL DEF Spec, AcceptOnlyTheHolder

(* attempts_remaining never promises more comparisons than are left, as     *)
(* long as no two calls overlap on the OTP.                                 *)
THEOREM RemainingIsRight == Spec => RemainingIsHonest
<1> DEFINE A == \A r \in Requests :
        LET i == call[r].row IN
        (call[r].pc = "count" /\ answer'[r] = "invalid_code" /\ i \notin overlapped)
            => Remaining(r) + comparisons'[i] <= MaxAttempts
<1>1. IInv /\ [Next]_vars => [A]_vars
  <2> SUFFICES ASSUME IInv, Next, NEW r \in Requests,
                      call[r].pc = "count", answer'[r] = "invalid_code",
                      call[r].row \notin overlapped
               PROVE  Remaining(r) + comparisons'[call[r].row] <= MaxAttempts
    OBVIOUS
  <2>1. ASSUME NEW q \in Requests, CountAttempt(q),
               answer' = [Silence EXCEPT ![q] = "invalid_code"]
        PROVE  Remaining(r) + comparisons'[call[r].row] <= MaxAttempts
    <3>1. q = r
      BY <2>1 DEF Silence
    <3>2. /\ call[r].row \in OtpIds /\ call[r].attempt_count \in Nat
          /\ comparisons[call[r].row] \in Nat
      <4>1. call[r].row \in OtpIds
        BY ConstantsAssumption DEF IInv, CallInv, TypeOK, OtpIds
      <4>2. call[r].attempt_count \in Nat
        BY ConstantsAssumption DEF IInv, TypeOK, Call
      <4>3. QED
        BY <4>1, <4>2 DEF IInv, TypeOK
    <3>3. comparisons'[call[r].row] = comparisons[call[r].row] + 1
      BY <2>1, <3>1, <3>2 DEF CountAttempt, IInv, TypeOK
    <3>4. comparisons[call[r].row] <= call[r].attempt_count
      BY <3>2 DEF IInv, OverlapInv, Holds
    <3>5. QED
      BY <3>2, <3>3, <3>4, ConstantsAssumption DEF Remaining
  <2>2. answer' = Silence => FALSE
    BY DEF Silence
  <2>3. ASSUME NEW q \in Requests, NEW a,
               answer' = [Silence EXCEPT ![q] = a], a # "invalid_code"
        PROVE  FALSE
    BY <2>3 DEF Silence
  <2>4. PICK q \in Requests : Verify(q)
    BY <2>2 DEF Next, Send, ComputeRow, SaveOtp, SaveFails, PurgeExpiredOtps, Tick
  <2>5. CountAttempt(q)
    <3>1. ASSUME NEW s \in Scopes, LookupNone(q, s) PROVE FALSE
      BY <2>3, <3>1 DEF LookupNone, Respond
    <3>2. ASSUME NEW s \in Scopes, NEW c \in Codes, Lookup(q, s, c) PROVE FALSE
      BY <2>2, <3>2 DEF Lookup
    <3>3. ~LookupFails(q) /\ ~StatementFails(q) /\ ~StatementUnacknowledged(q)
      BY <2>3 DEF LookupFails, StatementFails, StatementUnacknowledged, Respond
    <3>4. ~Crash(q) /\ ~Consume(q)
      BY <2>3 DEF Crash, Consume, Respond
    <3>5. ~Check(q)
      BY <2>2, <2>3 DEF Check, Respond, Goto
    <3>6. QED
      BY <2>4, <3>1, <3>2, <3>3, <3>4, <3>5 DEF Verify, Step
  <2>6. answer' = [Silence EXCEPT ![q] = "invalid_code"]
    BY <2>2, <2>5 DEF CountAttempt, Goto, Respond
  <2>7. QED
    BY <2>1, <2>5, <2>6
<1>2. QED
  BY <1>1, Invariance, PTL DEF Spec, RemainingIsHonest

-----------------------------------------------------------------------------

(* OtpLifecycle implements SingleUseToken: a call that begins after an      *)
(* acceptance never has the same OTP accepted.                              *)
Redeeming == [r \in Requests |-> call[r].row]
AcceptedIds == {i \in OtpIds : accepted[i] > 0}

(* Nobody redeems and nothing is accepted in an empty table.                *)
LEMMA TokenInit == Init => Token!Init
<1> SUFFICES ASSUME Init PROVE Token!Init
  OBVIOUS
<1>1. Redeeming = [r \in Requests |-> NoOtp]
  BY IdleCallType DEF Init, Redeeming
<1>2. AcceptedIds = {}
  BY DEF Init, AcceptedIds
<1>3. QED
  BY <1>1, <1>2 DEF Token!Init, Redeeming, AcceptedIds

(* Nothing is accepted and the slot of r becomes idle: r gives up, or had   *)
(* not begun.                                                               *)
LEMMA RespondGivesUp ==
    ASSUME IInv, NEW r \in Requests, call' = [call EXCEPT ![r] = IdleCall],
           UNCHANGED accepted
    PROVE  [Token!Next]_(Token!tokenVars)
<1>1. AcceptedIds' = AcceptedIds
  BY DEF AcceptedIds
<1>2. Redeeming' = [Redeeming EXCEPT ![r] = NoOtp]
  BY IdleCallType DEF IInv, TypeOK, Redeeming
<1>3. CASE call[r].row = NoOtp
  BY <1>1, <1>2, <1>3 DEF Token!tokenVars, Redeeming, AcceptedIds
<1>4. CASE call[r].row # NoOtp
  <2>1. Token!GiveUp(r)
    BY <1>1, <1>2, <1>4 DEF Token!GiveUp, Redeeming, AcceptedIds
  <2>2. QED
    BY <2>1 DEF Token!Next
<1>5. QED
  BY <1>3, <1>4

(* Each database statement of verify_and_consume is a Begin, an Accept, a    *)
(* GiveUp of SingleUseToken or a stutter.                                   *)
LEMMA TokenStep == IInv /\ [Next]_vars => [Token!Next]_(Token!tokenVars)
<1> SUFFICES ASSUME IInv, [Next]_vars PROVE [Token!Next]_(Token!tokenVars)
  OBVIOUS
<1>1. CASE UNCHANGED call /\ UNCHANGED accepted
  <2>1. Redeeming' = Redeeming /\ AcceptedIds' = AcceptedIds
    BY <1>1 DEF Redeeming, AcceptedIds
  <2>2. QED
    BY <2>1 DEF Token!tokenVars, Redeeming, AcceptedIds
<1>2. ASSUME NEW r \in Requests, NEW label, call[r].pc # "idle",
             call' = [call EXCEPT ![r].pc = label], UNCHANGED accepted
      PROVE  [Token!Next]_(Token!tokenVars)
  <2>1. \A q \in Requests : call'[q].row = call[q].row
    BY <1>2 DEF IInv, TypeOK, Call
  <2>2. Redeeming' = Redeeming /\ AcceptedIds' = AcceptedIds
    BY <1>2, <2>1 DEF Redeeming, AcceptedIds
  <2>3. QED
    BY <2>2 DEF Token!tokenVars, Redeeming, AcceptedIds
<1>3. ASSUME NEW r \in Requests, NEW s \in Scopes, NEW c \in Codes, Lookup(r, s, c)
      PROVE  [Token!Next]_(Token!tokenVars)
  <2>1. PICK i \in OtpIds :
          /\ NewestActive(s, i)
          /\ call' = [call EXCEPT ![r] =
               [pc |-> "check", scope |-> s, submitted |-> c, row |-> i,
                attempt_count |-> rec[i].attempt_count,
                began |-> now, newest |-> issued]]
    BY <1>3 DEF Lookup
  <2>2. call[r].row = NoOtp /\ UNCHANGED accepted
    BY <1>3 DEF Lookup, IInv, CallInv
  <2>3. i \notin AcceptedIds
    BY <2>1 DEF NewestActive, ActiveOtps, AcceptedIds, IInv, HistoryInv
  <2>4. Redeeming' = [Redeeming EXCEPT ![r] = i] /\ AcceptedIds' = AcceptedIds
    BY <2>1, <2>2 DEF Redeeming, AcceptedIds, IInv, TypeOK
  <2>5. Token!Begin(r, i)
    BY <2>2, <2>3, <2>4 DEF Token!Begin, Redeeming, AcceptedIds
  <2>6. QED
    BY <2>5 DEF Token!Next
<1>4. ASSUME NEW r \in Requests, Consume(r)
      PROVE  [Token!Next]_(Token!tokenVars)
  <2>1. /\ call' = [call EXCEPT ![r] = IdleCall]
        /\ accepted' = [accepted EXCEPT ![call[r].row] = @ + 1]
        /\ call[r].row \in OtpIds /\ call[r].row # NoOtp
    <3>1. call[r].row \in 1..issued
      BY <1>4 DEF Consume, IInv, CallInv
    <3>2. call[r].row \in OtpIds /\ call[r].row # NoOtp
      BY <3>1, ConstantsAssumption DEF IInv, TypeOK, OtpIds, NoOtp
    <3>3. QED
      BY <1>4, <3>2 DEF Consume, Respond
  <2>2. AcceptedIds' = AcceptedIds \union {call[r].row}
    BY <2>1 DEF AcceptedIds, IInv, TypeOK
  <2>3. Redeeming' = [Redeeming EXCEPT ![r] = NoOtp]
    BY <2>1, IdleCallType DEF IInv, TypeOK, Redeeming
  <2>4. Token!Accept(r)
    BY <2>1, <2>2, <2>3 DEF Token!Accept, Redeeming, AcceptedIds
  <2>5. QED
    BY <2>4 DEF Token!Next
<1>5. ASSUME NEW r \in Requests, Verify(r), ~Consume(r),
             \A s \in Scopes, c \in Codes : ~Lookup(r, s, c)
      PROVE  [Token!Next]_(Token!tokenVars)
  <2>1. \/ call' = [call EXCEPT ![r] = IdleCall] /\ UNCHANGED accepted
        \/ /\ call[r].pc # "idle" /\ UNCHANGED accepted
           /\ \E label \in {"count", "consume"} :
                  call' = [call EXCEPT ![r].pc = label]
    <3>1. CASE \/ \E s \in Scopes : LookupNone(r, s)
               \/ LookupFails(r)
               \/ StatementFails(r)
               \/ Crash(r)
      BY <3>1 DEF LookupNone, LookupFails, StatementFails, Crash, Respond, histVars
    <3>2. CASE StatementUnacknowledged(r)
      BY <3>2 DEF StatementUnacknowledged, Respond, histVars
    <3>3. CASE Check(r)
      BY <3>3 DEF Check, Respond, Goto, histVars
    <3>4. CASE CountAttempt(r)
      BY <3>4 DEF CountAttempt, Respond, Goto
    <3>5. QED
      BY <1>5, <3>1, <3>2, <3>3, <3>4 DEF Verify, Step
  <2>2. QED
    BY <1>2, <2>1, RespondGivesUp
<1>6. QED
  BY <1>1, <1>3, <1>4, <1>5
     DEF Next, Send, ComputeRow, SaveOtp, SaveFails, PurgeExpiredOtps, Tick, vars, histVars

(* verify_and_consume implements SingleUseToken: once an OTP was accepted,   *)
(* no call that reads the table afterwards has it accepted.                 *)
THEOREM Refinement == Spec => SingleUse
<1>1. Spec => Token!Init /\ [][Token!Next]_(Token!tokenVars)
  BY TokenInit, TokenStep, Invariance, PTL DEF Spec
<1>2. QED
  BY <1>1 DEF SingleUse, Token!Spec

=============================================================================
