---------------------------- MODULE RateLimiter ----------------------------
(***************************************************************************)
(* The sliding windows of core/rate_limiter.py on the way of POST          *)
(* /otp/send: the IP tier in apps/api/middleware/rate_limit.py, then the   *)
(* key and the e-mail tier in apps/api/routes/otp.py.  Each tier counts in *)
(* one Redis sorted set per address, API key or (project, e-mail) pair.    *)
(*                                                                         *)
(* A check is two steps: time.time() is read in a thread of the API, and   *)
(* the MULTI/EXEC pipeline runs later, atomically, in Redis; other calls   *)
(* run in between.  A member of the sorted set is the text of its score,   *)
(* so the set is modelled as a set of clock readings: two calls with the   *)
(* same reading are one member.  Any exception lets the request through    *)
(* ("fail open"), whether or not the pipeline ran.                         *)
(*                                                                         *)
(* All processes share one clock, which never goes back; it is capped at   *)
(* MaxTime.  A request slot is used again when its request is over.        *)
(***************************************************************************)
EXTENDS Integers, FiniteSets

CONSTANTS
    Requests,                   \* slots of concurrent requests
    IpKeys, ApiKeys, EmailKeys, \* rl:ip:..., rl:key:..., rl:email:... keys
    Limit, Window,              \* per key: limit and window_seconds
    MaxTime                     \* bound of the clock

Keys == IpKeys \union ApiKeys \union EmailKeys

ASSUME ConstantsAssumption ==
    /\ Limit \in [Keys -> Nat]
    /\ Window \in [Keys -> Nat \ {0}]
    /\ MaxTime \in Nat

VARIABLES
    request,   \* per slot: tier, control state, reading of the clock, keys
    zset,      \* per Redis key: the scores in its sorted set
    deadline,  \* per Redis key: when EXPIRE removes it
    now        \* the clock

VARIABLES      \* history
    recorded,  \* per key: readings of all calls whose pipeline ran
    admitted   \* per key: readings of the calls answered True

history == <<recorded, admitted>>
vars == <<request, zset, deadline, now, history>>

Time == 0..MaxTime
Request == [pc : {"clock", "pipeline", "refused", "through"},
            tier : {"ip", "key", "email"},
            at : Time, ip : IpKeys, key : ApiKeys, email : EmailKeys]

Init ==
    /\ request \in [Requests -> {q \in Request : q.pc = "through" /\ q.at = 0
                                                   /\ q.tier = "ip"}]
    /\ zset = [k \in Keys |-> {}]
    /\ deadline = [k \in Keys |-> 0]
    /\ now = 0
    /\ recorded = [k \in Keys |-> {}]
    /\ admitted = [k \in Keys |-> {}]

-----------------------------------------------------------------------------
\* The Redis key of the tier that r is at.
KeyOf(r) ==
    CASE request[r].tier = "ip"    -> request[r].ip
      [] request[r].tier = "key"   -> request[r].key
      [] request[r].tier = "email" -> request[r].email

\* The request of slot r is over: it was refused, or is past the limiter.
NewRequest(r) ==
    /\ request[r].pc \in {"refused", "through"}
    /\ \E ip \in IpKeys, key \in ApiKeys, email \in EmailKeys :
          request' = [request EXCEPT ![r] =
                        [pc |-> "clock", tier |-> "ip", at |-> 0,
                         ip |-> ip, key |-> key, email |-> email]]
    /\ UNCHANGED <<zset, deadline, now, history>>

\* Past the middleware, but for another route, with a bad key or address.
LeaveEarly(r) ==
    /\ request[r].pc = "clock" /\ request[r].tier = "key"
    /\ request' = [request EXCEPT ![r].pc = "through"]
    /\ UNCHANGED <<zset, deadline, now, history>>

ReadClock(r) ==
    /\ request[r].pc = "clock"
    /\ request' = [request EXCEPT ![r].pc = "pipeline", ![r].at = now]
    /\ UNCHANGED <<zset, deadline, now, history>>

\* The next tier, or the rest of the route.  The reading goes with the call.
Pass(r) ==
    request' = [request EXCEPT
        ![r].at = 0,
        ![r].pc = IF request[r].tier = "email" THEN "through" ELSE "clock",
        ![r].tier = IF request[r].tier = "ip" THEN "key" ELSE "email"]

\* One try covers the key and the e-mail check: an exception skips both.
FailOpen(r) ==
    request' = [request EXCEPT
        ![r].at = 0,
        ![r].pc = IF request[r].tier = "ip" THEN "clock" ELSE "through",
        ![r].tier = IF request[r].tier = "ip" THEN "key" ELSE "email"]

-----------------------------------------------------------------------------
\* Mutant: the eviction is left out.
CountedUnevicted(r) == zset[KeyOf(r)] \union {request[r].at}

\* Mutant: the eviction goes by the time of the pipeline and half the window.
CountedHalf(r) ==
    LET k == KeyOf(r)
    IN  {s \in zset[k] : s > now - (Window[k] \div 2)} \union {request[r].at}

\* Mutant: the call is scored with the time at which it leaves the window.
CountedAhead(r) ==
    LET k == KeyOf(r)
    IN  {s \in zset[k] : s > request[r].at - Window[k]}
            \union {request[r].at + Window[k]}

\* What zremrangebyscore and zadd leave, which zcard counts.
Counted(r) ==
    LET k == KeyOf(r)
    IN  {s \in zset[k] : s > request[r].at - Window[k]} \union {request[r].at}

Record(r) ==
    LET k == KeyOf(r)
    IN  /\ zset' = [zset EXCEPT ![k] = Counted(r)]
        /\ deadline' = [deadline EXCEPT ![k] = now + Window[k]]
        /\ recorded' = [recorded EXCEPT ![k] = @ \union {request[r].at}]

Admit(r) ==
    /\ request[r].pc = "pipeline"
    /\ Record(r)
    /\ Cardinality(Counted(r)) <= Limit[KeyOf(r)]
    /\ admitted' = [admitted EXCEPT ![KeyOf(r)] = @ \union {request[r].at}]
    /\ Pass(r)
    /\ UNCHANGED now

\* A refused call is recorded like any other.
Refuse(r) ==
    /\ request[r].pc = "pipeline"
    /\ Record(r)
    /\ Cardinality(Counted(r)) > Limit[KeyOf(r)]
    /\ request' = [request EXCEPT ![r].pc = "refused"]
    /\ UNCHANGED <<now, admitted>>

RedisFails(r) ==
    /\ request[r].pc = "pipeline"
    /\ FailOpen(r)
    /\ UNCHANGED <<zset, deadline, now, history>>

\* The pipeline ran and its answer was lost.
AnswerLost(r) ==
    /\ request[r].pc = "pipeline"
    /\ Record(r)
    /\ FailOpen(r)
    /\ UNCHANGED <<now, admitted>>

\* Time passes, and Redis drops the keys whose time to live is over.
Tick ==
    /\ now < MaxTime
    /\ now' = now + 1
    /\ zset' = [k \in Keys |-> IF deadline[k] <= now + 1 THEN {} ELSE zset[k]]
    /\ UNCHANGED <<request, deadline, history>>

Check(r) == ReadClock(r) \/ Admit(r) \/ Refuse(r) \/ RedisFails(r) \/ AnswerLost(r)

Next ==
    \/ Tick
    \/ \E r \in Requests : NewRequest(r) \/ LeaveEarly(r) \/ Check(r)

Spec == Init /\ [][Next]_vars

-----------------------------------------------------------------------------
(* Properties.                                                              *)

\* The limiter never holds a reading from the future.
TypeOK ==
    /\ now \in Time
    /\ request \in [Requests -> Request]
    /\ zset \in [Keys -> SUBSET Time]
    /\ deadline \in [Keys -> Nat]
    /\ recorded \in [Keys -> SUBSET Time]
    /\ admitted \in [Keys -> SUBSET Time]
    /\ \A k \in Keys : \A s \in zset[k] : s <= now

\* However the calls to a key interleave, are held up between their clock and
\* their pipeline, or lose their answers, and whatever Redis expires, the
\* calls that a tier answered True (core/rate_limiter.py, _sliding_window) and
\* that were stamped within the last window have at most Limit readings.
WindowBound ==
    \A k \in Keys :
        Cardinality({s \in admitted[k] : s > now - Window[k]}) <= Limit[k]

\* A request that was answered 429 met more than Limit readings of calls to
\* that key less than a window older than its own: calls that have left the
\* window, other keys and Redis faults refuse nobody.
RefusalIsJustified ==
    \A r \in Requests : request[r].pc = "refused" =>
        Cardinality({s \in recorded[KeyOf(r)] :
                        s > request[r].at - Window[KeyOf(r)]}) > Limit[KeyOf(r)]
=============================================================================
