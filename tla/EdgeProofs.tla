---------------------------- MODULE EdgeProofs ----------------------------
(***************************************************************************)
(* Proofs about the two components at the edge of the API, which know its  *)
(* requests from outside and share nothing else: RateLimiter in front of   *)
(* the routes, for any number of requests, keys, limits and windows, and   *)
(* ClientSdk behind the network, for any number of calls and attempts.     *)
(*                                                                         *)
(* WindowBound is not inductive: it says nothing of the sorted set.  What  *)
(* makes it hold is that neither an eviction (by the possibly old reading  *)
(* of some call) nor EXPIRE ever takes away a reading that is still within *)
(* the window, so that the sorted set holds all readings WindowBound       *)
(* counts: KeyInv.                                                         *)
(*                                                                         *)
(* None of the properties of ClientSdk is inductive: they speak of what a  *)
(* caller has been told, and an answer is written, with what it promises,  *)
(* long before it is read.  SdkInv follows it on its way: what each stage  *)
(* of a request has done, what each status of an answer warrants           *)
(* (ServerInv), what the SDKs make of it (ClientInv), and, since a call    *)
(* that was given up may run beside the next one, which calls have found   *)
(* the code unconsumed (ResultInv) and how current their count is          *)
(* (CountInv).                                                             *)
(***************************************************************************)
EXTENDS RateLimiter, ClientSdk, FiniteSetTheorems, TLAPS

-----------------------------------------------------------------------------
(* RateLimiter: the inductive invariant.                                    *)

\* The readings that WindowBound and RefusalIsJustified count.
Live(k) == {s \in admitted[k] : s > now - Window[k]}
Met(r) == {s \in recorded[KeyOf(r)] : s > request[r].at - Window[KeyOf(r)]}

KeyInv(k) ==
    /\ \A s \in zset[k] : s + Window[k] <= deadline[k]
    /\ zset[k] \subseteq recorded[k]
    /\ Live(k) \subseteq zset[k]
    /\ Cardinality(Live(k)) <= Limit[k]

SlotInv(r) ==
    /\ request[r].at <= now
    /\ request[r].pc = "refused" => Cardinality(Met(r)) > Limit[KeyOf(r)]

IInv ==
    /\ TypeOK
    /\ \A k \in Keys : KeyInv(k)
    /\ \A r \in Requests : SlotInv(r)

-----------------------------------------------------------------------------
(* A set of clock readings is finite, and so is each of its subsets, which  *)
(* has no more elements.                                                    *)
LEMMA Readings ==
    ASSUME NEW S \in SUBSET Time, NEW T \in SUBSET S
    PROVE  /\ IsFiniteSet(S) /\ Cardinality(S) \in Nat
           /\ Cardinality(T) \in Nat /\ Cardinality(T) <= Cardinality(S)
<1>1. IsFiniteSet(Time)
  BY FS_Interval, ConstantsAssumption DEF Time
<1>2. IsFiniteSet(S)
  BY <1>1, FS_Subset
<1>3. IsFiniteSet(T) /\ Cardinality(T) <= Cardinality(S)
  BY <1>2, FS_Subset
<1>4. QED
  BY <1>2, <1>3, FS_CardinalityType

(* The key a request is counted under is one of the keys.                   *)
LEMMA KeyOfIsKey ==
    ASSUME TypeOK, NEW r \in Requests
    PROVE  /\ KeyOf(r) \in Keys
           /\ Limit[KeyOf(r)] \in Nat /\ Window[KeyOf(r)] \in Nat \ {0}
<1>1. request[r] \in Request
  BY DEF TypeOK
<1>2. KeyOf(r) \in Keys
  BY <1>1 DEF KeyOf, Keys, Request
<1>3. QED
  BY <1>2, ConstantsAssumption

(* Initially nothing is recorded.                                           *)
LEMMA InitInv == Init => IInv
<1> SUFFICES ASSUME Init PROVE IInv
  OBVIOUS
<1>1. request \in [Requests -> Request]
  BY DEF Init
<1>2. TypeOK
  BY <1>1, ConstantsAssumption DEF Init, TypeOK, Time
<1>3. ASSUME NEW k \in Keys PROVE KeyInv(k)
  <2>1. Live(k) = {} /\ zset[k] = {} /\ recorded[k] = {}
    BY DEF Init, Live
  <2>2. QED
    BY <2>1, FS_EmptySet, ConstantsAssumption DEF KeyInv
<1>4. ASSUME NEW r \in Requests PROVE SlotInv(r)
  BY DEF Init, SlotInv
<1>5. QED
  BY <1>2, <1>3, <1>4 DEF IInv

-----------------------------------------------------------------------------
(* Steps that leave Redis and the clock alone.                              *)

(* A slot whose request and whose readings are as before keeps its part.    *)
LEMMA SlotKept ==
    ASSUME NEW r \in Requests, SlotInv(r), TypeOK,
           request'[r] = request[r], now' \in Int, now <= now',
           recorded[KeyOf(r)] \subseteq recorded'[KeyOf(r)],
           recorded'[KeyOf(r)] \subseteq Time
    PROVE  SlotInv(r)'
<1>1. KeyOf(r)' = KeyOf(r)
  BY DEF KeyOf
<1>2. Met(r) \subseteq Met(r)' /\ Met(r)' \subseteq Time
  BY <1>1 DEF Met
<1>3. Cardinality(Met(r)) <= Cardinality(Met(r)') /\ Cardinality(Met(r)') \in Nat
      /\ Cardinality(Met(r)) \in Nat
  BY <1>2, Readings
<1>4. request[r].at \in Int /\ now \in Int
  BY DEF TypeOK, Request, Time
<1>5. QED
  BY <1>1, <1>3, <1>4, KeyOfIsKey DEF SlotInv

(* A step of one slot that leaves Redis and the clock alone, and is no      *)
(* refusal.                                                                 *)
LEMMA SlotStep ==
    ASSUME IInv, NEW r \in Requests, UNCHANGED <<zset, deadline, now, history>>,
           NEW q \in Request, request' = [request EXCEPT ![r] = q],
           q.pc # "refused", q.at <= now
    PROVE  IInv'
<1>1. TypeOK'
  BY DEF IInv, TypeOK, history
<1>2. ASSUME NEW k \in Keys PROVE KeyInv(k)'
  BY DEF IInv, KeyInv, Live, history
<1>3. ASSUME NEW p \in Requests PROVE SlotInv(p)'
  <2>1. CASE p = r
    BY <2>1 DEF IInv, TypeOK, SlotInv, history
  <2>2. CASE p # r
    <3>1. request'[p] = request[p] /\ SlotInv(p) /\ TypeOK
      BY <2>2 DEF IInv, TypeOK
    <3>2. recorded[KeyOf(p)] \subseteq Time
      BY <3>1, KeyOfIsKey DEF TypeOK
    <3>3. now \in Int
      BY <3>1 DEF TypeOK, Time
    <3>4. QED
      BY <3>1, <3>2, <3>3, SlotKept DEF history
  <2>3. QED
    BY <2>1, <2>2
<1>4. QED
  BY <1>1, <1>2, <1>3 DEF IInv

(* What Pass and FailOpen make of a slot.                                   *)
Passed(r) ==
    [request[r] EXCEPT
        !.at = 0,
        !.pc = IF request[r].tier = "email" THEN "through" ELSE "clock",
        !.tier = IF request[r].tier = "ip" THEN "key" ELSE "email"]

Opened(r) ==
    [request[r] EXCEPT
        !.at = 0,
        !.pc = IF request[r].tier = "ip" THEN "clock" ELSE "through",
        !.tier = IF request[r].tier = "ip" THEN "key" ELSE "email"]

(* They put the slot in a state that is no refusal.                         *)
LEMMA PassedOrOpened ==
    ASSUME TypeOK, NEW r \in Requests
    PROVE  /\ Passed(r) \in Request /\ Passed(r).pc # "refused" /\ Passed(r).at = 0
           /\ Opened(r) \in Request /\ Opened(r).pc # "refused" /\ Opened(r).at = 0
           /\ Pass(r) => request' = [request EXCEPT ![r] = Passed(r)]
           /\ FailOpen(r) => request' = [request EXCEPT ![r] = Opened(r)]
<1>1. request[r] \in Request /\ 0 \in Time
  BY ConstantsAssumption DEF TypeOK, Time
<1>2. Passed(r) \in Request /\ Passed(r).pc # "refused" /\ Passed(r).at = 0
  BY <1>1 DEF Passed, Request
<1>3. Opened(r) \in Request /\ Opened(r).pc # "refused" /\ Opened(r).at = 0
  BY <1>1 DEF Opened, Request
<1>4. Pass(r) => request' = [request EXCEPT ![r] = Passed(r)]
  BY <1>1 DEF Pass, Passed, TypeOK, Request
<1>5. FailOpen(r) => request' = [request EXCEPT ![r] = Opened(r)]
  BY <1>1 DEF FailOpen, Opened, TypeOK, Request
<1>6. QED
  BY <1>2, <1>3, <1>4, <1>5

(* The steps of a request that do not reach Redis.                          *)
LEMMA LocalInv ==
    ASSUME IInv, NEW r \in Requests,
           NewRequest(r) \/ LeaveEarly(r) \/ ReadClock(r) \/ RedisFails(r)
    PROVE  IInv'
<1>1. TypeOK /\ request[r] \in Request /\ now \in Time /\ 0 \in Time
      /\ request[r].at <= now
  BY ConstantsAssumption DEF IInv, TypeOK, SlotInv, Time
<1>2. CASE NewRequest(r)
  <2>1. PICK ip \in IpKeys, key \in ApiKeys, email \in EmailKeys :
           request' = [request EXCEPT ![r] =
                         [pc |-> "clock", tier |-> "ip", at |-> 0,
                          ip |-> ip, key |-> key, email |-> email]]
    BY <1>2 DEF NewRequest
  <2> DEFINE q == [pc |-> "clock", tier |-> "ip", at |-> 0,
                   ip |-> ip, key |-> key, email |-> email]
  <2>2. q \in Request /\ q.pc # "refused" /\ q.at <= now
    BY <1>1 DEF Request, Time
  <2>3. request' = [request EXCEPT ![r] = q]
    BY <2>1
  <2> HIDE DEF q
  <2>4. QED
    BY <1>2, <2>2, <2>3, SlotStep DEF NewRequest
<1>3. CASE LeaveEarly(r)
  <2> DEFINE q == [request[r] EXCEPT !.pc = "through"]
  <2>1. q \in Request /\ q.pc # "refused" /\ q.at <= now
    BY <1>1 DEF Request
  <2>2. request' = [request EXCEPT ![r] = q]
    BY <1>3, <1>1 DEF LeaveEarly, TypeOK
  <2> HIDE DEF q
  <2>3. QED
    BY <1>3, <2>1, <2>2, SlotStep DEF LeaveEarly
<1>4. CASE ReadClock(r)
  <2> DEFINE q == [request[r] EXCEPT !.pc = "pipeline", !.at = now]
  <2>1. q \in Request /\ q.pc # "refused" /\ q.at <= now
    <3>1. q \in Request
      BY <1>1 DEF Request
    <3>2. q.pc # "refused" /\ q.at = now /\ now \in Int
      BY <1>1 DEF Request, Time
    <3>3. QED
      BY <3>1, <3>2
  <2>2. request' = [request EXCEPT ![r] = q]
    BY <1>4, <1>1 DEF ReadClock, TypeOK
  <2> HIDE DEF q
  <2>3. QED
    BY <1>4, <2>1, <2>2, SlotStep DEF ReadClock
<1>5. CASE RedisFails(r)
  <2>1. request' = [request EXCEPT ![r] = Opened(r)] /\ Opened(r) \in Request
        /\ Opened(r).pc # "refused" /\ Opened(r).at <= now
    BY <1>1, <1>5, PassedOrOpened DEF RedisFails, Time
  <2>2. QED
    BY <1>5, <2>1, SlotStep DEF RedisFails
<1>6. QED
  BY <1>2, <1>3, <1>4, <1>5

-----------------------------------------------------------------------------
(* Steps of Redis.                                                          *)

(* What a pipeline leaves under its key: readings that were recorded, all   *)
(* within a window of the call's own, and every reading still in the window. *)
LEMMA CountedFacts ==
    ASSUME IInv, NEW r \in Requests
    PROVE  /\ Counted(r) \subseteq Time
           /\ Counted(r) \subseteq recorded[KeyOf(r)] \union {request[r].at}
           /\ \A s \in Counted(r) :
                 s <= now /\ s > request[r].at - Window[KeyOf(r)]
           /\ Live(KeyOf(r)) \subseteq Counted(r)
<1> DEFINE k == KeyOf(r)
<1>1. k \in Keys /\ Window[k] \in Nat \ {0} /\ KeyInv(k)
  BY KeyOfIsKey DEF IInv
<1>2. /\ request[r].at \in Time /\ request[r].at <= now /\ now \in Int
      /\ zset[k] \subseteq Time /\ \A s \in zset[k] : s <= now
  BY <1>1 DEF IInv, TypeOK, SlotInv, Request, Time
<1>3. Counted(r) = {s \in zset[k] : s > request[r].at - Window[k]}
                     \union {request[r].at}
  BY DEF Counted
<1>4. zset[k] \subseteq recorded[k] /\ Live(k) \subseteq zset[k]
      /\ \A s \in Live(k) : s > now - Window[k]
  BY <1>1 DEF KeyInv, Live
<1> HIDE DEF k
<1>5. \A s \in Counted(r) : s <= now /\ s > request[r].at - Window[k]
  BY <1>1, <1>2, <1>3 DEF Time
<1>6. Counted(r) \subseteq Time /\ Counted(r) \subseteq recorded[k] \union {request[r].at}
  BY <1>2, <1>3, <1>4
<1>7. \A s \in zset[k] : s > now - Window[k] => s > request[r].at - Window[k]
  BY <1>1, <1>2 DEF Time
<1>8. Live(k) \subseteq Counted(r)
  BY <1>3, <1>4, <1>7
<1>9. QED
  BY <1>5, <1>6, <1>8 DEF k

(* The pipeline keeps the typing of what Redis and its history hold.        *)
LEMMA RecordTypes ==
    ASSUME IInv, NEW r \in Requests, Record(r), now' = now
    PROVE  /\ zset' \in [Keys -> SUBSET Time] /\ deadline' \in [Keys -> Nat]
           /\ recorded' \in [Keys -> SUBSET Time]
           /\ \A k \in Keys : \A s \in zset'[k] : s <= now
           /\ \A k \in Keys : recorded[k] \subseteq recorded'[k]
<1>1. /\ KeyOf(r) \in Keys /\ Window[KeyOf(r)] \in Nat
      /\ TypeOK /\ request[r].at \in Time
  BY KeyOfIsKey DEF IInv, TypeOK, Request
<1>2. /\ Counted(r) \subseteq Time
      /\ \A s \in Counted(r) : s <= now
  BY CountedFacts
<1>3. /\ zset' = [zset EXCEPT ![KeyOf(r)] = Counted(r)]
      /\ deadline' = [deadline EXCEPT ![KeyOf(r)] = now + Window[KeyOf(r)]]
      /\ recorded' = [recorded EXCEPT ![KeyOf(r)] = @ \union {request[r].at}]
  BY DEF Record
<1>4. deadline' \in [Keys -> Nat]
  BY <1>1, <1>3 DEF TypeOK, Time
<1>5. QED
  BY <1>1, <1>2, <1>3, <1>4 DEF TypeOK

(* The pipeline keeps what is known of every key, if what it admits is      *)
(* within the limit.                                                        *)
LEMMA RecordKeys ==
    ASSUME IInv, NEW r \in Requests, Record(r), now' = now,
           admitted' \in [Keys -> SUBSET Time],
           \A k \in Keys \ {KeyOf(r)} : admitted'[k] = admitted[k],
           \/ admitted'[KeyOf(r)] = admitted[KeyOf(r)]
           \/ /\ admitted'[KeyOf(r)] = admitted[KeyOf(r)] \union {request[r].at}
              /\ Cardinality(Counted(r)) <= Limit[KeyOf(r)],
           NEW k \in Keys
    PROVE  KeyInv(k)'
<1>1. KeyOf(r) \in Keys /\ TypeOK /\ KeyInv(k) /\ request[r].at \in Time
      /\ Window[k] \in Nat /\ Limit[k] \in Nat /\ now \in Nat
  BY KeyOfIsKey, ConstantsAssumption DEF IInv, TypeOK, Request, Time
<1>2. CASE k # KeyOf(r)
  <2>1. /\ zset'[k] = zset[k] /\ deadline'[k] = deadline[k]
        /\ recorded'[k] = recorded[k] /\ admitted'[k] = admitted[k]
    BY <1>1, <1>2 DEF Record, TypeOK
  <2>2. Live(k)' = Live(k)
    BY <2>1 DEF Live
  <2>3. QED
    BY <1>1, <2>1, <2>2 DEF KeyInv
<1>3. CASE k = KeyOf(r)
  <2>1. /\ zset'[k] = Counted(r) /\ deadline'[k] = now + Window[k]
        /\ recorded'[k] = recorded[k] \union {request[r].at}
    BY <1>1, <1>3 DEF Record, TypeOK
  <2>2. /\ Counted(r) \subseteq Time /\ Live(k) \subseteq Counted(r)
        /\ Counted(r) \subseteq recorded[k] \union {request[r].at}
        /\ \A s \in Counted(r) : s <= now
    BY <1>3, CountedFacts
  <2>3. \A s \in Counted(r) : s + Window[k] <= now + Window[k]
    BY <1>1, <2>2 DEF Time
  <2>4. request[r].at \in Counted(r)
    BY DEF Counted
  <2>5. Live(k)' \subseteq Counted(r) /\ Cardinality(Live(k)') <= Limit[k]
    <3>1. CASE admitted'[k] = admitted[k]
      <4>1. Live(k)' = Live(k)
        BY <3>1 DEF Live
      <4>2. QED
        BY <1>1, <2>2, <4>1 DEF KeyInv
    <3>2. CASE /\ admitted'[k] = admitted[k] \union {request[r].at}
               /\ Cardinality(Counted(r)) <= Limit[k]
      <4>1. Live(k)' \subseteq Live(k) \union {request[r].at}
        BY <3>2 DEF Live
      <4>2. Live(k)' \subseteq Counted(r)
        BY <2>2, <2>4, <4>1
      <4>3. /\ Cardinality(Live(k)') <= Cardinality(Counted(r))
            /\ Cardinality(Live(k)') \in Nat /\ Cardinality(Counted(r)) \in Nat
        BY <2>2, <4>2, Readings
      <4>4. QED
        BY <1>1, <3>2, <4>2, <4>3
    <3>3. QED
      BY <1>3, <3>1, <3>2
  <2>6. QED
    BY <2>1, <2>2, <2>3, <2>5 DEF KeyInv
<1>4. QED
  BY <1>2, <1>3

(* The other slots are as they were, and more is recorded.                  *)
LEMMA RecordSlots ==
    ASSUME IInv, NEW r \in Requests, Record(r), now' = now,
           NEW p \in Requests, request'[p] = request[p]
    PROVE  SlotInv(p)'
<1>1. TypeOK /\ SlotInv(p) /\ KeyOf(p) \in Keys /\ now \in Int
  BY KeyOfIsKey DEF IInv, TypeOK, Time
<1>2. recorded[KeyOf(p)] \subseteq recorded'[KeyOf(p)] /\ recorded'[KeyOf(p)] \subseteq Time
  BY <1>1, RecordTypes
<1>3. QED
  BY <1>1, <1>2, SlotKept

(* The pipeline answers True, or its answer is lost.                        *)
LEMMA PipelinePasses ==
    ASSUME IInv, NEW r \in Requests, Admit(r) \/ AnswerLost(r)
    PROVE  IInv'
<1>1. Record(r) /\ now' = now /\ TypeOK /\ KeyOf(r) \in Keys
      /\ request[r].at \in Time /\ now \in Time /\ now \in Nat
  BY KeyOfIsKey DEF Admit, AnswerLost, IInv, TypeOK, Request, Time
<1>2. PICK q \in Request : /\ request' = [request EXCEPT ![r] = q]
                           /\ q.pc # "refused" /\ q.at = 0
  BY <1>1, PassedOrOpened DEF Admit, AnswerLost
<1>3. /\ admitted' \in [Keys -> SUBSET Time]
      /\ \A k \in Keys \ {KeyOf(r)} : admitted'[k] = admitted[k]
      /\ \/ admitted'[KeyOf(r)] = admitted[KeyOf(r)]
         \/ /\ admitted'[KeyOf(r)] = admitted[KeyOf(r)] \union {request[r].at}
            /\ Cardinality(Counted(r)) <= Limit[KeyOf(r)]
  BY <1>1 DEF Admit, AnswerLost, TypeOK
<1>4. TypeOK'
  BY <1>1, <1>2, <1>3, RecordTypes DEF TypeOK
<1>5. ASSUME NEW k \in Keys PROVE KeyInv(k)'
  BY <1>1, <1>3, RecordKeys
<1>6. ASSUME NEW p \in Requests PROVE SlotInv(p)'
  <2>1. CASE p = r
    BY <1>1, <1>2, <2>1 DEF SlotInv, TypeOK
  <2>2. CASE p # r
    BY <1>1, <1>2, <2>2, RecordSlots DEF TypeOK
  <2>3. QED
    BY <2>1, <2>2
<1>7. QED
  BY <1>4, <1>5, <1>6 DEF IInv

(* The pipeline answers False: what it counted is on record.                *)
LEMMA PipelineRefuses ==
    ASSUME IInv, NEW r \in Requests, Refuse(r)
    PROVE  IInv'
<1>1. /\ Record(r) /\ now' = now /\ admitted' = admitted /\ TypeOK
      /\ KeyOf(r) \in Keys /\ Limit[KeyOf(r)] \in Nat
      /\ request[r] \in Request /\ request[r].at <= now
      /\ request' = [request EXCEPT ![r].pc = "refused"]
  BY KeyOfIsKey DEF Refuse, IInv, TypeOK, SlotInv
<1>2. TypeOK'
  <2>1. request' \in [Requests -> Request]
    BY <1>1 DEF TypeOK, Request
  <2>2. QED
    BY <1>1, <2>1, RecordTypes DEF TypeOK
<1>3. ASSUME NEW k \in Keys PROVE KeyInv(k)'
  BY <1>1, RecordKeys DEF TypeOK
<1>4. SlotInv(r)'
  <2>1. /\ request'[r].at = request[r].at /\ request'[r].tier = request[r].tier
        /\ request'[r].ip = request[r].ip /\ request'[r].key = request[r].key
        /\ request'[r].email = request[r].email
    BY <1>1 DEF TypeOK, Request
  <2>2. KeyOf(r)' = KeyOf(r)
    BY <2>1 DEF KeyOf
  <2>3. recorded'[KeyOf(r)] = recorded[KeyOf(r)] \union {request[r].at}
        /\ recorded'[KeyOf(r)] \subseteq Time
    BY <1>1, RecordTypes DEF Record, TypeOK
  <2>4. Counted(r) \subseteq Met(r)' /\ Met(r)' \subseteq Time
    BY <2>1, <2>2, <2>3, CountedFacts DEF Met
  <2>5. /\ Cardinality(Counted(r)) <= Cardinality(Met(r)')
        /\ Cardinality(Counted(r)) \in Nat /\ Cardinality(Met(r)') \in Nat
    BY <2>4, Readings
  <2>6. Cardinality(Counted(r)) > Limit[KeyOf(r)]
    BY DEF Refuse
  <2>7. Cardinality(Met(r)') > Limit[KeyOf(r)]
    BY <1>1, <2>5, <2>6
  <2>8. QED
    BY <1>1, <2>1, <2>2, <2>7 DEF SlotInv
<1>5. ASSUME NEW p \in Requests \ {r} PROVE SlotInv(p)'
  BY <1>1, RecordSlots DEF TypeOK
<1>6. QED
  BY <1>2, <1>3, <1>4, <1>5 DEF IInv

(* Time passes: readings leave the window, and a key that expires holds     *)
(* only such readings.                                                      *)
LEMMA TickInv ==
    ASSUME IInv, Tick
    PROVE  IInv'
<1>1. /\ TypeOK /\ now \in Nat /\ now' = now + 1 /\ now' \in Time
      /\ zset' = [k \in Keys |-> IF deadline[k] <= now + 1 THEN {} ELSE zset[k]]
      /\ UNCHANGED <<request, deadline, recorded, admitted>>
  BY ConstantsAssumption DEF Tick, IInv, TypeOK, Time, history
<1>2. TypeOK'
  <2>1. zset' \in [Keys -> SUBSET Time]
    BY <1>1 DEF TypeOK
  <2>2. \A k \in Keys : \A s \in zset'[k] : s <= now'
    BY <1>1 DEF TypeOK, Time
  <2>3. QED
    BY <1>1, <2>1, <2>2 DEF TypeOK
<1>3. ASSUME NEW k \in Keys PROVE KeyInv(k)'
  <2>1. /\ KeyInv(k) /\ Window[k] \in Nat /\ Limit[k] \in Nat
        /\ deadline[k] \in Nat /\ admitted[k] \subseteq Time
        /\ zset[k] \subseteq Time
    BY <1>1, ConstantsAssumption DEF IInv, TypeOK
  <2>2. Live(k)' \subseteq Live(k) /\ \A s \in Live(k)' : s + Window[k] > now + 1
    BY <1>1, <2>1 DEF Live, Time
  <2>3. Live(k)' \subseteq zset'[k]
    <3>1. CASE deadline[k] <= now + 1
      <4>1. \A s \in zset[k] : s + Window[k] <= now + 1
        BY <1>1, <2>1, <3>1 DEF KeyInv, Time
      <4>2. Live(k)' = {}
        BY <1>1, <2>1, <2>2, <4>1 DEF KeyInv, Time
      <4>3. QED
        BY <4>2
    <3>2. CASE ~(deadline[k] <= now + 1)
      BY <1>1, <2>1, <2>2, <3>2 DEF KeyInv
    <3>3. QED
      BY <3>1, <3>2
  <2>4. Live(k) \subseteq Time
    BY <2>1 DEF Live
  <2>5. /\ Cardinality(Live(k)') <= Cardinality(Live(k))
        /\ Cardinality(Live(k)') \in Nat /\ Cardinality(Live(k)) \in Nat
    BY <2>2, <2>4, Readings
  <2>6. Cardinality(Live(k)') <= Limit[k]
    BY <2>1, <2>5 DEF KeyInv
  <2>7. zset'[k] \subseteq zset[k]
    BY <1>1
  <2>8. QED
    BY <1>1, <2>1, <2>3, <2>6, <2>7 DEF KeyInv
<1>4. ASSUME NEW r \in Requests PROVE SlotInv(r)'
  <2>1. SlotInv(r) /\ KeyOf(r) \in Keys /\ recorded[KeyOf(r)] \subseteq Time
    BY <1>1, KeyOfIsKey DEF IInv, TypeOK
  <2>2. QED
    BY <1>1, <2>1, SlotKept
<1>5. QED
  BY <1>2, <1>3, <1>4 DEF IInv

-----------------------------------------------------------------------------
(* Every step keeps the invariant.                                          *)
LEMMA NextInv == IInv /\ [Next]_vars => IInv'
<1> SUFFICES ASSUME IInv, [Next]_vars PROVE IInv'
  OBVIOUS
<1>1. CASE Tick
  BY <1>1, TickInv
<1>2. ASSUME NEW r \in Requests, NewRequest(r) \/ LeaveEarly(r) \/ Check(r)
      PROVE  IInv'
  BY <1>2, LocalInv, PipelinePasses, PipelineRefuses DEF Check
<1>3. CASE UNCHANGED vars
  BY <1>3 DEF vars, history, IInv, TypeOK, KeyInv, Live, SlotInv, Met, KeyOf
<1>4. QED
  BY <1>1, <1>2, <1>3 DEF Next

(* The invariant that the theorems below rest on holds in every reachable   *)
(* state.                                                                   *)
THEOREM Invariance == Spec => []IInv
<1>1. Init => IInv
  BY InitInv
<1>2. IInv /\ [Next]_vars => IInv'
  BY NextInv
<1>3. QED
  BY <1>1, <1>2, PTL DEF Spec

(* The clock readings of the limiter are typed and never from the future.   *)
THEOREM TypeCorrect == Spec => []TypeOK
<1>1. IInv => TypeOK
  BY DEF IInv
<1>2. QED
  BY <1>1, Invariance, PTL

(* No tier ever lets more readings through per window than its limit, for   *)
(* every limit, window and number of concurrent calls.                      *)
THEOREM WindowIsBounded == Spec => []WindowBound
<1>1. IInv => WindowBound
  BY DEF IInv, KeyInv, Live, WindowBound
<1>2. QED
  BY <1>1, Invariance, PTL

(* Whoever is answered 429 was over the limit by what is on record.         *)
THEOREM RefusalsAreJustified == Spec => []RefusalIsJustified
<1>1. IInv => RefusalIsJustified
  BY DEF IInv, SlotInv, Met, RefusalIsJustified
<1>2. QED
  BY <1>1, Invariance, PTL

-----------------------------------------------------------------------------
(* ClientSdk: the inductive invariant.                                      *)

\* What an answer of this status, if it reaches its caller, says of the effects.
Warranted(status, effects) ==
    /\ status \in {401, 403, 422, 423, 429} => effects = {}
    /\ status = 410 /\ op = "otp.verify" => effects = {}
    /\ status = 400 => effects = {"counted", "compared"}
    /\ status = 200 /\ op = "otp.verify" => "consumed" \in effects
    /\ status = 200 /\ op \in {"otp.send", "magic.send"} => "stored" \in effects

\* What an SDK makes of it, whatever becomes of the body.
Outcomes(status) ==
    {TypedError(status, TRUE), TypedError(status, FALSE), "foreign"} \union
    (IF status = 200 /\ op # "magic.verify" THEN {"result"} ELSE {})

ServerInv(i) ==
    /\ call[i].server \in {"none", "arrived", "limits", "project", "save",
                           "lookup", "count"} => done[i] = {}
    /\ call[i].server \in {"limits", "project", "save", "mail"} =>
           op \in {"otp.send", "magic.send"}
    /\ At(i, "mail") => "stored" \in done[i]
    /\ At(i, "count") => op = "otp.verify" /\ call[i].read < MaxAttempts
    /\ At(i, "answered") => Warranted(call[i].status, done[i])

\* A call that its program has given up may still be running; any other that is
\* ended has read its answer, and the API is done with it.
ClientInv(i) ==
    /\ call[i].client = "unused" => At(i, "none")
    /\ ~Ended(i) =>
           call[i].outcome = "none" /\ call[i].remaining = 0 /\ ~call[i].given_up
    /\ call[i].client \in {"reading", "stalled"} => At(i, "answered")
    /\ At(i, "answered") => ~Ended(i)
    /\ call[i].given_up =>
           call[i].outcome \in {"MailGuardError", "foreign"} /\ call[i].remaining = 0
    /\ Ended(i) /\ ~call[i].given_up =>
           /\ At(i, "gone")
           /\ Warranted(call[i].status, done[i])
           /\ call[i].outcome \in Outcomes(call[i].status)

\* The program makes one call after the other.
InSequence ==
    \A i, j \in Calls : j < i /\ call[i].client # "unused" => Ended(j)

\* Calls of otp.verify that have found the code unconsumed, and not failed since.
Accepted(i) == call[i].outcome = "result" \/ (At(i, "answered") /\ call[i].status = 200)
Found(i) == call[i].server \in {"count", "consume"} \/ Accepted(i)

ResultInv ==
    op = "otp.verify" =>
        \A i \in Calls :
            /\ Accepted(i) => otp_record.is_invalidated
            /\ Found(i) => \A j \in Calls : j < i => call[j].outcome # "result"

ComparedBy(n) == {j \in Calls : j <= n /\ "compared" \in done[j]}
Compared == {j \in Calls : "compared" \in done[j]}
NoneGivenUp == \A i \in Calls : ~call[i].given_up

\* As long as no call is given up, attempt_count counts, and what an open call
\* knows of it is current.
CountInv ==
    NoneGivenUp =>
        /\ Cardinality(Compared) <= otp_record.attempt_count
        /\ \A i \in Calls :
              /\ At(i, "count") => call[i].read = otp_record.attempt_count
              /\ At(i, "answered") /\ call[i].status = 400 =>
                     Cardinality(ComparedBy(i)) <= call[i].read
              /\ call[i].remaining + Cardinality(ComparedBy(i)) <= MaxAttempts

SdkInv ==
    /\ SdkTypeOK
    /\ \A i \in Calls : ServerInv(i) /\ ClientInv(i)
    /\ InSequence
    /\ ResultInv
    /\ CountInv

-----------------------------------------------------------------------------
(* There are four methods, and calls have numbers, finitely many.           *)
LEMMA CallNumbers ==
    /\ Ops = {"otp.send", "otp.verify", "magic.send", "magic.verify"}
    /\ Calls \subseteq Nat \ {0} /\ IsFiniteSet(Calls)
    /\ \A i \in Calls : \A j \in 1..(i - 1) : j \in Calls
<1>1. /\ Ops = {"otp.send", "otp.verify", "magic.send", "magic.verify"}
      /\ \A o \in Ops : MaxCalls[o] \in Nat
  BY SdkConstants DEF Ops
<1>2. Calls = 1..MaxCalls["otp.send"] \union 1..MaxCalls["otp.verify"]
              \union 1..MaxCalls["magic.send"] \union 1..MaxCalls["magic.verify"]
  BY <1>1 DEF Calls
<1>3. ASSUME NEW o \in Ops PROVE IsFiniteSet(1..MaxCalls[o])
  <2>1. MaxCalls[o] \in Int
    BY <1>1
  <2>2. QED
    BY <2>1, FS_Interval
<1>4. IsFiniteSet(Calls)
  <2>1. IsFiniteSet(1..MaxCalls["otp.send"] \union 1..MaxCalls["otp.verify"])
    BY <1>1, <1>3, FS_Union
  <2>2. IsFiniteSet(1..MaxCalls["otp.send"] \union 1..MaxCalls["otp.verify"]
                    \union 1..MaxCalls["magic.send"])
    BY <2>1, <1>1, <1>3, FS_Union
  <2>3. QED
    BY <2>2, <1>1, <1>2, <1>3, FS_Union
<1>5. QED
  BY <1>1, <1>2, <1>4

(* The number of calls of a kind is a natural number, and grows with them.  *)
LEMMA Counting ==
    ASSUME NEW S \in SUBSET Calls, NEW T \in SUBSET S
    PROVE  /\ IsFiniteSet(S) /\ Cardinality(S) \in Nat
           /\ Cardinality(T) \in Nat /\ Cardinality(T) <= Cardinality(S)
<1>1. IsFiniteSet(S)
  BY CallNumbers, FS_Subset
<1>2. IsFiniteSet(T) /\ Cardinality(T) <= Cardinality(S)
  BY <1>1, FS_Subset
<1>3. QED
  BY <1>1, <1>2, FS_CardinalityType

(* Nothing has been called yet.                                             *)
LEMMA SdkInitInv == SdkInit => SdkInv
<1> SUFFICES ASSUME SdkInit PROVE SdkInv
  OBVIOUS
<1>1. \A i \in Calls : call[i] = Unused /\ done[i] = {}
  BY DEF SdkInit
<1>2. Unused \in Call
  BY SdkConstants DEF Unused, Call
<1>3. SdkTypeOK
  <2>1. call \in [Calls -> Call] /\ done \in [Calls -> SUBSET Effects]
    BY <1>2 DEF SdkInit
  <2>2. otp_record \in [attempt_count : 0..MaxAttempts, is_invalidated : BOOLEAN]
    BY SdkConstants DEF SdkInit
  <2>3. QED
    BY <2>1, <2>2 DEF SdkInit, SdkTypeOK
<1>4. \A i \in Calls : ServerInv(i) /\ ClientInv(i)
  BY <1>1 DEF ServerInv, ClientInv, At, Ended, Unused
<1>5. InSequence
  BY <1>1 DEF InSequence, Unused
<1>6. ResultInv
  BY <1>1 DEF ResultInv, Accepted, Found, At, Unused
<1>7. CountInv
  <2>1. Compared = {} /\ \A i \in Calls : ComparedBy(i) = {}
    BY <1>1 DEF Compared, ComparedBy
  <2>2. Cardinality({}) = 0 /\ otp_record.attempt_count = 0
    BY FS_EmptySet DEF SdkInit
  <2>3. QED
    BY <1>1, <2>1, <2>2, SdkConstants DEF CountInv, At, Unused
<1>8. QED
  BY <1>3, <1>4, <1>5, <1>6, <1>7 DEF SdkInv

-----------------------------------------------------------------------------
(* What a step that is about one call must leave alone.                     *)

(* Both ends of the other calls stay as they are.                           *)
LEMMA OneCall ==
    ASSUME SdkInv, NEW i \in Calls, UNCHANGED op,
           \A j \in Calls \ {i} : call'[j] = call[j] /\ done'[j] = done[j],
           ServerInv(i)', ClientInv(i)'
    PROVE  \A j \in Calls : ServerInv(j)' /\ ClientInv(j)'
<1> SUFFICES ASSUME NEW j \in Calls \ {i} PROVE ServerInv(j)' /\ ClientInv(j)'
  OBVIOUS
<1>1. ServerInv(j) /\ ClientInv(j) /\ call'[j] = call[j] /\ done'[j] = done[j]
  BY DEF SdkInv
<1>2. ServerInv(j)'
  BY <1>1 DEF ServerInv, At, Warranted
<1>3. ClientInv(j)'
  <2>1. Outcomes(call[j].status)' = Outcomes(call[j].status)
    BY <1>1 DEF Outcomes, TypedError
  <2>2. Warranted(call[j].status, done[j])' <=> Warranted(call[j].status, done[j])
    BY <1>1 DEF Warranted
  <2>3. QED
    BY <1>1, <2>1, <2>2 DEF ClientInv, At, Ended
<1>4. QED
  BY <1>2, <1>3

(* Calls that are ended stay so, and only Begin starts one.                 *)
LEMMA SequenceKept ==
    ASSUME InSequence,
           \A j \in Calls : /\ Ended(j) => Ended(j)'
                            /\ call'[j].client # "unused" => call[j].client # "unused"
    PROVE  InSequence'
BY DEF InSequence, Ended

(* A code that was found unconsumed is found so before any result of it: a  *)
(* new result is that of a call not ended so far, and so of no earlier one. *)
LEMMA ResultKept ==
    ASSUME SdkInv, UNCHANGED op,
           op = "otp.verify" =>
               /\ otp_record.is_invalidated => otp_record'.is_invalidated
               /\ \A k \in Calls :
                     /\ Accepted(k)' => Accepted(k) \/ otp_record'.is_invalidated
                     /\ Found(k)' => \/ Found(k)
                                     \/ /\ ~otp_record.is_invalidated
                                        /\ \A j \in Calls :
                                              call'[j].outcome = call[j].outcome
                     /\ call'[k].outcome = "result" =>
                            call[k].outcome = "result" \/ ~Ended(k)
    PROVE  ResultInv'
<1> SUFFICES ASSUME op = "otp.verify", NEW k \in Calls
             PROVE  /\ Accepted(k)' => otp_record'.is_invalidated
                    /\ Found(k)' => \A j \in Calls : j < k => call'[j].outcome # "result"
  BY DEF ResultInv
<1>1. /\ Accepted(k) => otp_record.is_invalidated
      /\ Found(k) => \A j \in Calls : j < k => call[j].outcome # "result"
  BY DEF SdkInv, ResultInv
<1>2. ASSUME Found(k)', NEW j \in Calls, j < k, call'[j].outcome = "result"
      PROVE  FALSE
  <2>1. CASE Found(k)
    <3>1. call[k].client # "unused"
      BY <2>1 DEF SdkInv, ClientInv, Found, Accepted, At, Ended
    <3>2. Ended(j)
      BY <1>2, <3>1 DEF SdkInv, InSequence
    <3>3. QED
      BY <1>1, <1>2, <2>1, <3>2
  <2>2. CASE ~otp_record.is_invalidated /\ call'[j].outcome = call[j].outcome
    BY <1>2, <2>2 DEF SdkInv, ResultInv, Accepted
  <2>3. QED
    BY <1>2, <2>1, <2>2
<1>3. QED
  BY <1>1, <1>2

(* Nothing is counted or compared; what a program is told of its attempts   *)
(* is what the API has read.                                                *)
LEMMA CountKept ==
    ASSUME SdkInv, call' \in [Calls -> Call],
           otp_record'.attempt_count = otp_record.attempt_count,
           \A k \in Calls :
               /\ "compared" \in done'[k] <=> "compared" \in done[k]
               /\ call[k].given_up => call'[k].given_up
               /\ At(k, "count")' =>
                      \/ At(k, "count") /\ call'[k].read = call[k].read
                      \/ call'[k].read = otp_record.attempt_count
               /\ At(k, "answered")' /\ call'[k].status = 400 =>
                      /\ At(k, "answered") /\ call[k].status = 400
                      /\ call'[k].read = call[k].read
               /\ \/ call'[k].remaining <= call[k].remaining
                  \/ /\ At(k, "answered") /\ call[k].status = 400
                     /\ call'[k].remaining = MaxAttempts - call[k].read
    PROVE  CountInv'
<1> SUFFICES ASSUME NoneGivenUp' PROVE CountInv'
  BY DEF CountInv
<1>1. Compared' = Compared /\ \A k \in Calls : ComparedBy(k)' = ComparedBy(k)
  BY DEF Compared, ComparedBy
<1>2. NoneGivenUp
  BY DEF NoneGivenUp
<1>3. Cardinality(Compared)' <= otp_record'.attempt_count
  BY <1>1, <1>2 DEF SdkInv, CountInv
<1>4. ASSUME NEW k \in Calls
      PROVE  /\ At(k, "count")' => call'[k].read = otp_record'.attempt_count
             /\ At(k, "answered")' /\ call'[k].status = 400 =>
                    Cardinality(ComparedBy(k))' <= call'[k].read
             /\ call'[k].remaining + Cardinality(ComparedBy(k))' <= MaxAttempts
  <2>1. /\ At(k, "count") => call[k].read = otp_record.attempt_count
        /\ At(k, "answered") /\ call[k].status = 400 =>
               Cardinality(ComparedBy(k)) <= call[k].read
        /\ call[k].remaining + Cardinality(ComparedBy(k)) <= MaxAttempts
    BY <1>2 DEF SdkInv, CountInv
  <2>2. Cardinality(ComparedBy(k)) \in Nat
    BY Counting DEF ComparedBy
  <2>3. /\ call[k].read \in Nat /\ call[k].remaining \in Nat
        /\ call'[k].remaining \in Nat /\ MaxAttempts \in Nat
    BY SdkConstants DEF SdkInv, SdkTypeOK, Call
  <2>4. Cardinality(ComparedBy(k))' = Cardinality(ComparedBy(k))
    BY <1>1
  <2>5. QED
    BY <2>1, <2>2, <2>3, <2>4
<1>5. QED
  BY <1>3, <1>4 DEF CountInv

-----------------------------------------------------------------------------
(* Steps of the API.                                                        *)

Stages == {"arrived", "limits", "project", "save", "mail", "lookup", "count", "consume"}

\* What a step of call i does to done.
Done(i, es) ==
    /\ done' \in [Calls -> SUBSET Effects]
    /\ done'[i] = es /\ \A j \in Calls \ {i} : done'[j] = done[j]

LEMMA LeavesDone ==
    ASSUME SdkTypeOK, NEW i \in Calls, NEW es \in SUBSET Effects, Leaves(i, es)
    PROVE  Done(i, done[i] \union es)
BY DEF SdkTypeOK, Leaves, Done

LEMMA NothingDone ==
    ASSUME SdkTypeOK, NEW i \in Calls, UNCHANGED done
    PROVE  Done(i, done[i])
BY DEF SdkTypeOK, Done

\* The program's end of a call stays as it is.
SameProgram(i) ==
    /\ call'[i].client = call[i].client /\ call'[i].outcome = call[i].outcome
    /\ call'[i].remaining = call[i].remaining
    /\ call'[i].given_up = call[i].given_up

LEMMA GotoCall ==
    ASSUME SdkTypeOK, NEW i \in Calls, NEW label \in Stages, Goto(i, label)
    PROVE  /\ call' \in [Calls -> Call]
           /\ SameProgram(i)
           /\ call'[i].server = label
           /\ call'[i].status = call[i].status /\ call'[i].read = call[i].read
           /\ \A j \in Calls \ {i} : call'[j] = call[j]
<1>1. call[i] \in Call
  BY DEF SdkTypeOK
<1>2. [call[i] EXCEPT !.server = label] \in Call
  BY <1>1 DEF Call, Stages
<1>3. call' = [call EXCEPT ![i] = [call[i] EXCEPT !.server = label]]
  BY DEF Goto, SdkTypeOK
<1>4. call' \in [Calls -> Call] /\ call'[i] = [call[i] EXCEPT !.server = label]
  BY <1>2, <1>3 DEF SdkTypeOK
<1>5. QED
  BY <1>1, <1>3, <1>4 DEF SdkTypeOK, SameProgram, Call

LEMMA AnswerCall ==
    ASSUME SdkTypeOK, NEW i \in Calls, NEW s \in Statuses, NEW n \in 0..MaxAttempts,
           AnswerWith(i, s, n)
    PROVE  /\ call' \in [Calls -> Call]
           /\ SameProgram(i)
           /\ call'[i].server = IF Ended(i) THEN "gone" ELSE "answered"
           /\ call'[i].status = IF Ended(i) THEN 0 ELSE s
           /\ call'[i].read = IF Ended(i) THEN 0 ELSE n
           /\ \A j \in Calls \ {i} : call'[j] = call[j]
<1> DEFINE server == IF Ended(i) THEN "gone" ELSE "answered"
           status == IF Ended(i) THEN 0 ELSE s
           read == IF Ended(i) THEN 0 ELSE n
           c == [call[i] EXCEPT !.server = server, !.status = status, !.read = read]
<1>1. call[i] \in Call
  BY DEF SdkTypeOK
<1>2. /\ server \in {"answered", "gone"} /\ status \in Statuses \union {0}
      /\ read \in 0..MaxAttempts
  BY SdkConstants
<1>3. call' = [call EXCEPT ![i] = c]
  BY DEF AnswerWith, SdkTypeOK
<1> HIDE DEF server, status, read
<1>4. c \in Call
  BY <1>1, <1>2 DEF Call
<1>5. /\ c.client = call[i].client /\ c.outcome = call[i].outcome
      /\ c.remaining = call[i].remaining /\ c.given_up = call[i].given_up
      /\ c.server = server /\ c.status = status /\ c.read = read
  BY <1>1 DEF Call
<1>6. /\ call' \in [Calls -> Call] /\ call'[i] = c
      /\ \A j \in Calls \ {i} : call'[j] = call[j]
  BY <1>3, <1>4 DEF SdkTypeOK
<1>7. QED
  BY <1>5, <1>6 DEF SameProgram, server, status, read

(* A request that runs is one its program waits for, or has given up.       *)
LEMMA RunningCall ==
    ASSUME SdkInv, NEW i \in Calls, Running(i)
    PROVE  /\ call[i].client \in {"waiting", "ended"}
           /\ Ended(i) => call[i].given_up
<1>1. call[i] \in Call /\ ClientInv(i)
  BY DEF SdkInv, SdkTypeOK
<1>2. QED
  BY <1>1 DEF ClientInv, Running, At, Ended, Call

(* A request goes on to another stage.                                      *)
LEMMA GotoStep ==
    ASSUME SdkInv, NEW i \in Calls, Running(i), UNCHANGED op,
           NEW label \in Stages, Goto(i, label),
           NEW es \in SUBSET Effects, Done(i, es), ServerInv(i)'
    PROVE  (\A j \in Calls : ServerInv(j)' /\ ClientInv(j)') /\ InSequence'
<1>1. /\ SameProgram(i) /\ call'[i].server = label
      /\ \A j \in Calls \ {i} : call'[j] = call[j]
  BY GotoCall DEF SdkInv
<1>2. ClientInv(i)
  BY DEF SdkInv
<1>3. ClientInv(i)'
  BY <1>1, <1>2, RunningCall DEF ClientInv, At, Ended, SameProgram, Stages
<1>4. \A j \in Calls : ServerInv(j)' /\ ClientInv(j)'
  BY <1>1, <1>3, OneCall DEF Done
<1>5. \A j \in Calls : call'[j].client = call[j].client
  BY <1>1 DEF SameProgram
<1>6. InSequence'
  BY <1>5, SequenceKept DEF SdkInv, Ended
<1>7. QED
  BY <1>4, <1>6

(* A request is answered, and the answer is warranted by its effects.       *)
LEMMA AnswerStep ==
    ASSUME SdkInv, NEW i \in Calls, Running(i), UNCHANGED op,
           NEW s \in Statuses, NEW n \in 0..MaxAttempts, AnswerWith(i, s, n),
           NEW es \in SUBSET Effects, Done(i, es), Warranted(s, es)
    PROVE  (\A j \in Calls : ServerInv(j)' /\ ClientInv(j)') /\ InSequence'
<1>1. /\ SameProgram(i)
      /\ call'[i].server = IF Ended(i) THEN "gone" ELSE "answered"
      /\ call'[i].status = IF Ended(i) THEN 0 ELSE s
      /\ \A j \in Calls \ {i} : call'[j] = call[j]
  BY AnswerCall DEF SdkInv
<1>2. ClientInv(i)
  BY DEF SdkInv
<1>3. ServerInv(i)'
  <2>1. Warranted(s, es)' <=> Warranted(s, es)
    BY DEF Warranted
  <2>2. done'[i] = es
    BY DEF Done
  <2>3. QED
    BY <1>1, <2>1, <2>2 DEF ServerInv, At
<1>4. ClientInv(i)'
  BY <1>1, <1>2, RunningCall DEF ClientInv, At, Ended, SameProgram
<1>5. \A j \in Calls : ServerInv(j)' /\ ClientInv(j)'
  BY <1>1, <1>3, <1>4, OneCall DEF Done
<1>6. \A j \in Calls : call'[j].client = call[j].client
  BY <1>1 DEF SameProgram
<1>7. InSequence'
  BY <1>6, SequenceKept DEF SdkInv, Ended
<1>8. QED
  BY <1>5, <1>7

(* A request goes on without having read, counted or compared anything.     *)
LEMMA QuietGoto ==
    ASSUME SdkInv, NEW i \in Calls, Running(i),
           UNCHANGED <<sdk, op, otp_record, is_used>>,
           NEW label \in Stages \ {"count"}, Goto(i, label),
           op = "otp.verify" => label # "consume",
           NEW es \in SUBSET Effects, Done(i, es), ServerInv(i)',
           "compared" \in es <=> "compared" \in done[i]
    PROVE  SdkInv'
<1>1. /\ call' \in [Calls -> Call] /\ SameProgram(i) /\ call'[i].server = label
      /\ \A j \in Calls \ {i} : call'[j] = call[j]
  BY GotoCall DEF SdkInv
<1>2. (\A j \in Calls : ServerInv(j)' /\ ClientInv(j)') /\ InSequence'
  BY GotoStep
<1>3. label # "answered"
  BY DEF Stages
<1>4. ResultInv'
  <2>1. SUFFICES ASSUME op = "otp.verify" PROVE ResultInv'
    BY DEF ResultInv
  <2>2. \A k \in Calls : /\ call'[k].outcome = call[k].outcome
                         /\ Accepted(k)' => Accepted(k)
                         /\ Found(k)' => Found(k)
    BY <1>1, <1>3, <2>1 DEF Accepted, Found, At, SameProgram
  <2>3. QED
    BY <2>2, ResultKept
<1>5. CountInv'
  <2>1. ASSUME NEW k \in Calls
        PROVE  /\ "compared" \in done'[k] <=> "compared" \in done[k]
               /\ call[k].given_up => call'[k].given_up
               /\ At(k, "count")' => At(k, "count") /\ call'[k].read = call[k].read
               /\ At(k, "answered")' /\ call'[k].status = 400 =>
                      /\ At(k, "answered") /\ call[k].status = 400
                      /\ call'[k].read = call[k].read
               /\ call'[k].remaining <= call[k].remaining
    <3>1. call[k].remaining \in Nat /\ call'[k].remaining = call[k].remaining
      BY <1>1, SdkConstants DEF SdkInv, SdkTypeOK, Call, SameProgram
    <3>2. CASE k = i
      BY <1>1, <1>3, <3>1, <3>2 DEF At, SameProgram, Done
    <3>3. CASE k # i
      BY <1>1, <3>1, <3>3 DEF At, Done
    <3>4. QED
      BY <3>2, <3>3
  <2>2. QED
    BY <1>1, <2>1, CountKept
<1>6. SdkTypeOK'
  BY <1>1 DEF SdkInv, SdkTypeOK, Done
<1>7. QED
  BY <1>2, <1>4, <1>5, <1>6 DEF SdkInv

(* An answer that says nothing of attempts, and is no result of a code that *)
(* would still be unconsumed.                                               *)
LEMMA QuietAnswer ==
    ASSUME SdkInv, NEW i \in Calls, Running(i), UNCHANGED <<sdk, op>>,
           is_used' \in BOOLEAN,
           otp_record' \in [attempt_count : 0..MaxAttempts, is_invalidated : BOOLEAN],
           NEW s \in Statuses \ {400}, Answer(i, s),
           NEW es \in SUBSET Effects, Done(i, es), Warranted(s, es),
           "compared" \in es <=> "compared" \in done[i],
           otp_record'.attempt_count = otp_record.attempt_count,
           otp_record.is_invalidated => otp_record'.is_invalidated,
           op = "otp.verify" /\ s = 200 =>
               At(i, "consume") /\ otp_record'.is_invalidated
    PROVE  SdkInv'
<1> 0 \in 0..MaxAttempts
  BY SdkConstants
<1>1. /\ call' \in [Calls -> Call] /\ SameProgram(i)
      /\ call'[i].server \in {"gone", "answered"} /\ call'[i].status \in {0, s}
      /\ \A j \in Calls \ {i} : call'[j] = call[j]
  BY AnswerCall DEF SdkInv, Answer
<1>2. (\A j \in Calls : ServerInv(j)' /\ ClientInv(j)') /\ InSequence'
  BY AnswerStep DEF Answer
<1>3. ResultInv'
  <2>1. SUFFICES ASSUME op = "otp.verify" PROVE ResultInv'
    BY DEF ResultInv
  <2>2. ASSUME NEW k \in Calls
        PROVE  /\ call'[k].outcome = call[k].outcome
               /\ Accepted(k)' => Accepted(k) \/ otp_record'.is_invalidated
               /\ Found(k)' => Found(k)
    <3>1. CASE k = i
      BY <1>1, <2>1, <3>1 DEF Accepted, Found, At, SameProgram
    <3>2. CASE k # i
      BY <1>1, <3>2 DEF Accepted, Found, At
    <3>3. QED
      BY <3>1, <3>2
  <2>3. QED
    BY <2>2, ResultKept
<1>4. CountInv'
  <2>1. ASSUME NEW k \in Calls
        PROVE  /\ "compared" \in done'[k] <=> "compared" \in done[k]
               /\ call[k].given_up => call'[k].given_up
               /\ At(k, "count")' => At(k, "count") /\ call'[k].read = call[k].read
               /\ At(k, "answered")' /\ call'[k].status = 400 =>
                      /\ At(k, "answered") /\ call[k].status = 400
                      /\ call'[k].read = call[k].read
               /\ call'[k].remaining <= call[k].remaining
    <3>1. call[k].remaining \in Nat /\ call'[k].remaining = call[k].remaining
      BY <1>1, SdkConstants DEF SdkInv, SdkTypeOK, Call, SameProgram
    <3>2. CASE k = i
      BY <1>1, <3>1, <3>2 DEF At, SameProgram, Done
    <3>3. CASE k # i
      BY <1>1, <3>1, <3>3 DEF At, Done
    <3>4. QED
      BY <3>2, <3>3
  <2>2. QED
    BY <1>1, <2>1, CountKept
<1>5. SdkTypeOK'
  BY <1>1 DEF SdkInv, SdkTypeOK, Done
<1>6. QED
  BY <1>2, <1>3, <1>4, <1>5 DEF SdkInv

(* A request on its way through middleware, key and limits has no effect,   *)
(* so that every answer it may get is warranted.                            *)
LEMMA RouteInv ==
    ASSUME SdkInv, NEW i \in Calls, EnterRoute(i) \/ CheckLimits(i) \/ GetProject(i)
    PROVE  SdkInv'
<1>1. /\ call[i].server \in {"arrived", "limits", "project"} /\ Running(i)
      /\ UNCHANGED <<sdk, op, otp_record, is_used, done>>
  BY DEF EnterRoute, CheckLimits, GetProject, At, Running
<1>2. done[i] = {} /\ Done(i, {}) /\ {} \in SUBSET Effects /\ "compared" \notin {}
  <2>1. done[i] = {}
    BY <1>1 DEF SdkInv, ServerInv
  <2>2. QED
    BY <1>1, <2>1, NothingDone DEF SdkInv
<1>3. ASSUME NEW s \in {401, 403, 422, 429, 500, 503}, Answer(i, s)
      PROVE  SdkInv'
  <2>1. s \in Statuses \ {400} /\ Warranted(s, {}) /\ s # 200
    BY DEF Statuses, Warranted
  <2>2. /\ is_used' \in BOOLEAN
        /\ otp_record' \in [attempt_count : 0..MaxAttempts, is_invalidated : BOOLEAN]
    BY <1>1 DEF SdkInv, SdkTypeOK
  <2>3. QED
    BY <1>1, <1>2, <1>3, <2>1, <2>2, QuietAnswer
<1>4. ASSUME NEW label \in {"limits", "project", "save", "lookup"}, Goto(i, label),
             op \in {"otp.send", "magic.send"} \/ label = "lookup"
      PROVE  SdkInv'
  <2>1. label \in Stages \ {"count"} /\ label # "consume"
    BY DEF Stages
  <2>2. ServerInv(i)'
    <3>1. call'[i].server = label
      BY <2>1, <1>4, GotoCall DEF SdkInv
    <3>2. QED
      BY <1>1, <1>2, <1>4, <3>1 DEF ServerInv, At
  <2>3. QED
    BY <1>1, <1>2, <1>4, <2>1, <2>2, QuietGoto
<1>5. op \in Ops /\ (call[i].server \in {"limits", "project"} =>
                         op \in {"otp.send", "magic.send"})
  BY DEF SdkInv, SdkTypeOK, ServerInv
<1>6. CASE EnterRoute(i)
  BY <1>3, <1>4, <1>6 DEF EnterRoute, AnswerOneOf
<1>7. CASE CheckLimits(i)
  BY <1>3, <1>4, <1>5, <1>7 DEF CheckLimits, At
<1>8. CASE GetProject(i)
  BY <1>3, <1>4, <1>5, <1>8 DEF GetProject, At
<1>9. QED
  BY <1>6, <1>7, <1>8

(* The sending routes: what is answered 200 is stored.                      *)
LEMMA SendInv ==
    ASSUME SdkInv, NEW i \in Calls, Save(i) \/ EnqueueMail(i)
    PROVE  SdkInv'
<1>1. /\ call[i].server \in {"save", "mail"} /\ Running(i)
      /\ UNCHANGED <<sdk, op, otp_record, is_used>>
  BY DEF Save, EnqueueMail, At, Running
<1>2. /\ op \in {"otp.send", "magic.send"} /\ done[i] \in SUBSET Effects
      /\ At(i, "mail") => "stored" \in done[i]
      /\ is_used' \in BOOLEAN
      /\ otp_record' \in [attempt_count : 0..MaxAttempts, is_invalidated : BOOLEAN]
  BY <1>1 DEF SdkInv, SdkTypeOK, ServerInv
<1>3. ASSUME NEW es \in SUBSET {"stored", "queued"}, Leaves(i, es),
             NEW s \in {200, 500, 503}, Answer(i, s),
             s = 200 => "stored" \in done[i]
      PROVE  SdkInv'
  <2>1. s \in Statuses \ {400} /\ Warranted(s, done[i] \union es)
    BY <1>2, <1>3 DEF Statuses, Warranted
  <2>2. /\ es \in SUBSET Effects /\ done[i] \union es \in SUBSET Effects
        /\ "compared" \in done[i] \union es <=> "compared" \in done[i]
    <3>1. "compared" \notin es
      OBVIOUS
    <3>2. es \in SUBSET Effects
      BY DEF Effects
    <3>3. QED
      BY <1>2, <3>1, <3>2
  <2>3. Done(i, done[i] \union es)
    BY <1>3, <2>2, LeavesDone DEF SdkInv
  <2>4. QED
    BY <1>1, <1>2, <1>3, <2>1, <2>2, <2>3, QuietAnswer
<1>4. CASE Save(i) /\ Goto(i, "mail") /\ Leaves(i, {"stored"})
  <2>1. "mail" \in Stages \ {"count"} /\ {"stored"} \in SUBSET Effects
    BY DEF Stages, Effects
  <2>2. /\ done[i] \union {"stored"} \in SUBSET Effects
        /\ "compared" \in done[i] \union {"stored"} <=> "compared" \in done[i]
    BY <1>2, <2>1
  <2>3. Done(i, done[i] \union {"stored"})
    BY <1>4, <2>1, LeavesDone DEF SdkInv
  <2>4. ServerInv(i)'
    <3>1. call'[i].server = "mail"
      BY <2>1, <1>4, GotoCall DEF SdkInv
    <3>2. QED
      BY <1>1, <1>2, <2>3, <3>1 DEF ServerInv, At, Done
  <2>5. QED
    BY <1>1, <1>2, <1>4, <2>1, <2>2, <2>3, <2>4, QuietGoto
<1>5. CASE Save(i) /\ Answer(i, 503)
  BY <1>3, <1>5 DEF Save
<1>6. CASE EnqueueMail(i)
  BY <1>2, <1>3, <1>6 DEF EnqueueMail
<1>7. QED
  BY <1>4, <1>5, <1>6 DEF Save

(* A step that changes nothing but its answer.                              *)
LEMMA PlainAnswer ==
    ASSUME SdkInv, NEW i \in Calls, Running(i),
           UNCHANGED <<sdk, op, otp_record, is_used, done>>,
           NEW s \in Statuses \ {200, 400}, Answer(i, s), Warranted(s, done[i])
    PROVE  SdkInv'
<1>1. done[i] \in SUBSET Effects /\ Done(i, done[i])
  BY NothingDone DEF SdkInv, SdkTypeOK
<1>2. /\ is_used' \in BOOLEAN
      /\ otp_record' \in [attempt_count : 0..MaxAttempts, is_invalidated : BOOLEAN]
  BY DEF SdkInv, SdkTypeOK
<1>3. QED
  BY <1>1, <1>2, QuietAnswer

(* While no call is given up, at most one is in the API.                    *)
LEMMA OneOpen ==
    ASSUME SdkInv, NoneGivenUp, NEW i \in Calls, NEW j \in Calls,
           call[i].server \notin {"none", "gone"}, call[j].server \notin {"none", "gone"}
    PROVE  i = j /\ ~Ended(i)
<1>1. \A k \in {i, j} : ~Ended(k) /\ call[k].client # "unused"
  BY DEF SdkInv, NoneGivenUp, ClientInv, At
<1>2. ~(i < j) /\ ~(j < i)
  BY <1>1 DEF SdkInv, InSequence
<1>3. QED
  BY <1>1, <1>2, CallNumbers

(* The update that counts: the count it writes is the last one plus one,    *)
(* which bounds the comparisons, the one it may make among them.            *)
LEMMA CountedInv ==
    ASSUME SdkInv, NEW i \in Calls, At(i, "count"), SameProgram(i),
           \A j \in Calls \ {i} : call'[j] = call[j] /\ done'[j] = done[j],
           call'[i].server # "count",
           At(i, "answered")' /\ call'[i].status = 400 => call'[i].read = call[i].read + 1,
           otp_record'.attempt_count = call[i].read + 1
    PROVE  CountInv'
<1> SUFFICES ASSUME NoneGivenUp' PROVE CountInv'
  BY DEF CountInv
<1>1. NoneGivenUp
  BY DEF NoneGivenUp, SameProgram
<1>2. /\ call[i].read = otp_record.attempt_count
      /\ call[i].read < MaxAttempts /\ call[i].read \in Nat /\ MaxAttempts \in Nat
  BY <1>1, SdkConstants DEF SdkInv, CountInv, ServerInv, SdkTypeOK, Call
<1>3. Cardinality(Compared)' <= call[i].read + 1 /\ Cardinality(Compared)' \in Nat
  <2>1. Compared' \subseteq Compared \union {i}
    BY DEF Compared
  <2>2. /\ IsFiniteSet(Compared) /\ Cardinality(Compared) \in Nat
        /\ IsFiniteSet(Compared \union {i})
        /\ Cardinality(Compared \union {i}) <= Cardinality(Compared) + 1
        /\ Cardinality(Compared \union {i}) \in Nat
    <3>1. IsFiniteSet(Compared) /\ Cardinality(Compared) \in Nat
      BY Counting DEF Compared
    <3>2. /\ IsFiniteSet(Compared \union {i})
          /\ \/ Cardinality(Compared \union {i}) = Cardinality(Compared)
             \/ Cardinality(Compared \union {i}) = Cardinality(Compared) + 1
      BY <3>1, FS_AddElement
    <3>3. QED
      BY <3>1, <3>2
  <2>3. Cardinality(Compared) <= call[i].read
    BY <1>1, <1>2 DEF SdkInv, CountInv
  <2>4. Cardinality(Compared') <= Cardinality(Compared \union {i})
        /\ Cardinality(Compared') \in Nat
    BY <2>1, <2>2, FS_Subset, FS_CardinalityType
  <2>5. QED
    BY <1>2, <2>2, <2>3, <2>4
<1>4. ASSUME NEW k \in Calls
      PROVE  /\ Cardinality(ComparedBy(k))' \in Nat
             /\ Cardinality(ComparedBy(k))' <= call[i].read + 1
  <2>1. ComparedBy(k)' \subseteq Compared' /\ Compared' \subseteq Calls
    BY DEF ComparedBy, Compared
  <2>2. Cardinality(ComparedBy(k)') <= Cardinality(Compared')
        /\ Cardinality(ComparedBy(k)') \in Nat
    BY <2>1, Counting
  <2>3. QED
    BY <1>2, <1>3, <2>2
<1>5. ~Ended(i) /\ \A k \in Calls \ {i} : call[k].server \in {"none", "gone"}
  BY <1>1, OneOpen DEF At
<1>6. ASSUME NEW k \in Calls
      PROVE  /\ At(k, "count")' => call'[k].read = otp_record'.attempt_count
             /\ At(k, "answered")' /\ call'[k].status = 400 =>
                    Cardinality(ComparedBy(k))' <= call'[k].read
             /\ call'[k].remaining + Cardinality(ComparedBy(k))' <= MaxAttempts
  <2>1. At(k, "count")' => call'[k].read = otp_record'.attempt_count
    BY <1>5 DEF At
  <2>2. At(k, "answered")' /\ call'[k].status = 400 =>
            Cardinality(ComparedBy(k))' <= call'[k].read
    BY <1>4, <1>5 DEF At
  <2>3. call'[k].remaining = call[k].remaining
    BY DEF SameProgram
  <2>4. CASE ~Ended(k)
    <3>1. call[k].remaining = 0
      BY <2>4 DEF SdkInv, ClientInv
    <3>2. QED
      BY <1>2, <1>4, <2>1, <2>2, <2>3, <3>1
  <2>5. CASE Ended(k)
    <3>1. k # i /\ ~(i < k)
      BY <1>5, <2>5 DEF SdkInv, InSequence, Ended
    <3>2. ComparedBy(k)' = ComparedBy(k)
      BY <3>1, CallNumbers DEF ComparedBy
    <3>3. QED
      BY <1>1, <2>1, <2>2, <2>3, <3>2 DEF SdkInv, CountInv
  <2>6. QED
    BY <2>1, <2>2, <2>4, <2>5
<1>7. QED
  BY <1>2, <1>3, <1>6 DEF CountInv

(* The lookup finds the code unconsumed and its count below the limit, or   *)
(* answers without effect.                                                  *)
LEMMA LookupInv ==
    ASSUME SdkInv, NEW i \in Calls, LookupOtp(i) \/ LookupLink(i)
    PROVE  SdkInv'
<1>1. /\ At(i, "lookup") /\ Running(i)
      /\ UNCHANGED <<sdk, op, otp_record, is_used, done>>
  BY DEF LookupOtp, LookupLink, At, Running
<1>2. done[i] = {} /\ Done(i, {}) /\ {} \in SUBSET Effects
  <2>1. done[i] = {}
    BY <1>1 DEF SdkInv, ServerInv, At
  <2>2. QED
    BY <1>1, <2>1, NothingDone DEF SdkInv
<1>3. ASSUME NEW s \in {410, 423, 500, 503}, Answer(i, s) PROVE SdkInv'
  <2>1. s \in Statuses \ {200, 400} /\ Warranted(s, {})
    BY DEF Statuses, Warranted
  <2>2. QED
    BY <1>1, <1>2, <1>3, <2>1, PlainAnswer
<1>4. CASE /\ op = "otp.verify" /\ ~otp_record.is_invalidated
           /\ otp_record.attempt_count < MaxAttempts
           /\ call' = [call EXCEPT ![i].server = "count",
                                   ![i].read = otp_record.attempt_count]
  <2> DEFINE n == otp_record.attempt_count
             c == [call[i] EXCEPT !.server = "count", !.read = n]
  <2>1. call[i] \in Call /\ n \in 0..MaxAttempts
    BY DEF SdkInv, SdkTypeOK
  <2>2. call' = [call EXCEPT ![i] = c]
    BY <1>4 DEF SdkInv, SdkTypeOK
  <2> HIDE DEF n
  <2>3. /\ c \in Call /\ c.client = call[i].client /\ c.outcome = call[i].outcome
        /\ c.remaining = call[i].remaining /\ c.given_up = call[i].given_up
        /\ c.server = "count" /\ c.read = n
    BY <2>1 DEF Call
  <2>4. /\ call' \in [Calls -> Call] /\ call'[i] = c
        /\ \A j \in Calls \ {i} : call'[j] = call[j]
    BY <2>2, <2>3 DEF SdkInv, SdkTypeOK
  <2>5. /\ SameProgram(i) /\ call'[i].server = "count" /\ call'[i].read = n
        /\ \A j \in Calls \ {i} : call'[j] = call[j]
    BY <2>3, <2>4 DEF SameProgram
  <2>6. ServerInv(i)'
    BY <1>1, <1>2, <1>4, <2>5 DEF ServerInv, At, n
  <2>7. ClientInv(i)'
    <3>1. ClientInv(i)
      BY DEF SdkInv
    <3>2. QED
      BY <1>1, <2>5, <3>1, RunningCall DEF ClientInv, At, Ended, SameProgram
  <2>8. \A j \in Calls : ServerInv(j)' /\ ClientInv(j)'
    BY <1>1, <2>5, <2>6, <2>7, OneCall
  <2>9. InSequence'
    <3>1. \A j \in Calls : call'[j].client = call[j].client
      BY <2>5 DEF SameProgram
    <3>2. QED
      BY <3>1, SequenceKept DEF SdkInv, Ended
  <2>10. ResultInv'
    <3>1. ASSUME NEW k \in Calls
          PROVE  call'[k].outcome = call[k].outcome /\ (Accepted(k)' => Accepted(k))
      BY <2>5 DEF Accepted, At, SameProgram
    <3>2. QED
      BY <1>1, <1>4, <3>1, ResultKept
  <2>11. CountInv'
    <3>1. ASSUME NEW k \in Calls
          PROVE  /\ call[k].given_up => call'[k].given_up
                 /\ At(k, "count")' =>
                        \/ At(k, "count") /\ call'[k].read = call[k].read
                        \/ call'[k].read = otp_record.attempt_count
                 /\ At(k, "answered")' /\ call'[k].status = 400 =>
                        /\ At(k, "answered") /\ call[k].status = 400
                        /\ call'[k].read = call[k].read
                 /\ call'[k].remaining <= call[k].remaining
      <4>1. call[k].remaining \in Nat /\ call'[k].remaining = call[k].remaining
        BY <2>5, SdkConstants DEF SdkInv, SdkTypeOK, Call, SameProgram
      <4>2. CASE k = i
        BY <2>5, <4>1, <4>2 DEF At, SameProgram, n
      <4>3. CASE k # i
        BY <2>5, <4>1, <4>3 DEF At
      <4>4. QED
        BY <4>2, <4>3
    <3>2. QED
      BY <1>1, <2>4, <3>1, CountKept
  <2>12. QED
    BY <1>1, <2>4, <2>8, <2>9, <2>10, <2>11 DEF SdkInv, SdkTypeOK
<1>5. CASE LookupLink(i) /\ Goto(i, "consume")
  <2>1. "consume" \in Stages \ {"count"} /\ op # "otp.verify"
    BY <1>5 DEF Stages, LookupLink
  <2>2. ServerInv(i)'
    <3>1. call'[i].server = "consume"
      BY <1>5, <2>1, GotoCall DEF SdkInv
    <3>2. QED
      BY <3>1 DEF ServerInv, At
  <2>3. QED
    BY <1>1, <1>2, <1>5, <2>1, <2>2, QuietGoto
<1>6. CASE LookupLink(i)
  BY <1>3, <1>5, <1>6 DEF LookupLink, AnswerOneOf
<1>7. CASE LookupOtp(i)
  <2>1. otp_record.attempt_count \in Int /\ MaxAttempts \in Int
    BY SdkConstants DEF SdkInv, SdkTypeOK
  <2>2. QED
    BY <1>3, <1>4, <1>7, <2>1 DEF LookupOtp, AnswerOneOf
<1>8. QED
  BY <1>6, <1>7

(* Whatever becomes of the update that counts and of the comparison.        *)
LEMMA CountInvKept ==
    ASSUME SdkInv, NEW i \in Calls, CountAttempt(i) \/ CountRaises(i)
    PROVE  SdkInv'
<1>1. /\ At(i, "count") /\ Running(i) /\ UNCHANGED <<sdk, op, is_used>>
      /\ op = "otp.verify" /\ done[i] = {}
      /\ call[i].read < MaxAttempts /\ call[i].read \in Nat
      /\ call[i].read + 1 \in 0..MaxAttempts /\ 0 \in 0..MaxAttempts
  <2>1. At(i, "count") /\ Running(i) /\ UNCHANGED <<sdk, op, is_used>>
    BY DEF CountAttempt, CountRaises, At, Running
  <2>2. op = "otp.verify" /\ done[i] = {} /\ call[i].read < MaxAttempts
    BY <2>1 DEF SdkInv, ServerInv, At
  <2>3. call[i].read \in Nat /\ MaxAttempts \in Nat
    BY SdkConstants DEF SdkInv, SdkTypeOK, Call
  <2>4. QED
    BY <2>1, <2>2, <2>3
<1>2. CASE CountRaises(i) /\ UNCHANGED <<otp_record, done>>
  <2>1. 503 \in Statuses \ {200, 400} /\ Warranted(503, done[i])
    BY DEF Statuses, Warranted
  <2>2. QED
    BY <1>1, <1>2, <2>1, PlainAnswer DEF CountRaises
<1>3. ASSUME otp_record' = [otp_record EXCEPT !.attempt_count = call[i].read + 1],
             NEW es \in SUBSET {"counted", "compared"}, Leaves(i, es),
             \/ Goto(i, "consume")
             \/ AnswerWith(i, 400, call[i].read + 1) /\ es = {"counted", "compared"}
             \/ Answer(i, 503)
      PROVE  SdkInv'
  <2>1. /\ otp_record' \in [attempt_count : 0..MaxAttempts, is_invalidated : BOOLEAN]
        /\ otp_record'.attempt_count = call[i].read + 1
        /\ otp_record'.is_invalidated = otp_record.is_invalidated
    BY <1>1, <1>3 DEF SdkInv, SdkTypeOK
  <2>2. es \in SUBSET Effects /\ Done(i, es)
    <3>1. es \in SUBSET Effects /\ done[i] \union es = es
      BY <1>1 DEF Effects
    <3>2. Done(i, done[i] \union es)
      BY <1>3, <3>1, LeavesDone DEF SdkInv
    <3>3. QED
      BY <3>1, <3>2
  <2> DEFINE Moved ==
        /\ (\A j \in Calls : ServerInv(j)' /\ ClientInv(j)') /\ InSequence'
        /\ call' \in [Calls -> Call] /\ SameProgram(i)
        /\ call'[i].server \in {"consume", "answered", "gone"}
        /\ At(i, "answered")' => call'[i].status \in {400, 503}
        /\ At(i, "answered")' /\ call'[i].status = 400 => call'[i].read = call[i].read + 1
        /\ \A j \in Calls \ {i} : call'[j] = call[j]
  <2>3. Moved
    <3>1. CASE Goto(i, "consume")
      <4>1. "consume" \in Stages
        BY DEF Stages
      <4>2. /\ call' \in [Calls -> Call] /\ SameProgram(i)
            /\ call'[i].server = "consume"
            /\ \A j \in Calls \ {i} : call'[j] = call[j]
        BY <3>1, <4>1, GotoCall DEF SdkInv
      <4>3. ServerInv(i)'
        BY <4>2 DEF ServerInv, At
      <4>4. (\A j \in Calls : ServerInv(j)' /\ ClientInv(j)') /\ InSequence'
        BY <1>1, <2>2, <3>1, <4>1, <4>3, GotoStep
      <4>5. QED
        BY <4>2, <4>4 DEF At
    <3>2. ASSUME NEW s \in {400, 503}, NEW n \in 0..MaxAttempts, AnswerWith(i, s, n),
                 s = 400 => n = call[i].read + 1 /\ es = {"counted", "compared"}
          PROVE  Moved
      <4>1. s \in Statuses /\ Warranted(s, es)
        BY <1>1, <3>2 DEF Statuses, Warranted
      <4>2. /\ call' \in [Calls -> Call] /\ SameProgram(i)
            /\ call'[i].server = IF Ended(i) THEN "gone" ELSE "answered"
            /\ call'[i].status = IF Ended(i) THEN 0 ELSE s
            /\ call'[i].read = IF Ended(i) THEN 0 ELSE n
            /\ \A j \in Calls \ {i} : call'[j] = call[j]
        BY <3>2, <4>1, AnswerCall DEF SdkInv
      <4>3. (\A j \in Calls : ServerInv(j)' /\ ClientInv(j)') /\ InSequence'
        BY <1>1, <2>2, <3>2, <4>1, AnswerStep
      <4>4. QED
        BY <3>2, <4>2, <4>3 DEF At
    <3>3. QED
      BY <1>1, <1>3, <3>1, <3>2 DEF Answer
  <2>4. ResultInv'
    <3>1. ASSUME NEW k \in Calls
          PROVE  /\ call'[k].outcome = call[k].outcome
                 /\ Accepted(k)' => Accepted(k)
                 /\ Found(k)' => Found(k)
      <4>1. CASE k = i
        BY <1>1, <2>3, <4>1 DEF Accepted, Found, At, SameProgram
      <4>2. CASE k # i
        BY <2>3, <4>2 DEF Accepted, Found, At
      <4>3. QED
        BY <4>1, <4>2
    <3>2. QED
      BY <1>1, <2>1, <3>1, ResultKept
  <2>5. CountInv'
    BY <1>1, <2>1, <2>2, <2>3, CountedInv DEF Done
  <2>6. QED
    BY <1>1, <2>1, <2>2, <2>3, <2>4, <2>5 DEF SdkInv, SdkTypeOK, Done
<1>4. CASE CountAttempt(i)
  BY <1>3, <1>4 DEF CountAttempt
<1>5. CASE CountRaises(i)
  BY <1>2, <1>3, <1>5 DEF CountRaises
<1>6. QED
  BY <1>4, <1>5

(* The update that consumes, whether its exception is seen or not.          *)
LEMMA ConsumeInv ==
    ASSUME SdkInv, NEW i \in Calls, ConsumeOtp(i) \/ UseLink(i) \/ ConsumeRaises(i)
    PROVE  SdkInv'
<1>1. /\ At(i, "consume") /\ Running(i) /\ UNCHANGED <<sdk, op>>
      /\ done[i] \in SUBSET Effects /\ otp_record.is_invalidated \in BOOLEAN
      /\ is_used' \in BOOLEAN
      /\ otp_record' \in [attempt_count : 0..MaxAttempts, is_invalidated : BOOLEAN]
      /\ otp_record'.attempt_count = otp_record.attempt_count
      /\ otp_record.is_invalidated => otp_record'.is_invalidated
  <2>1. At(i, "consume") /\ Running(i) /\ UNCHANGED <<sdk, op>>
    BY DEF ConsumeOtp, UseLink, ConsumeRaises, At, Running
  <2>2. /\ done[i] \in SUBSET Effects /\ is_used \in BOOLEAN
        /\ otp_record \in [attempt_count : 0..MaxAttempts, is_invalidated : BOOLEAN]
    BY DEF SdkInv, SdkTypeOK
  <2>3. is_used' \in BOOLEAN
    BY <2>2 DEF ConsumeOtp, UseLink, ConsumeRaises
  <2>4. \/ otp_record' = otp_record
        \/ otp_record' = [otp_record EXCEPT !.is_invalidated = TRUE]
    BY DEF ConsumeOtp, UseLink, ConsumeRaises
  <2>5. QED
    BY <2>1, <2>2, <2>3, <2>4
<1>2. /\ {"consumed"} \in SUBSET Effects
      /\ done[i] \union {"consumed"} \in SUBSET Effects
      /\ "compared" \in done[i] \union {"consumed"} <=> "compared" \in done[i]
  BY <1>1 DEF Effects
<1>3. CASE ConsumeOtp(i)
  <2>1. ASSUME NEW s \in {200, 503}, Answer(i, s) PROVE SdkInv'
    <3>1. Done(i, done[i] \union {"consumed"}) /\ op = "otp.verify"
      BY <1>2, <1>3, LeavesDone DEF SdkInv, ConsumeOtp
    <3>2. s \in Statuses \ {400} /\ Warranted(s, done[i] \union {"consumed"})
      BY <3>1 DEF Statuses, Warranted
    <3>3. otp_record'.is_invalidated
      BY <1>3 DEF SdkInv, SdkTypeOK, ConsumeOtp
    <3>4. QED
      BY <1>1, <1>2, <2>1, <3>1, <3>2, <3>3, QuietAnswer
  <2>2. QED
    BY <1>3, <2>1 DEF ConsumeOtp, AnswerOneOf
<1>4. CASE UseLink(i)
  <2>1. ASSUME NEW s \in {200, 410, 500}, Answer(i, s) PROVE SdkInv'
    <3>1. Done(i, done[i] \union {"consumed"}) /\ op = "magic.verify"
      BY <1>2, <1>4, LeavesDone DEF SdkInv, UseLink
    <3>2. s \in Statuses \ {400} /\ Warranted(s, done[i] \union {"consumed"})
      BY <3>1 DEF Statuses, Warranted
    <3>3. QED
      BY <1>1, <1>2, <2>1, <3>1, <3>2, QuietAnswer
  <2>2. QED
    BY <1>4, <2>1 DEF UseLink, AnswerOneOf
<1>5. CASE ConsumeRaises(i)
  <2>1. ASSUME NEW s \in {410, 500, 503}, Answer(i, s), op = "otp.verify" => s = 503
        PROVE  SdkInv'
    <3>1. s \in Statuses \ {200, 400} /\ Warranted(s, done[i])
      BY <2>1 DEF Statuses, Warranted
    <3>2. QED
      BY <1>1, <1>5, <2>1, <3>1, PlainAnswer DEF ConsumeRaises
  <2>2. QED
    BY <1>5, <2>1 DEF ConsumeRaises, AnswerOneOf
<1>6. QED
  BY <1>3, <1>4, <1>5

-----------------------------------------------------------------------------
(* Steps of the program, the network and the SDK.                           *)

(* A step that leaves the tables alone, and with them what the calls did.   *)
LEMMA TablesAlone ==
    ASSUME SdkInv, UNCHANGED <<sdk, op, otp_record, is_used, done>>,
           call' \in [Calls -> Call],
           \A k \in Calls : ServerInv(k)' /\ ClientInv(k)',
           InSequence',
           \A k \in Calls :
               /\ Accepted(k)' => Accepted(k)
               /\ Found(k)' => Found(k)
               /\ call'[k].outcome = "result" => call[k].outcome = "result" \/ ~Ended(k)
               /\ call[k].given_up => call'[k].given_up
               /\ At(k, "count")' => At(k, "count") /\ call'[k].read = call[k].read
               /\ At(k, "answered")' /\ call'[k].status = 400 =>
                      /\ At(k, "answered") /\ call[k].status = 400
                      /\ call'[k].read = call[k].read
               /\ \/ call'[k].remaining <= call[k].remaining
                  \/ /\ At(k, "answered") /\ call[k].status = 400
                     /\ call'[k].remaining = MaxAttempts - call[k].read
    PROVE  SdkInv'
<1>1. ResultInv'
  BY ResultKept
<1>2. CountInv'
  BY CountKept
<1>3. QED
  BY <1>1, <1>2 DEF SdkInv, SdkTypeOK

(* A call begins when all earlier ones have ended.                          *)
LEMMA BeginInv ==
    ASSUME SdkInv, NEW i \in Calls, Begin(i)
    PROVE  SdkInv'
<1> DEFINE c == [call[i] EXCEPT !.client = "waiting"]
<1>1. /\ call[i] \in Call /\ call[i].client = "unused" /\ At(i, "none")
      /\ call' = [call EXCEPT ![i] = c]
      /\ UNCHANGED <<sdk, op, otp_record, is_used, done>>
  BY DEF Begin, SdkInv, SdkTypeOK, ClientInv
<1>2. /\ c \in Call /\ c.client = "waiting" /\ c.server = call[i].server
      /\ c.status = call[i].status /\ c.read = call[i].read
      /\ c.outcome = call[i].outcome /\ c.remaining = call[i].remaining
      /\ c.given_up = call[i].given_up
  BY <1>1 DEF Call
<1>3. /\ call' \in [Calls -> Call] /\ call'[i] = c
      /\ \A j \in Calls \ {i} : call'[j] = call[j]
  BY <1>1, <1>2 DEF SdkInv, SdkTypeOK
<1> HIDE DEF c
<1>4. ServerInv(i)' /\ ClientInv(i)'
  <2>1. ServerInv(i) /\ ClientInv(i)
    BY DEF SdkInv
  <2>2. QED
    BY <1>1, <1>2, <1>3, <2>1 DEF ServerInv, ClientInv, At, Ended
<1>5. \A k \in Calls : ServerInv(k)' /\ ClientInv(k)'
  BY <1>1, <1>3, <1>4, OneCall
<1>6. InSequence'
  <2> SUFFICES ASSUME NEW j \in Calls, NEW k \in Calls, k < j,
                      call'[j].client # "unused"
               PROVE  Ended(k)'
    BY DEF InSequence
  <2>1. CASE j = i
    <3>1. k \in 1..(i - 1) /\ k # i
      BY <2>1, CallNumbers
    <3>2. Ended(k)
      BY <3>1 DEF Begin
    <3>3. QED
      BY <1>3, <3>1, <3>2 DEF Ended
  <2>2. CASE j # i
    <3>1. Ended(k)
      BY <1>3, <2>2 DEF SdkInv, InSequence
    <3>2. k # i
      BY <1>1, <3>1 DEF Ended
    <3>3. QED
      BY <1>3, <3>1, <3>2 DEF Ended
  <2>3. QED
    BY <2>1, <2>2
<1>7. ASSUME NEW k \in Calls
      PROVE  /\ Accepted(k)' => Accepted(k)
             /\ Found(k)' => Found(k)
             /\ call'[k].outcome = call[k].outcome
             /\ call'[k].given_up = call[k].given_up
             /\ At(k, "count")' => At(k, "count") /\ call'[k].read = call[k].read
             /\ At(k, "answered")' /\ call'[k].status = 400 =>
                    /\ At(k, "answered") /\ call[k].status = 400
                    /\ call'[k].read = call[k].read
             /\ call'[k].remaining <= call[k].remaining
  <2>1. call[k].remaining \in Int /\ call'[k].remaining = call[k].remaining
    BY <1>2, <1>3, SdkConstants DEF SdkInv, SdkTypeOK, Call
  <2>2. CASE k = i
    BY <1>2, <1>3, <2>1, <2>2 DEF Accepted, Found, At
  <2>3. CASE k # i
    BY <1>3, <2>1, <2>3 DEF Accepted, Found, At
  <2>4. QED
    BY <2>2, <2>3
<1>8. QED
  BY <1>1, <1>3, <1>5, <1>6, <1>7, TablesAlone

(* The request of a call arrives, whether or not anyone still waits.        *)
LEMMA ArriveInv ==
    ASSUME SdkInv, NEW i \in Calls, Arrive(i)
    PROVE  SdkInv'
<1>1. /\ call[i].client # "unused" /\ At(i, "none") /\ done[i] = {}
      /\ Goto(i, "arrived") /\ "arrived" \in Stages
      /\ UNCHANGED <<sdk, op, otp_record, is_used, done>>
  BY DEF Arrive, At, Goto, Stages, SdkInv, ServerInv
<1>2. /\ call' \in [Calls -> Call] /\ SameProgram(i) /\ call'[i].server = "arrived"
      /\ \A j \in Calls \ {i} : call'[j] = call[j]
  BY <1>1, GotoCall DEF SdkInv
<1>3. ServerInv(i)'
  BY <1>1, <1>2 DEF ServerInv, At
<1>4. ClientInv(i)'
  <2>1. ClientInv(i)
    BY DEF SdkInv
  <2>2. QED
    BY <1>1, <1>2, <2>1 DEF ClientInv, At, Ended, SameProgram
<1>5. \A k \in Calls : ServerInv(k)' /\ ClientInv(k)'
  BY <1>1, <1>2, <1>3, <1>4, OneCall
<1>6. InSequence'
  <2>1. \A k \in Calls : call'[k].client = call[k].client
    BY <1>2 DEF SameProgram
  <2>2. QED
    BY <2>1, SequenceKept DEF SdkInv, Ended
<1>7. ASSUME NEW k \in Calls
      PROVE  /\ Accepted(k)' => Accepted(k)
             /\ Found(k)' => Found(k)
             /\ call'[k].outcome = call[k].outcome
             /\ call'[k].given_up = call[k].given_up
             /\ At(k, "count")' => At(k, "count") /\ call'[k].read = call[k].read
             /\ At(k, "answered")' /\ call'[k].status = 400 =>
                    /\ At(k, "answered") /\ call[k].status = 400
                    /\ call'[k].read = call[k].read
             /\ call'[k].remaining <= call[k].remaining
  <2>1. call[k].remaining \in Int /\ call'[k].remaining = call[k].remaining
    BY <1>2, SdkConstants DEF SdkInv, SdkTypeOK, Call, SameProgram
  <2>2. CASE k = i
    BY <1>2, <2>1, <2>2 DEF Accepted, Found, At, SameProgram
  <2>3. CASE k # i
    BY <1>2, <2>1, <2>3 DEF Accepted, Found, At
  <2>4. QED
    BY <2>2, <2>3
<1>8. QED
  BY <1>1, <1>2, <1>5, <1>6, <1>7, TablesAlone

(* What runs in the API stops with it, and has the effects that it has.     *)
LEMMA ApiStopsInv ==
    ASSUME SdkInv, ApiStops
    PROVE  SdkInv'
<1> DEFINE c(i) == [call[i] EXCEPT !.server = "gone", !.read = 0]
<1>1. UNCHANGED <<sdk, op, otp_record, is_used, done>>
  BY DEF ApiStops
<1>2. ASSUME NEW i \in Calls
      PROVE  /\ c(i) \in Call /\ c(i).client = call[i].client /\ c(i).server = "gone"
             /\ c(i).outcome = call[i].outcome /\ c(i).remaining = call[i].remaining
             /\ c(i).given_up = call[i].given_up /\ c(i).status = call[i].status
  <2>1. call[i] \in Call /\ 0 \in 0..MaxAttempts
    BY SdkConstants DEF SdkInv, SdkTypeOK
  <2>2. QED
    BY <2>1 DEF Call
<1>3. call' = [i \in Calls |-> IF Running(i) THEN c(i) ELSE call[i]]
  BY DEF ApiStops
<1> HIDE DEF c
<1>4. call' \in [Calls -> Call]
  BY <1>2, <1>3 DEF SdkInv, SdkTypeOK
<1>5. ASSUME NEW i \in Calls
      PROVE  /\ SameProgram(i) /\ call'[i].status = call[i].status
             /\ \/ ~Running(i) /\ call'[i] = call[i]
                \/ Running(i) /\ call'[i].server = "gone"
  BY <1>2, <1>3 DEF SameProgram
<1>6. ASSUME NEW i \in Calls PROVE ServerInv(i)' /\ ClientInv(i)'
  <2>1. ServerInv(i) /\ ClientInv(i)
    BY DEF SdkInv
  <2>2. Warranted(call[i].status, done[i])' <=> Warranted(call[i].status, done[i])
    BY <1>1, <1>5 DEF Warranted
  <2>3. Outcomes(call[i].status)' = Outcomes(call[i].status)
    BY <1>1, <1>5 DEF Outcomes, TypedError
  <2>4. CASE Running(i)
    <3>1. ServerInv(i)'
      BY <1>5, <2>4 DEF ServerInv, At
    <3>2. ClientInv(i)'
      BY <1>5, <2>1, <2>4, RunningCall DEF ClientInv, At, Ended, SameProgram
    <3>3. QED
      BY <3>1, <3>2
  <2>5. CASE ~Running(i)
    BY <1>1, <1>5, <2>1, <2>2, <2>3, <2>5 DEF ServerInv, ClientInv, At, Ended
  <2>6. QED
    BY <2>4, <2>5
<1>7. InSequence'
  <2>1. \A k \in Calls : call'[k].client = call[k].client
    BY <1>5 DEF SameProgram
  <2>2. QED
    BY <2>1, SequenceKept DEF SdkInv, Ended
<1>8. ASSUME NEW k \in Calls
      PROVE  /\ Accepted(k)' => Accepted(k)
             /\ Found(k)' => Found(k)
             /\ call'[k].outcome = call[k].outcome
             /\ call'[k].given_up = call[k].given_up
             /\ At(k, "count")' => At(k, "count") /\ call'[k].read = call[k].read
             /\ At(k, "answered")' /\ call'[k].status = 400 =>
                    /\ At(k, "answered") /\ call[k].status = 400
                    /\ call'[k].read = call[k].read
             /\ call'[k].remaining <= call[k].remaining
  <2>1. call[k].remaining \in Int /\ call'[k].remaining = call[k].remaining
    BY <1>5, SdkConstants DEF SdkInv, SdkTypeOK, Call, SameProgram
  <2>2. QED
    BY <1>5, <2>1 DEF Accepted, Found, At, SameProgram
<1>9. QED
  BY <1>1, <1>4, <1>6, <1>7, <1>8, TablesAlone

(* The head of an answer is read, or the rest of it does not come.          *)
LEMMA HeadInv ==
    ASSUME SdkInv, NEW i \in Calls, ReadHead(i) \/ BodyStalls(i)
    PROVE  SdkInv'
<1>1. PICK label \in {"reading", "stalled"} :
          call' = [call EXCEPT ![i].client = label]
  BY DEF ReadHead, BodyStalls
<1> DEFINE c == [call[i] EXCEPT !.client = label]
<1>2. /\ call[i] \in Call /\ ServerInv(i) /\ ClientInv(i)
      /\ call' = [call EXCEPT ![i] = c]
      /\ UNCHANGED <<sdk, op, otp_record, is_used, done>>
  BY <1>1 DEF ReadHead, BodyStalls, SdkInv, SdkTypeOK
<1>3. At(i, "answered") /\ call[i].client # "unused" /\ ~Ended(i)
  BY <1>2 DEF ReadHead, BodyStalls, ClientInv, Ended
<1>4. /\ c \in Call /\ c.client = label /\ c.server = call[i].server
      /\ c.status = call[i].status /\ c.read = call[i].read
      /\ c.outcome = call[i].outcome /\ c.remaining = call[i].remaining
      /\ c.given_up = call[i].given_up
  BY <1>2 DEF Call
<1>5. /\ call' \in [Calls -> Call] /\ call'[i] = c
      /\ \A j \in Calls \ {i} : call'[j] = call[j]
  BY <1>2, <1>4 DEF SdkInv, SdkTypeOK
<1> HIDE DEF c
<1>6. ServerInv(i)'
  <2>1. Warranted(call[i].status, done[i])' <=> Warranted(call[i].status, done[i])
    BY <1>2, <1>4, <1>5 DEF Warranted
  <2>2. QED
    BY <1>2, <1>3, <1>4, <1>5, <2>1 DEF ServerInv, At
<1>7. ClientInv(i)'
  BY <1>2, <1>3, <1>4, <1>5 DEF ClientInv, At, Ended
<1>8. \A k \in Calls : ServerInv(k)' /\ ClientInv(k)'
  BY <1>2, <1>5, <1>6, <1>7, OneCall
<1>9. InSequence'
  <2>1. \A j \in Calls : /\ Ended(j) => Ended(j)'
                         /\ call'[j].client # "unused" => call[j].client # "unused"
    BY <1>3, <1>5 DEF Ended
  <2>2. QED
    BY <2>1, SequenceKept DEF SdkInv
<1>10. ASSUME NEW k \in Calls
       PROVE  /\ Accepted(k)' => Accepted(k)
              /\ Found(k)' => Found(k)
              /\ call'[k].outcome = call[k].outcome
              /\ call'[k].given_up = call[k].given_up
              /\ At(k, "count")' => At(k, "count") /\ call'[k].read = call[k].read
              /\ At(k, "answered")' /\ call'[k].status = 400 =>
                     /\ At(k, "answered") /\ call[k].status = 400
                     /\ call'[k].read = call[k].read
              /\ call'[k].remaining <= call[k].remaining
  <2>1. call[k].remaining \in Int /\ call'[k].remaining = call[k].remaining
    BY <1>4, <1>5, SdkConstants DEF SdkInv, SdkTypeOK, Call
  <2>2. CASE k = i
    BY <1>4, <1>5, <2>1, <2>2 DEF Accepted, Found, At
  <2>3. CASE k # i
    BY <1>5, <2>1, <2>3 DEF Accepted, Found, At
  <2>4. QED
    BY <2>2, <2>3
<1>11. QED
  BY <1>2, <1>5, <1>8, <1>9, <1>10, TablesAlone

(* What is raised for a status is one of the errors, and no result.         *)
LEMMA TypedErrors ==
    ASSUME NEW s
    PROVE  /\ TypedError(s, TRUE) \in Errors \intersect Outcomes(s)
           /\ TypedError(s, FALSE) \in Errors \intersect Outcomes(s)
           /\ TypedError(s, TRUE) # "result" /\ TypedError(s, FALSE) # "result"
<1>1. TypedError(s, TRUE) \in Errors /\ TypedError(s, FALSE) \in Errors
  BY DEF TypedError, Errors
<1>2. "result" \notin Errors
  BY DEF Errors
<1>3. QED
  BY <1>1, <1>2 DEF Outcomes

(* The record of a call that ends, whichever its fields become.             *)
EndCall(f, i, outcome, n, given_up, status, server, read) ==
    [f EXCEPT
        ![i].client = "ended", ![i].outcome = outcome, ![i].remaining = n,
        ![i].given_up = given_up, ![i].status = status, ![i].server = server,
        ![i].read = read]

Typed(f, i, outcome, n, given_up, status, server, read) ==
    /\ f \in [Calls -> Call] /\ i \in Calls
    /\ outcome \in Errors \union {"result"}
    /\ n \in 0..MaxAttempts /\ given_up \in BOOLEAN
    /\ status \in Statuses \union {0} /\ read \in 0..MaxAttempts
    /\ server \in {"none", "arrived", "limits", "project", "save", "mail",
                   "lookup", "count", "consume", "answered", "gone"}

EndedAs(e, f, i, outcome, n, given_up, status, server, read) ==
    /\ e \in [Calls -> Call]
    /\ e[i].client = "ended" /\ e[i].outcome = outcome /\ e[i].remaining = n
    /\ e[i].given_up = given_up /\ e[i].status = status
    /\ e[i].server = server /\ e[i].read = read
    /\ \A j \in Calls \ {i} : e[j] = f[j]

(* It is a record of a call, and those of the others are kept.              *)
LEMMA EndedCall ==
    ASSUME NEW f, NEW i, NEW outcome, NEW n, NEW given_up, NEW status, NEW server,
           NEW read, Typed(f, i, outcome, n, given_up, status, server, read)
    PROVE  EndedAs(EndCall(f, i, outcome, n, given_up, status, server, read),
                   f, i, outcome, n, given_up, status, server, read)
<1> DEFINE e == EndCall(f, i, outcome, n, given_up, status, server, read)
           c == [f[i] EXCEPT !.client = "ended", !.outcome = outcome,
                             !.remaining = n, !.given_up = given_up,
                             !.status = status, !.server = server, !.read = read]
<1>1. e = [f EXCEPT ![i] = c] /\ f[i] \in Call
  BY DEF EndCall, Typed
<1>2. /\ c.client = "ended" /\ c.outcome = outcome /\ c.remaining = n
      /\ c.given_up = given_up /\ c.status = status /\ c.server = server
      /\ c.read = read
  BY <1>1 DEF Call
<1>3. c \in Call
  BY <1>1, <1>2 DEF Call, Typed
<1> HIDE DEF c
<1>4. e \in [Calls -> Call] /\ e[i] = c /\ \A j \in Calls \ {i} : e[j] = f[j]
  BY <1>1, <1>3 DEF Typed
<1>5. QED
  BY <1>2, <1>4 DEF EndedAs

(* A call ends: given up while it waits for an answer, or with what the     *)
(* status of its answer allows.                                             *)
LEMMA EndInv ==
    ASSUME SdkInv, NEW i \in Calls, call[i].client \in {"waiting", "reading", "stalled"},
           NEW outcome \in Errors \union {"result"}, NEW n \in 0..MaxAttempts,
           End(i, outcome, n),
           call[i].client = "waiting" => outcome \in {"MailGuardError", "foreign"} /\ n = 0,
           call[i].client # "waiting" =>
               /\ outcome \in Outcomes(call[i].status)
               /\ n = 0 \/ (call[i].status = 400 /\ n = MaxAttempts - call[i].read)
    PROVE  SdkInv'
<1> DEFINE waiting == call[i].client = "waiting"
           status == IF waiting THEN 0 ELSE call[i].status
           server == IF At(i, "answered") THEN "gone" ELSE call[i].server
           read == IF At(i, "answered") THEN 0 ELSE call[i].read
<1>1. /\ call[i] \in Call /\ ServerInv(i) /\ ClientInv(i)
      /\ UNCHANGED <<sdk, op, otp_record, is_used, done>>
  BY DEF End, SdkInv, SdkTypeOK
<1>2. call' = EndCall(call, i, outcome, n, waiting, status, server, read)
  BY DEF End, EndCall
<1>3. Typed(call, i, outcome, n, waiting, status, server, read)
  BY <1>1, SdkConstants DEF Typed, SdkInv, SdkTypeOK, Call
<1>4. /\ ~waiting => server = "gone" /\ status = call[i].status
      /\ server # "answered" /\ (server = call[i].server \/ server = "gone")
      /\ server = "count" => read = call[i].read
      /\ ~Ended(i) /\ call[i].client # "unused"
  BY <1>1 DEF ClientInv, At, Ended
<1> HIDE DEF waiting, status, server, read
<1>5. /\ call' \in [Calls -> Call]
      /\ call'[i].client = "ended" /\ call'[i].outcome = outcome
      /\ call'[i].remaining = n /\ call'[i].given_up = waiting
      /\ call'[i].status = status /\ call'[i].server = server
      /\ call'[i].read = read
      /\ \A j \in Calls \ {i} : call'[j] = call[j]
  <2>1. EndedAs(EndCall(call, i, outcome, n, waiting, status, server, read),
                call, i, outcome, n, waiting, status, server, read)
    BY <1>3, EndedCall
  <2>2. QED
    BY <1>2, <2>1 DEF EndedAs
<1>6. ServerInv(i)'
  BY <1>1, <1>4, <1>5 DEF ServerInv, At
<1>7. ClientInv(i)'
  <2>1. ~waiting => Warranted(call[i].status, done[i])
    BY <1>1 DEF ServerInv, ClientInv, waiting
  <2>2. Warranted(call[i].status, done[i])' <=> Warranted(call'[i].status, done[i])
    BY <1>1 DEF Warranted
  <2>3. ~waiting => Warranted(call[i].status, done[i])'
    BY <1>4, <1>5, <2>1, <2>2
  <2>4. ~waiting => (outcome \in Outcomes(call[i].status)')
    <3>1. Outcomes(call[i].status)' = Outcomes(call'[i].status)
      BY <1>1 DEF Outcomes, TypedError
    <3>2. QED
      BY <1>4, <1>5, <3>1 DEF waiting
  <2>5. waiting => outcome \in {"MailGuardError", "foreign"} /\ n = 0
    BY DEF waiting
  <2>6. QED
    BY <1>4, <1>5, <2>3, <2>4, <2>5 DEF ClientInv, At, Ended
<1>8. \A k \in Calls : ServerInv(k)' /\ ClientInv(k)'
  BY <1>1, <1>5, <1>6, <1>7, OneCall
<1>9. InSequence'
  <2>1. \A j \in Calls : /\ Ended(j) => Ended(j)'
                         /\ call'[j].client # "unused" => call[j].client # "unused"
    BY <1>4, <1>5 DEF Ended
  <2>2. QED
    BY <2>1, SequenceKept DEF SdkInv
<1>10. ASSUME NEW k \in Calls
       PROVE  /\ Accepted(k)' => Accepted(k)
              /\ Found(k)' => Found(k)
              /\ call'[k].outcome = "result" => call[k].outcome = "result" \/ ~Ended(k)
              /\ call[k].given_up => call'[k].given_up
              /\ At(k, "count")' => At(k, "count") /\ call'[k].read = call[k].read
              /\ At(k, "answered")' /\ call'[k].status = 400 =>
                     /\ At(k, "answered") /\ call[k].status = 400
                     /\ call'[k].read = call[k].read
              /\ \/ call'[k].remaining <= call[k].remaining
                 \/ /\ At(k, "answered") /\ call[k].status = 400
                    /\ call'[k].remaining = MaxAttempts - call[k].read
  <2>1. CASE k = i
    <3>1. /\ ~call[i].given_up /\ call[i].remaining = 0
          /\ ~waiting => At(i, "answered")
      BY <1>1, <1>4 DEF ClientInv, waiting
    <3>2. outcome = "result" => At(i, "answered") /\ call[i].status = 200
      <4>1. waiting => outcome # "result"
        BY DEF waiting
      <4>2. /\ TypedError(call[i].status, TRUE) # "result"
            /\ TypedError(call[i].status, FALSE) # "result"
        BY TypedErrors
      <4>3. ~waiting /\ outcome = "result" => call[i].status = 200
        <5>1. ASSUME ~waiting, outcome = "result" PROVE "result" \in Outcomes(call[i].status)
          BY <5>1 DEF waiting
        <5>2. "result" \in Outcomes(call[i].status) => call[i].status = 200
          BY <4>2 DEF Outcomes
        <5>3. QED
          BY <5>1, <5>2
      <4>4. QED
        BY <3>1, <4>1, <4>3
    <3>3. /\ Accepted(i)' => Accepted(i)
          /\ Found(i)' => Found(i)
      BY <1>4, <1>5, <3>2 DEF Accepted, Found, At
    <3>4. At(i, "count")' => At(i, "count") /\ call'[i].read = call[i].read
      BY <1>4, <1>5 DEF At
    <3>5. ~At(i, "answered")'
      BY <1>4, <1>5 DEF At
    <3>6. \/ call'[i].remaining <= call[i].remaining
          \/ /\ At(i, "answered") /\ call[i].status = 400
             /\ call'[i].remaining = MaxAttempts - call[i].read
      BY <1>5, <3>1 DEF waiting
    <3>7. QED
      BY <1>4, <2>1, <3>1, <3>3, <3>4, <3>5, <3>6
  <2>2. CASE k # i
    <3>1. call[k].remaining \in Int
      BY SdkConstants DEF SdkInv, SdkTypeOK, Call
    <3>2. QED
      BY <1>5, <2>2, <3>1 DEF Accepted, Found, At
  <2>3. QED
    BY <2>1, <2>2
<1>11. QED
  BY <1>1, <1>5, <1>8, <1>9, <1>10, TablesAlone

(* What the SDKs see of the network, each of its ways to end a call.        *)
LEMMA ReceiveInv ==
    ASSUME SdkInv, NEW i \in Calls,
           ReadBody(i) \/ ConnectionBreaks(i) \/ TimesOut(i)
    PROVE  SdkInv'
<1>1. call[i].client \in {"waiting", "reading", "stalled"}
  BY DEF ReadBody, ConnectionBreaks, TimesOut, TimerRuns
<1>2. /\ call[i].read \in 0..MaxAttempts /\ 0 \in 0..MaxAttempts
      /\ MaxAttempts - call[i].read \in 0..MaxAttempts
  <2>1. call[i].read \in 0..MaxAttempts /\ MaxAttempts \in Nat
    BY SdkConstants DEF SdkInv, SdkTypeOK, Call
  <2>2. QED
    BY <2>1
<1>3. "MailGuardError" \in Errors /\ "foreign" \in Errors
  BY DEF Errors
<1>4. ASSUME call[i].client = "waiting",
             NEW outcome \in {"MailGuardError", "foreign"}, End(i, outcome, 0)
      PROVE  SdkInv'
  BY <1>1, <1>2, <1>3, <1>4, EndInv
<1>5. ASSUME call[i].client # "waiting",
             NEW outcome \in Outcomes(call[i].status) \intersect (Errors \union {"result"}),
             NEW n \in 0..MaxAttempts, End(i, outcome, n),
             n = 0 \/ (call[i].status = 400 /\ n = MaxAttempts - call[i].read)
      PROVE  SdkInv'
  <2>1. outcome \in Outcomes(call[i].status) /\ outcome \in Errors \union {"result"}
    OBVIOUS
  <2>2. QED
    BY <1>1, <1>5, <2>1, EndInv
<1>6. ASSUME call[i].client # "waiting", EndWithoutBody(i) PROVE SdkInv'
  <2>1. TypedError(call[i].status, FALSE)
            \in Outcomes(call[i].status) \intersect (Errors \union {"result"})
    BY TypedErrors
  <2>2. QED
    BY <1>2, <1>5, <1>6, <2>1 DEF EndWithoutBody
<1>7. ASSUME Succeeded(i)
      PROVE  {"MailGuardError", "foreign"}
                 \subseteq Outcomes(call[i].status) \intersect (Errors \union {"result"})
  BY <1>3, <1>7 DEF Succeeded, Outcomes, TypedError
<1>8. CASE ReadBody(i)
  <2>1. call[i].client # "waiting"
    BY <1>8 DEF ReadBody
  <2>2. CASE Succeeded(i)
    <3>1. CASE op = "magic.verify"
      BY <1>2, <1>5, <1>7, <1>8, <2>1, <2>2, <3>1 DEF ReadBody
    <3>2. CASE op # "magic.verify"
      <4>1. "result" \in Outcomes(call[i].status) \intersect (Errors \union {"result"})
        BY <2>2, <3>2 DEF Succeeded, Outcomes
      <4>2. End(i, "result", 0)
        BY <1>8, <2>2, <3>2 DEF ReadBody
      <4>3. QED
        BY <1>2, <1>5, <2>1, <4>1, <4>2
    <3>3. QED
      BY <3>1, <3>2
  <2>3. CASE ~Succeeded(i)
    <3>1. TypedError(call[i].status, TRUE)
              \in Outcomes(call[i].status) \intersect (Errors \union {"result"})
      BY TypedErrors
    <3>2. CASE call[i].status = 400
      <4>1. End(i, TypedError(call[i].status, TRUE), MaxAttempts - call[i].read)
        BY <1>8, <2>3, <3>2 DEF ReadBody
      <4> DEFINE n == MaxAttempts - call[i].read
                 outcome == TypedError(call[i].status, TRUE)
      <4>2. n \in 0..MaxAttempts /\ n = MaxAttempts - call[i].read
        BY <1>2
      <4>3. /\ outcome \in Outcomes(call[i].status) \intersect (Errors \union {"result"})
            /\ End(i, outcome, n)
        BY <3>1, <4>1
      <4> HIDE DEF n, outcome
      <4>4. QED
        BY <1>5, <2>1, <3>2, <4>2, <4>3
    <3>3. CASE call[i].status # 400
      <4>1. End(i, TypedError(call[i].status, TRUE), 0)
        BY <1>8, <2>3, <3>3 DEF ReadBody
      <4>2. QED
        BY <1>2, <1>5, <2>1, <3>1, <4>1
    <3>4. QED
      BY <3>2, <3>3
  <2>4. QED
    BY <2>2, <2>3
<1>9. CASE ConnectionBreaks(i)
  <2>1. CASE call[i].client = "waiting"
    BY <1>4, <1>9, <2>1 DEF ConnectionBreaks
  <2>2. CASE call[i].client # "waiting" /\ Succeeded(i)
    BY <1>2, <1>5, <1>7, <1>9, <2>2 DEF ConnectionBreaks
  <2>3. CASE call[i].client # "waiting" /\ ~Succeeded(i)
    BY <1>6, <1>9, <2>3 DEF ConnectionBreaks
  <2>4. QED
    BY <2>1, <2>2, <2>3
<1>10. CASE TimesOut(i)
  <2>1. CASE call[i].client = "waiting"
    BY <1>4, <1>10, <2>1 DEF TimesOut
  <2>2. CASE call[i].client # "waiting" /\ Succeeded(i)
    BY <1>2, <1>5, <1>7, <1>10, <2>2 DEF TimesOut
  <2>3. CASE call[i].client # "waiting" /\ ~Succeeded(i)
    BY <1>6, <1>10, <2>3 DEF TimesOut
  <2>4. QED
    BY <2>1, <2>2, <2>3
<1>11. QED
  BY <1>8, <1>9, <1>10

(* Every step keeps the invariant, and so does one that changes nothing.    *)
LEMMA SdkNextInv == SdkInv /\ [SdkNext]_sdkVars => SdkInv'
<1> SUFFICES ASSUME SdkInv, [SdkNext]_sdkVars PROVE SdkInv'
  OBVIOUS
<1>1. CASE UNCHANGED sdkVars
  <2>1. \A k \in Calls : ServerInv(k)' /\ ClientInv(k)'
    BY <1>1 DEF sdkVars, SdkInv, ServerInv, ClientInv, At, Ended, Warranted, Outcomes,
                TypedError
  <2>2. InSequence' /\ ResultInv'
    BY <1>1 DEF sdkVars, SdkInv, InSequence, Ended, ResultInv, Found, Accepted, At
  <2>3. CountInv'
    BY <1>1 DEF sdkVars, SdkInv, CountInv, NoneGivenUp, Compared, ComparedBy, At
  <2>4. SdkTypeOK'
    BY <1>1 DEF sdkVars, SdkInv, SdkTypeOK
  <2>5. QED
    BY <2>1, <2>2, <2>3, <2>4 DEF SdkInv
<1>2. ASSUME NEW i \in Calls, Begin(i) PROVE SdkInv'
  BY <1>2, BeginInv
<1>3. ASSUME NEW i \in Calls, Arrive(i) PROVE SdkInv'
  BY <1>3, ArriveInv
<1>4. ASSUME NEW i \in Calls, Serve(i) PROVE SdkInv'
  <2>1. CASE Verify(i)
    BY <2>1, LookupInv, CountInvKept, ConsumeInv DEF Verify
  <2>2. QED
    BY <1>4, <2>1, RouteInv, SendInv DEF Serve
<1>5. ASSUME NEW i \in Calls, Receive(i) \/ BodyStalls(i) \/ ConnectionBreaks(i)
      PROVE  SdkInv'
  BY <1>5, HeadInv, ReceiveInv DEF Receive
<1>6. CASE ApiStops
  BY <1>6, ApiStopsInv
<1>7. QED
  BY <1>1, <1>2, <1>3, <1>4, <1>5, <1>6 DEF SdkNext

-----------------------------------------------------------------------------
(* The theorems.                                                            *)

\* The inductive invariant holds of every behaviour.
THEOREM SdkInvariance == SdkSpec => []SdkInv
BY SdkInitInv, SdkNextInv, PTL DEF SdkSpec

\* Every variable stays within its type, for every number of calls: attempt_count,
\* which calls that were given up write as well, never passes otp_max_attempts.
THEOREM SdkTypeCorrect == SdkSpec => []SdkTypeOK
<1>1. SdkInv => SdkTypeOK
  BY DEF SdkInv
<1>2. QED
  BY <1>1, SdkInvariance, PTL

\* What an SDK tells its caller is so, for every number of calls: after an error
\* that says that nothing was done the call has no effect, then or later, a wrong
\* code was compared and counted and not consumed, and a result stands for what was
\* asked for; whatever becomes of the connection, the timer and the API.
THEOREM AnswersTrue == SdkSpec => []AnswersAreTrue
<1>1. SdkInv => AnswersAreTrue
  <2> SUFFICES ASSUME SdkInv, NEW i \in Calls
               PROVE  /\ SaysRefused(call[i]) => done[i] = {}
                      /\ call[i].outcome = "InvalidCodeError" =>
                             done[i] = {"counted", "compared"}
                      /\ call[i].outcome = "result" =>
                             (IF op = "otp.verify" THEN "consumed" ELSE "stored") \in done[i]
    BY DEF AnswersAreTrue
  <2>1. call[i] \in Call /\ ClientInv(i) /\ op \in Ops
    BY DEF SdkInv, SdkTypeOK
  <2>2. CASE ~Ended(i)
    BY <2>1, <2>2 DEF ClientInv, SaysRefused
  <2>3. CASE call[i].given_up
    BY <2>1, <2>3 DEF ClientInv, SaysRefused
  <2>4. CASE Ended(i) /\ ~call[i].given_up
    <3>1. /\ Warranted(call[i].status, done[i])
          /\ call[i].outcome \in Outcomes(call[i].status)
      BY <2>1, <2>4 DEF ClientInv
    <3>2. /\ call[i].outcome = "RateLimitError" => call[i].status = 429
          /\ call[i].outcome = "SandboxError" => call[i].status = 403
          /\ call[i].outcome = "InvalidKeyError" => call[i].status = 401
          /\ call[i].outcome = "LockedError" => call[i].status = 423
          /\ call[i].outcome = "ExpiredError" => call[i].status = 410
          /\ call[i].outcome = "InvalidCodeError" => call[i].status = 400
          /\ call[i].outcome = "result" => call[i].status = 200 /\ op # "magic.verify"
      BY <3>1 DEF Outcomes, TypedError
    <3>3. SaysRefused(call[i]) => done[i] = {}
      BY <3>1, <3>2 DEF SaysRefused, Warranted
    <3>4. call[i].outcome = "InvalidCodeError" => done[i] = {"counted", "compared"}
      BY <3>1, <3>2 DEF Warranted
    <3>5. call[i].outcome = "result" =>
              (IF op = "otp.verify" THEN "consumed" ELSE "stored") \in done[i]
      <4>1. op \in {"otp.send", "otp.verify", "magic.send", "magic.verify"}
        BY <2>1, CallNumbers
      <4>2. CASE call[i].outcome = "result"
        BY <3>1, <3>2, <4>1, <4>2 DEF Warranted
      <4>3. QED
        BY <4>2
    <3>6. QED
      BY <3>3, <3>4, <3>5
  <2>5. QED
    BY <2>1, <2>2, <2>3, <2>4
<1>2. QED
  BY <1>1, SdkInvariance, PTL

\* A program that makes one call after the other gets one result for a code, however
\* many calls it makes and has given up.
THEOREM OneResult == SdkSpec => []OneResultPerCode
<1>1. SdkInv => OneResultPerCode
  <2> DEFINE R == {i \in Calls : call[i].outcome = "result"}
  <2> SUFFICES ASSUME SdkInv, op = "otp.verify" PROVE Cardinality(R) <= 1
    BY DEF OneResultPerCode
  <2>1. \A i, j \in R : ~(i < j)
    BY DEF SdkInv, ResultInv, Found, Accepted
  <2>2. \A i, j \in R : i = j
    BY <2>1, CallNumbers
  <2>3. CASE R = {}
    BY <2>3, FS_EmptySet
  <2>4. CASE R # {}
    <3>1. PICK i \in R : TRUE
      BY <2>4
    <3>2. R = {i}
      BY <2>2, <3>1
    <3>3. Cardinality({i}) = 1
      BY FS_Singleton
    <3> HIDE DEF R
    <3>4. QED
      BY <3>2, <3>3
  <2>5. QED
    BY <2>3, <2>4
<1>2. QED
  BY <1>1, SdkInvariance, PTL

\* As long as a program has given up none of its calls, its codes are compared no
\* more often than otp_max_attempts, and attempts_remaining never promises more than
\* that leaves, for every limit and number of calls.
THEOREM AttemptsLimited == SdkSpec => []LimitedUnlessGivenUp
<1>1. SdkInv => LimitedUnlessGivenUp
  <2> SUFFICES ASSUME SdkInv, NoneGivenUp
               PROVE  /\ Cardinality(ComparedBy(MaxCalls[op])) <= MaxAttempts
                      /\ \A i \in Calls :
                            call[i].remaining <= MaxAttempts - Cardinality(ComparedBy(i))
    BY DEF LimitedUnlessGivenUp, NoneGivenUp, ComparedBy
  <2>1. /\ Cardinality(Compared) <= otp_record.attempt_count
        /\ \A i \in Calls : call[i].remaining + Cardinality(ComparedBy(i)) <= MaxAttempts
    BY DEF SdkInv, CountInv
  <2>2. otp_record.attempt_count \in 0..MaxAttempts /\ MaxAttempts \in Nat
    BY SdkConstants DEF SdkInv, SdkTypeOK
  <2>3. ASSUME NEW n
        PROVE  /\ Cardinality(ComparedBy(n)) \in Nat /\ Cardinality(Compared) \in Nat
               /\ Cardinality(ComparedBy(n)) <= Cardinality(Compared)
    <3>1. ComparedBy(n) \subseteq Compared /\ Compared \subseteq Calls
      BY DEF ComparedBy, Compared
    <3>2. QED
      BY <3>1, Counting
  <2>4. Cardinality(ComparedBy(MaxCalls[op])) <= MaxAttempts
    BY <2>1, <2>2, <2>3
  <2>5. ASSUME NEW i \in Calls
        PROVE  call[i].remaining <= MaxAttempts - Cardinality(ComparedBy(i))
    <3>1. call[i].remaining \in Nat
      BY SdkConstants DEF SdkInv, SdkTypeOK, Call
    <3>2. QED
      BY <2>1, <2>2, <2>3, <3>1
  <2>6. QED
    BY <2>4, <2>5
<1>2. QED
  BY <1>1, SdkInvariance, PTL
=============================================================================
