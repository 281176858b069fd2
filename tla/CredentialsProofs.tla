-------------------------- MODULE CredentialsProofs --------------------------
(***************************************************************************)
(* Proofs about Credentials, for any keys, tokens, lifetimes and numbers   *)
(* of calls under way at once.                                             *)
(*                                                                         *)
(* The invariant has one part per group of variables.  What makes it       *)
(* inductive: rows of keys are neither deleted nor activated again         *)
(* (KeysOnlyEnd), so that what was true of a key when a request arrived is *)
(* still true when it is answered; and a SET that is still to come reaches *)
(* as far as the one its call computed, because the time to live counts    *)
(* from the SET (RevocationInv).                                           *)
(***************************************************************************)
EXTENDS Credentials, TLAPS

KeyInv ==
    /\ api_keys \in SUBSET Keys /\ is_active \in SUBSET api_keys
    /\ replying \in api_keys \union {None}
    /\ shown \in SUBSET api_keys
    /\ keys_revoked \in SUBSET (api_keys \ is_active)

RequestInv(r) ==
    LET q == request[r] IN
    /\ q \in Request
    /\ q.pc # "idle" => q.key \in Keys
    /\ q.known => q.key \in api_keys
    /\ q.late => q.key \in keys_revoked
    /\ q.pc \in {"serve", "answered"} =>
         ~q.late /\ ~(Production /\ q.key \in Sandbox)
    /\ q.pc = "invalid" => ~q.known
    /\ q.pc = "revoked" => q.key \in api_keys \ is_active

TokenInv(t) ==
    /\ exp[t] \in Nat /\ jti_blacklist[t] \in Nat
    /\ jti_blacklist[t] # 0 =>
         /\ jti_blacklist[t] > clock
         /\ exp[t] # 0
         /\ jti_blacklist[t] > exp[t] - Second
    /\ t \in tokens_revoked =>
         exp[t] # 0 /\ (jti_blacklist[t] # 0 \/ clock > exp[t] - Second)

VerificationInv(v) ==
    LET call == verification[v] IN
    /\ call \in Verification
    /\ call.pc # "idle" => call.token \in Tokens /\ exp[call.token] # 0
    /\ call.pc = "get" /\ call.late => call.token \in tokens_revoked
    /\ call.pc = "accepted" /\ call.redis_client /\ call.late =>
         call.at > exp[call.token] - Second

RevocationInv(c) ==
    LET call == revocation[c] IN
    /\ call \in Revocation
    /\ call.pc = "set" =>
         /\ call.token \in Tokens /\ exp[call.token] # 0
         /\ call.ttl > 0
         /\ clock + call.ttl > exp[call.token] - Second

Functions ==
    /\ clock \in Nat
    /\ request \in [Requests -> Request]
    /\ exp \in [Tokens -> Nat] /\ jti_blacklist \in [Tokens -> Nat]
    /\ verification \in [Verifications -> Verification]
    /\ revocation \in [Revocations -> Revocation]
    /\ tokens_revoked \in SUBSET Tokens

IInv ==
    /\ Functions
    /\ KeyInv
    /\ \A r \in Requests : RequestInv(r)
    /\ \A t \in Tokens : TokenInv(t)
    /\ \A v \in Verifications : VerificationInv(v)
    /\ \A c \in Revocations : RevocationInv(c)

-----------------------------------------------------------------------------
(* Rounding.                                                                *)

(* Rounding down to whole seconds takes away less than one.                 *)
LEMMA WholeSecondsBounds ==
    ASSUME NEW n \in Int
    PROVE  WholeSeconds(n) \in Int /\ WholeSeconds(n) <= n /\ WholeSeconds(n) > n - Second
<1>1. Second \in Nat \ {0}
  BY ConstantsAssumption
<1>2. n % Second \in 0..(Second - 1)
  BY <1>1
<1>3. QED
  BY <1>1, <1>2 DEF WholeSeconds

(* A revocation that is set at once reaches to a second before the expiry.  *)
LEMMA RemainingReaches ==
    ASSUME clock \in Nat, NEW t \in Tokens, exp[t] \in Nat
    PROVE  /\ Remaining(t) \in Nat /\ Remaining(t) > 0
           /\ clock + Remaining(t) > exp[t] - Second
<1>1. Second \in Nat \ {0}
  BY ConstantsAssumption
<1>2. exp[t] - clock \in Int
  OBVIOUS
<1>3. /\ WholeSeconds(exp[t] - clock) \in Int
      /\ WholeSeconds(exp[t] - clock) > (exp[t] - clock) - Second
  BY <1>2, WholeSecondsBounds
<1>4. QED
  BY <1>1, <1>3 DEF Remaining, AtLeast

-----------------------------------------------------------------------------
(* Initially no call has been made.                                         *)
LEMMA InitInv == Init => IInv
<1> SUFFICES ASSUME Init PROVE IInv
  OBVIOUS
<1>1. Functions
  <2>1. /\ request \in [Requests -> Request]
        /\ verification \in [Verifications -> Verification]
        /\ revocation \in [Revocations -> Revocation]
    BY DEF Init, Request, Verification, NoVerification, Revocation
  <2>2. QED
    BY <2>1 DEF Init, Functions
<1>2. KeyInv
  BY ConstantsAssumption DEF Init, KeyInv
<1>3. ASSUME NEW r \in Requests PROVE RequestInv(r)
  BY <1>1 DEF Init, RequestInv, Functions
<1>4. ASSUME NEW t \in Tokens PROVE TokenInv(t)
  BY DEF Init, TokenInv
<1>5. ASSUME NEW v \in Verifications PROVE VerificationInv(v)
  BY <1>1 DEF Init, VerificationInv, NoVerification, Functions
<1>6. ASSUME NEW c \in Revocations PROVE RevocationInv(c)
  BY <1>1 DEF Init, RevocationInv, Functions
<1>7. QED
  BY <1>1, <1>2, <1>3, <1>4, <1>5, <1>6 DEF IInv

-----------------------------------------------------------------------------
(* Keys.                                                                    *)

(* What the rest of the proof needs to know of the bot: rows stay, and what *)
(* is not active does not become active.                                    *)
KeysOnlyEnd ==
    /\ api_keys \subseteq api_keys' /\ keys_revoked \subseteq keys_revoked'
    /\ is_active' \intersect api_keys \subseteq is_active

(* Each command of the bot preserves KeyInv.                                *)
LEMMA BotStep ==
    ASSUME KeyInv, Bot
    PROVE  KeyInv' /\ KeysOnlyEnd /\ UNCHANGED <<clock, request, tokenvars>>
<1>1. ASSUME NEW k \in Keys, genkey_command(k)
      PROVE  KeyInv' /\ KeysOnlyEnd /\ UNCHANGED <<clock, request, tokenvars>>
  BY <1>1 DEF genkey_command, generate_api_key, KeyInv, KeysOnlyEnd
<1>2. ASSUME NEW k \in Keys, GenerateUnacknowledged(k)
      PROVE  KeyInv' /\ KeysOnlyEnd /\ UNCHANGED <<clock, request, tokenvars>>
  BY <1>2 DEF GenerateUnacknowledged, KeyInv, KeysOnlyEnd
<1>3. ASSUME NEW k \in Keys, revoke_api_key(k)
      PROVE  KeyInv' /\ KeysOnlyEnd /\ UNCHANGED <<clock, request, tokenvars>>
  BY <1>3 DEF revoke_api_key, KeyInv, KeysOnlyEnd
<1>4. CASE ShowKey
  BY <1>4, ConstantsAssumption DEF ShowKey, KeyInv, KeysOnlyEnd
<1>5. QED
  BY <1>1, <1>2, <1>3, <1>4 DEF Bot

(* A step that leaves a request alone preserves what is known of it.        *)
LEMMA RequestStays ==
    ASSUME KeyInv, NEW r \in Requests, RequestInv(r), KeysOnlyEnd, request'[r] = request[r]
    PROVE  RequestInv(r)'
BY DEF RequestInv, KeysOnlyEnd, KeyInv

-----------------------------------------------------------------------------
(* Requests.                                                                *)

(* A step of a request changes its own record only.                         *)
LEMMA RequestStep ==
    ASSUME IInv, NEW r \in Requests, NEW q \in Request,
           request' = [request EXCEPT ![r] = q], UNCHANGED keyvars,
           RequestInv(r)'
    PROVE  request' \in [Requests -> Request] /\ \A s \in Requests : RequestInv(s)'
<1>1. request' \in [Requests -> Request]
  BY DEF IInv, Functions
<1>2. ASSUME NEW s \in Requests, s # r PROVE RequestInv(s)'
  <2>1. request'[s] = request[s]
    BY <1>2 DEF IInv, Functions
  <2>2. KeysOnlyEnd
    BY DEF keyvars, KeysOnlyEnd
  <2>3. QED
    BY <2>1, <2>2, RequestStays DEF IInv
<1>3. QED
  BY <1>1, <1>2

(* Validation lets pass what is active, and nothing from the sandbox.       *)
LEMMA ServeStep ==
    ASSUME IInv, NEW r \in Requests,
           \/ \E k \in Keys : Arrive(r, k)
           \/ validate_api_key(r)
           \/ request[r].pc = "serve" /\ Respond(r, "answered") /\ UNCHANGED keyvars
    PROVE  request' \in [Requests -> Request] /\ \A s \in Requests : RequestInv(s)'
<1>1. request \in [Requests -> Request] /\ RequestInv(r) /\ KeyInv
  BY DEF IInv, Functions
<1>2. ASSUME NEW k \in Keys, Arrive(r, k)
      PROVE  request' \in [Requests -> Request] /\ \A s \in Requests : RequestInv(s)'
  <2> DEFINE q == [pc |-> "validate", key |-> k,
                   known |-> k \in shown, late |-> k \in keys_revoked]
  <2>1. q \in Request
    BY DEF Request
  <2>2. request' = [request EXCEPT ![r] = q] /\ UNCHANGED keyvars
    BY <1>2 DEF Arrive
  <2>3. RequestInv(r)'
    BY <1>1, <2>1, <2>2 DEF RequestInv, KeyInv, keyvars
  <2> HIDE DEF q
  <2>4. QED
    BY <2>1, <2>2, <2>3, RequestStep
<1>3. ASSUME NEW a \in {"serve", "answered", "forbidden", "invalid", "revoked", "error"},
             Respond(r, a), UNCHANGED keyvars, request[r].pc # "idle",
             a \in {"serve", "answered"} =>
               ~request[r].late /\ ~(Production /\ request[r].key \in Sandbox),
             a = "invalid" => ~request[r].known,
             a = "revoked" => request[r].key \in api_keys \ is_active
      PROVE  request' \in [Requests -> Request] /\ \A s \in Requests : RequestInv(s)'
  <2> DEFINE q == [request[r] EXCEPT !.pc = a]
  <2>1. q \in Request
    <3>1. request[r] \in Request
      BY <1>1
    <3>2. QED
      BY <3>1, <1>3 DEF Request
  <2>2. request' = [request EXCEPT ![r] = q]
    BY <1>3 DEF Respond
  <2>3. /\ q.pc = a /\ q.key = request[r].key
        /\ q.known = request[r].known /\ q.late = request[r].late
    BY <1>1 DEF Request
  <2>4. request'[r] = q
    BY <1>1, <2>2
  <2> HIDE DEF q
  <2>5. RequestInv(r)'
    BY <1>1, <1>3, <2>1, <2>3, <2>4 DEF RequestInv, keyvars
  <2>6. QED
    BY <1>3, <2>1, <2>2, <2>5, RequestStep
<1>4. CASE validate_api_key(r)
  <2> DEFINE k == request[r].key
  <2>1. request[r].pc = "validate" /\ UNCHANGED keyvars /\ k \in Keys
    BY <1>1, <1>4 DEF validate_api_key, RequestInv
  <2>2. Respond(r, Verdict(k)) \/ Respond(r, "error")
    BY <1>4 DEF validate_api_key
  <2>3. CASE Respond(r, "error")
    BY <1>3, <2>1, <2>3
  <2>4. /\ Verdict(k) \in {"serve", "forbidden", "invalid", "revoked"}
        /\ Verdict(k) = "serve" => k \in is_active /\ ~(Production /\ k \in Sandbox)
        /\ Verdict(k) = "invalid" => k \notin api_keys
        /\ Verdict(k) = "revoked" => k \in api_keys \ is_active
    BY <1>1 DEF Verdict, KeyInv
  <2>5. /\ Verdict(k) = "serve" => ~request[r].late
        /\ Verdict(k) = "invalid" => ~request[r].known
    BY <1>1, <2>4 DEF RequestInv, KeyInv
  <2>6. QED
    BY <1>3, <2>1, <2>2, <2>3, <2>4, <2>5
<1>5. CASE request[r].pc = "serve" /\ Respond(r, "answered") /\ UNCHANGED keyvars
  <2>1. ~request[r].late /\ ~(Production /\ request[r].key \in Sandbox)
    BY <1>1, <1>5 DEF RequestInv
  <2>2. QED
    BY <1>3, <1>5, <2>1
<1>6. QED
  BY <1>2, <1>4, <1>5

-----------------------------------------------------------------------------
(* Tokens.                                                                  *)

(* The part of the invariant about tokens, whose steps come next.           *)
TokenPart ==
    /\ Functions
    /\ \A t \in Tokens : TokenInv(t)
    /\ \A v \in Verifications : VerificationInv(v)
    /\ \A c \in Revocations : RevocationInv(c)

(* A new token is on nobody's list.                                         *)
LEMMA IssueStep ==
    ASSUME TokenPart, NEW t \in Tokens, issue_jwt(t), request' \in [Requests -> Request]
    PROVE  TokenPart'
<1> DEFINE e == WholeSeconds(clock + Lifetime)
<1>1. e \in Nat
  <2>1. clock \in Nat /\ Lifetime \in Nat /\ Second \in Nat /\ Lifetime >= Second
    BY ConstantsAssumption DEF TokenPart, Functions
  <2>2. clock + Lifetime \in Int
    BY <2>1
  <2>3. e \in Int /\ e > (clock + Lifetime) - Second
    BY <2>2, WholeSecondsBounds
  <2> HIDE DEF e
  <2>4. QED
    BY <2>1, <2>3
<1>2. /\ exp[t] = 0 /\ exp' = [exp EXCEPT ![t] = e]
      /\ UNCHANGED <<clock, jti_blacklist, verification, revocation, tokens_revoked>>
  BY DEF issue_jwt
<1> HIDE DEF e
<1>3. exp' \in [Tokens -> Nat] /\ \A u \in Tokens : u # t => exp'[u] = exp[u]
  BY <1>1, <1>2 DEF TokenPart, Functions
<1>4. \A u \in Tokens : exp[u] # 0 => exp'[u] = exp[u]
  BY <1>2, <1>3
<1>5. Functions'
  BY <1>2, <1>3 DEF TokenPart, Functions
<1>6. ASSUME NEW u \in Tokens PROVE TokenInv(u)'
  BY <1>2, <1>3, <1>4 DEF TokenPart, TokenInv
<1>7. ASSUME NEW v \in Verifications PROVE VerificationInv(v)'
  BY <1>2, <1>4 DEF TokenPart, VerificationInv
<1>8. ASSUME NEW c \in Revocations PROVE RevocationInv(c)'
  BY <1>2, <1>4 DEF TokenPart, RevocationInv
<1>9. QED
  BY <1>5, <1>6, <1>7, <1>8 DEF TokenPart

(* A call of verify_jwt that is refused has nothing to keep, and one that   *)
(* is accepted after a revocation has found no entry on the blacklist.      *)
LEMMA VerifyStep ==
    ASSUME TokenPart, NEW v \in Verifications, Verify(v)
    PROVE  TokenPart'
<1>1. /\ UNCHANGED <<clock, request, exp, jti_blacklist, revocation, tokens_revoked>>
  BY DEF Verify, Decode, verify_jwt
<1>2. clock \in Nat /\ verification \in [Verifications -> Verification]
  BY DEF TokenPart, Functions
<1>3. ASSUME NEW q \in Verification, verification' = [verification EXCEPT ![v] = q],
             q.pc # "idle" => q.token \in Tokens /\ exp[q.token] # 0,
             q.pc = "get" /\ q.late => q.token \in tokens_revoked,
             q.pc = "accepted" /\ q.redis_client /\ q.late =>
               q.at > exp[q.token] - Second
      PROVE  TokenPart'
  <2>1. verification' \in [Verifications -> Verification] /\ verification'[v] = q
        /\ \A w \in Verifications : w # v => verification'[w] = verification[w]
    BY <1>2, <1>3
  <2>2. Functions'
    BY <1>1, <2>1 DEF TokenPart, Functions
  <2>3. ASSUME NEW t \in Tokens PROVE TokenInv(t)'
    BY <1>1 DEF TokenPart, TokenInv
  <2>4. VerificationInv(v)'
    BY <1>1, <1>3, <2>1 DEF VerificationInv
  <2>5. ASSUME NEW w \in Verifications, w # v PROVE VerificationInv(w)'
    BY <1>1, <2>1, <2>5 DEF TokenPart, VerificationInv
  <2>6. ASSUME NEW c \in Revocations PROVE RevocationInv(c)'
    BY <1>1 DEF TokenPart, RevocationInv
  <2>7. QED
    BY <2>2, <2>3, <2>4, <2>5, <2>6 DEF TokenPart
<1>4. NoVerification \in Verification /\ NoVerification.pc = "idle"
  BY DEF NoVerification, Verification
<1>5. ASSUME NEW t \in Tokens, NEW client \in BOOLEAN, Decode(v, t, client)
      PROVE  TokenPart'
  <2>1. CASE Expired(t)
    BY <1>3, <1>4, <1>5, <2>1 DEF Decode
  <2>2. CASE ~Expired(t)
    <3>1. PICK q : q = [pc |-> IF client THEN "get" ELSE "accepted",
                        token |-> t, redis_client |-> client,
                        late |-> t \in tokens_revoked,
                        at |-> IF client THEN 0 ELSE clock]
      OBVIOUS
    <3>2. q \in Verification
      BY <1>2, <3>1 DEF Verification
    <3>3. verification' = [verification EXCEPT ![v] = q] /\ exp[t] # 0
      BY <1>5, <2>2, <3>1 DEF Decode
    <3>4. q.pc = "accepted" => ~q.redis_client
      BY <3>1
    <3>5. q.token = t /\ (q.late => t \in tokens_revoked)
      BY <3>1
    <3>6. QED
      BY <1>3, <3>2, <3>3, <3>4, <3>5
  <2>3. QED
    BY <2>1, <2>2
<1>6. CASE verify_jwt(v)
  <2> DEFINE t == verification[v].token
  <2>1. /\ verification[v].pc = "get" /\ t \in Tokens /\ exp[t] # 0
        /\ verification[v].late => t \in tokens_revoked
    BY <1>6 DEF verify_jwt, TokenPart, VerificationInv
  <2>2. CASE verification' = [verification EXCEPT ![v] = NoVerification]
    BY <1>3, <1>4, <2>2
  <2>3. CASE /\ jti_blacklist[t] = 0
             /\ verification' = [verification EXCEPT ![v].pc = "accepted", ![v].at = clock]
    <3>1. PICK q : q = [verification[v] EXCEPT !.pc = "accepted", !.at = clock]
      OBVIOUS
    <3>2. verification[v] \in Verification
      BY <1>2
    <3>3. q \in Verification
      BY <1>2, <3>1, <3>2 DEF Verification
    <3>4. /\ q.pc = "accepted" /\ q.token = t /\ q.at = clock
          /\ q.late = verification[v].late
      BY <3>1, <3>2 DEF Verification
    <3>5. verification' = [verification EXCEPT ![v] = q]
      BY <2>3, <3>1
    <3>6. verification[v].late => clock > exp[t] - Second
      BY <2>1, <2>3 DEF TokenPart, TokenInv
    <3>7. QED
      BY <1>3, <2>1, <3>3, <3>4, <3>5, <3>6
  <2>4. QED
    BY <1>6, <2>2, <2>3 DEF verify_jwt
<1>7. QED
  BY <1>5, <1>6 DEF Verify

(* What is set on the blacklist reaches to a second before the expiry,      *)
(* whenever its time to live was computed.                                  *)
LEMMA RevokeStep ==
    ASSUME TokenPart, NEW c \in Revocations, Revoke(c)
    PROVE  TokenPart'
<1>1. UNCHANGED <<clock, request, exp, verification>>
  BY DEF Revoke, BeginRevocation, revoke_jwt, RevocationFails
<1>2. /\ clock \in Nat /\ Second \in Nat /\ revocation \in [Revocations -> Revocation]
      /\ jti_blacklist \in [Tokens -> Nat] /\ exp \in [Tokens -> Nat]
      /\ tokens_revoked \in SUBSET Tokens
  BY ConstantsAssumption DEF TokenPart, Functions
<1>3. ASSUME tokens_revoked \subseteq tokens_revoked'
      PROVE  \A v \in Verifications : VerificationInv(v)'
  BY <1>1, <1>3 DEF TokenPart, VerificationInv
<1>4. ASSUME NEW q \in Revocation, revocation' = [revocation EXCEPT ![c] = q],
             q.pc = "set" =>
               /\ q.token \in Tokens /\ exp[q.token] # 0
               /\ q.ttl > 0
               /\ clock + q.ttl > exp[q.token] - Second
      PROVE  revocation' \in [Revocations -> Revocation]
             /\ \A d \in Revocations : RevocationInv(d)'
  <2>1. revocation' \in [Revocations -> Revocation] /\ revocation'[c] = q
        /\ \A d \in Revocations : d # c => revocation'[d] = revocation[d]
    BY <1>2, <1>4
  <2>2. RevocationInv(c)'
    BY <1>1, <1>4, <2>1 DEF RevocationInv
  <2>3. ASSUME NEW d \in Revocations, d # c PROVE RevocationInv(d)'
    BY <1>1, <2>1, <2>3 DEF TokenPart, RevocationInv
  <2>4. QED
    BY <2>1, <2>2, <2>3
<1>5. ASSUME NEW t \in Tokens, BeginRevocation(c, t) PROVE TokenPart'
  <2>1. PICK q : q = [pc |-> "set", token |-> t, ttl |-> Remaining(t)]
    OBVIOUS
  <2>2. exp[t] # 0 /\ revocation' = [revocation EXCEPT ![c] = q]
        /\ UNCHANGED <<jti_blacklist, tokens_revoked>>
    BY <1>5, <2>1 DEF BeginRevocation
  <2>3. /\ Remaining(t) \in Nat /\ Remaining(t) > 0
        /\ clock + Remaining(t) > exp[t] - Second
    BY <1>2, RemainingReaches
  <2>4. q \in Revocation /\ q.token = t /\ q.ttl = Remaining(t)
    BY <2>1, <2>3 DEF Revocation
  <2>5. revocation' \in [Revocations -> Revocation]
        /\ \A d \in Revocations : RevocationInv(d)'
    BY <1>4, <2>2, <2>3, <2>4
  <2>6. ASSUME NEW u \in Tokens PROVE TokenInv(u)'
    BY <1>1, <2>2 DEF TokenPart, TokenInv
  <2>7. QED
    BY <1>1, <1>3, <2>2, <2>5, <2>6 DEF TokenPart, Functions
<1>6. ASSUME revoke_jwt(c) \/ RevocationFails(c) PROVE TokenPart'
  <2>a. PICK t, b : t = revocation[c].token /\ b = clock + revocation[c].ttl
    OBVIOUS
  <2>1. /\ t \in Tokens /\ exp[t] # 0 /\ revocation[c].ttl > 0
        /\ b > exp[t] - Second
    BY <1>6, <2>a DEF revoke_jwt, RevocationFails, TokenPart, RevocationInv
  <2>2. b \in Nat /\ b > clock
    BY <1>2, <2>1, <2>a DEF Revocation
  <2>3. /\ jti_blacklist' = [jti_blacklist EXCEPT ![t] = b]
           \/ UNCHANGED <<jti_blacklist, tokens_revoked>>
        /\ \/ UNCHANGED tokens_revoked
           \/ /\ tokens_revoked' = tokens_revoked \union {t}
              /\ jti_blacklist' = [jti_blacklist EXCEPT ![t] = b]
    BY <1>6, <2>a DEF revoke_jwt, RevocationFails, Blacklist
  <2>4. jti_blacklist' \in [Tokens -> Nat] /\ tokens_revoked' \in SUBSET Tokens
        /\ tokens_revoked \subseteq tokens_revoked'
    BY <1>2, <2>1, <2>2, <2>3
  <2>5. revocation' \in [Revocations -> Revocation]
        /\ \A d \in Revocations : RevocationInv(d)'
    <3>1. PICK q : q = [pc |-> "idle", token |-> None, ttl |-> 0]
      OBVIOUS
    <3>2. q \in Revocation /\ q.pc = "idle"
      BY <3>1 DEF Revocation
    <3>3. revocation' = [revocation EXCEPT ![c] = q]
      BY <1>6, <3>1 DEF revoke_jwt, RevocationFails, EndRevocation
    <3>4. QED
      BY <1>4, <3>2, <3>3
  <2>6. TokenInv(t)'
    <3>1. CASE jti_blacklist' = [jti_blacklist EXCEPT ![t] = b]
      BY <1>1, <1>2, <2>1, <2>2, <3>1 DEF TokenInv
    <3>2. CASE UNCHANGED <<jti_blacklist, tokens_revoked>>
      BY <1>1, <2>1, <3>2 DEF TokenPart, TokenInv
    <3>3. QED
      BY <2>3, <3>1, <3>2
  <2>7. ASSUME NEW u \in Tokens, u # t PROVE TokenInv(u)'
    <3>1. jti_blacklist'[u] = jti_blacklist[u] /\ (u \in tokens_revoked' => u \in tokens_revoked)
      BY <1>2, <2>3, <2>7
    <3>2. QED
      BY <1>1, <3>1 DEF TokenPart, TokenInv
  <2>8. QED
    BY <1>1, <1>3, <2>4, <2>5, <2>6, <2>7 DEF TokenPart, Functions
<1>7. QED
  BY <1>5, <1>6 DEF Revoke

(* What vanishes from the blacklist had been there to the last second.      *)
LEMMA TickStep ==
    ASSUME TokenPart, Tick
    PROVE  TokenPart'
<1>1. /\ clock \in Nat /\ clock' = clock + 1 /\ Second \in Nat
      /\ jti_blacklist \in [Tokens -> Nat] /\ exp \in [Tokens -> Nat]
      /\ UNCHANGED <<request, exp, verification, revocation, tokens_revoked>>
  BY ConstantsAssumption DEF TokenPart, Functions, Tick
<1>2. \A t \in Tokens :
        jti_blacklist'[t] = IF jti_blacklist[t] <= clock' THEN 0 ELSE jti_blacklist[t]
  BY DEF Tick
<1>3. jti_blacklist' \in [Tokens -> Nat]
  BY <1>1 DEF Tick
<1>4. ASSUME NEW t \in Tokens PROVE TokenInv(t)'
  <2>1. TokenInv(t) /\ exp[t] \in Nat /\ jti_blacklist[t] \in Nat
    BY <1>1 DEF TokenPart
  <2>2. QED
    BY <1>1, <1>2, <2>1 DEF TokenInv
<1>5. ASSUME NEW v \in Verifications PROVE VerificationInv(v)'
  BY <1>1 DEF TokenPart, VerificationInv
<1>6. ASSUME NEW c \in Revocations PROVE RevocationInv(c)'
  <2>1. CASE revocation[c].pc = "set"
    <3>1. /\ revocation[c].token \in Tokens /\ exp[revocation[c].token] \in Nat
          /\ revocation[c].ttl \in Nat
      BY <1>1, <2>1 DEF TokenPart, RevocationInv, Revocation
    <3>2. QED
      BY <1>1, <3>1 DEF TokenPart, RevocationInv
  <2>2. CASE revocation[c].pc # "set"
    BY <1>1, <2>2 DEF TokenPart, RevocationInv
  <2>3. QED
    BY <2>1, <2>2
<1>7. Functions'
  BY <1>1, <1>3 DEF TokenPart, Functions
<1>8. QED
  BY <1>4, <1>5, <1>6, <1>7 DEF TokenPart

(* Steps of requests that touch no token.                                   *)
LEMMA NoTokenStep ==
    ASSUME TokenPart, request' \in [Requests -> Request], UNCHANGED <<clock, tokenvars>>
    PROVE  TokenPart'
<1>1. UNCHANGED <<clock, exp, jti_blacklist, verification, revocation, tokens_revoked>>
  BY DEF tokenvars
<1>2. QED
  BY <1>1 DEF TokenPart, Functions, TokenInv, VerificationInv, RevocationInv

-----------------------------------------------------------------------------
(* Theorems.                                                                *)

(* Every step preserves the invariant.                                      *)
LEMMA Step ==
    ASSUME IInv, [Next]_vars
    PROVE  IInv'
<1>1. TokenPart /\ KeyInv /\ request \in [Requests -> Request]
      /\ \A r \in Requests : RequestInv(r)
  BY DEF IInv, TokenPart, Functions
<1>2. SUFFICES TokenPart' /\ KeyInv' /\ \A r \in Requests : RequestInv(r)'
  BY DEF IInv, TokenPart
<1>3. ASSUME UNCHANGED <<keyvars, request>>
      PROVE  KeyInv' /\ \A r \in Requests : RequestInv(r)'
  <2>1. KeyInv' /\ KeysOnlyEnd
    BY <1>1, <1>3 DEF KeyInv, KeysOnlyEnd, keyvars
  <2>2. QED
    BY <1>1, <1>3, <2>1, RequestStays
<1>4. CASE Bot
  <2>1. KeyInv' /\ KeysOnlyEnd /\ UNCHANGED <<clock, request, tokenvars>>
    BY <1>1, <1>4, BotStep
  <2>2. \A r \in Requests : RequestInv(r)'
    BY <1>1, <2>1, RequestStays
  <2>3. QED
    BY <1>1, <2>1, <2>2, NoTokenStep
<1>5. ASSUME UNCHANGED keyvars PROVE KeyInv'
  BY <1>1, <1>5 DEF KeyInv, keyvars
<1>6. ASSUME NEW r \in Requests, Serve(r)
      PROVE  TokenPart' /\ KeyInv' /\ \A s \in Requests : RequestInv(s)'
  <2>1. UNCHANGED keyvars
    BY <1>6 DEF Serve, Arrive, validate_api_key, Answer, AnswerWithToken, issue_jwt
  <2>2. request' \in [Requests -> Request] /\ \A s \in Requests : RequestInv(s)'
    BY <1>6, <2>1, ServeStep DEF Serve, Answer, AnswerWithToken
  <2>3. CASE UNCHANGED <<clock, tokenvars>>
    BY <1>1, <1>5, <2>1, <2>2, <2>3, NoTokenStep
  <2>4. ASSUME NEW t \in Tokens, issue_jwt(t) PROVE TokenPart'
    BY <1>1, <2>2, <2>4, IssueStep
  <2>5. UNCHANGED <<clock, tokenvars>> \/ \E t \in Tokens : issue_jwt(t)
    BY <1>6 DEF Serve, Arrive, validate_api_key, Answer, AnswerWithToken
  <2>6. QED
    BY <1>5, <2>1, <2>2, <2>3, <2>4, <2>5
<1>7. ASSUME NEW t \in Tokens, MagicToken(t)
      PROVE  TokenPart' /\ UNCHANGED <<keyvars, request>>
  BY <1>1, <1>7, IssueStep DEF MagicToken, issue_jwt
<1>8. ASSUME NEW v \in Verifications, Verify(v)
      PROVE  TokenPart' /\ UNCHANGED <<keyvars, request>>
  BY <1>1, <1>8, VerifyStep DEF Verify, Decode, verify_jwt
<1>9. ASSUME NEW c \in Revocations, Revoke(c)
      PROVE  TokenPart' /\ UNCHANGED <<keyvars, request>>
  BY <1>1, <1>9, RevokeStep DEF Revoke, BeginRevocation, revoke_jwt, RevocationFails
<1>10. CASE Tick
  BY <1>1, <1>3, <1>10, TickStep DEF Tick
<1>11. CASE UNCHANGED vars
  BY <1>1, <1>3, <1>11, NoTokenStep DEF vars
<1>12. QED
  BY <1>3, <1>4, <1>6, <1>7, <1>8, <1>9, <1>10, <1>11 DEF Next

(* The invariant holds in every reachable state.                            *)
THEOREM Invariance == Spec => []IInv
<1>1. IInv /\ [Next]_vars => IInv'
  BY Step
<1>2. QED
  BY <1>1, InitInv, PTL DEF Spec

(* Every variable stays within its type.                                    *)
THEOREM TypeCorrect == Spec => []TypeOK
<1>1. IInv => TypeOK
  <2> SUFFICES ASSUME IInv PROVE TypeOK
    OBVIOUS
  <2>1. \A t \in Tokens : jti_blacklist[t] # 0 => jti_blacklist[t] > clock /\ exp[t] # 0
    BY DEF IInv, TokenInv
  <2>2. \A v \in Verifications : verification[v].pc # "idle" =>
           verification[v].token \in Tokens /\ exp[verification[v].token] # 0
    BY DEF IInv, VerificationInv
  <2>3. \A c \in Revocations : revocation[c].pc = "set" =>
           /\ revocation[c].token \in Tokens /\ exp[revocation[c].token] # 0
           /\ revocation[c].ttl > 0
    BY DEF IInv, RevocationInv
  <2>4. \A r \in Requests : request[r].pc # "idle" => request[r].key \in Keys
    BY DEF IInv, RequestInv
  <2>5. QED
    BY <2>1, <2>2, <2>3, <2>4 DEF IInv, Functions, KeyInv, TypeOK
<1>2. QED
  BY <1>1, Invariance, PTL

(* No request is served that arrived after its key's revocation was         *)
(* answered, nor one with a sandbox key in production.                      *)
THEOREM RevokedKeysAreRefused == Spec => []RevokedKeysRefused
<1>1. IInv => RevokedKeysRefused
  BY DEF IInv, RequestInv, RevokedKeysRefused
<1>2. QED
  BY <1>1, Invariance, PTL

(* A key that was shown is never answered as invalid, or as revoked while   *)
(* it is active.                                                            *)
THEOREM ShownKeysStayKnown == Spec => []ShownKeysAreKnown
<1>1. IInv => ShownKeysAreKnown
  BY DEF IInv, RequestInv, ShownKeysAreKnown
<1>2. QED
  BY <1>1, Invariance, PTL

(* A token whose revocation was answered is refused to its last second.     *)
THEOREM RevokedTokensAreRefused == Spec => []RevokedTokensRefused
<1>1. IInv => RevokedTokensRefused
  BY DEF IInv, VerificationInv, RevokedTokensRefused
<1>2. QED
  BY <1>1, Invariance, PTL
=============================================================================
