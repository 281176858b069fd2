----------------------------- MODULE Credentials -----------------------------
(***************************************************************************)
(* What a caller of MailGuard shows to be let in.  API keys are generated  *)
(* and revoked by the bot (apps/bot/commands/keys.py) and validated by the *)
(* API on every request (core/api_keys.py, apps/api/middleware/auth.py).   *)
(* A verified OTP or magic link is answered with a JWT (core/jwt_utils.py) *)
(* that any holder of the secret can verify or revoke; a revocation is a   *)
(* key in Redis that lives about as long as the token.                     *)
(*                                                                         *)
(* The clock counts ticks, Second of which are a second: tokens expire and *)
(* keys of Redis live in whole seconds, everything else happens between.   *)
(* A key of the database is never deleted or activated again, so that the  *)
(* reads of /revokekey are one step with its update.  The bot handles one  *)
(* command after the other.                                                *)
(***************************************************************************)
EXTENDS Integers

CONSTANTS
    Keys,           \* plaintexts of API keys
    Sandbox,        \* those that begin with mg_test_
    Production,     \* if settings.ENV is "production"
    Tokens,         \* JWTs, one per jti
    None,           \* no key, no token
    Requests, Verifications, Revocations,   \* slots for calls, used again and again
    Second,         \* ticks of a second
    Lifetime,       \* JWT_EXPIRY_MINUTES, in ticks
    MaxTime         \* bound: the clock stops here

ASSUME ConstantsAssumption ==
    /\ Sandbox \subseteq Keys /\ Production \in BOOLEAN
    /\ None \notin Keys /\ None \notin Tokens
    /\ Second \in Nat \ {0} /\ MaxTime \in Nat
    /\ Lifetime \in Nat /\ Lifetime >= Second

VARIABLES
    clock,
    api_keys,       \* keys whose hash has a row
    is_active,      \* those that are active
    replying,       \* the key /genkey has inserted and not shown yet
    request,        \* where each request is, and its key
    exp,            \* the claim of each token, in ticks; 0 before it is issued
    jti_blacklist,  \* when the key of the token expires, 0 when there is none
    verification,   \* verify_jwt calls
    revocation      \* revoke_jwt calls

VARIABLES           \* history
    shown,          \* keys the admin has seen
    keys_revoked,   \* keys whose revocation was answered
    tokens_revoked  \* tokens whose revocation was answered

keyvars == <<api_keys, is_active, replying, shown, keys_revoked>>
tokenvars == <<exp, jti_blacklist, verification, revocation, tokens_revoked>>
vars == <<clock, keyvars, request, tokenvars>>

\* known and late are history: the key was shown, or its revocation answered,
\* when the request arrived.
Request == [pc : {"idle", "validate", "serve", "answered",
                  "forbidden", "invalid", "revoked", "error"},
            key : Keys \union {None}, known : BOOLEAN, late : BOOLEAN]

\* late and at are history: the token's revocation was answered when the call
\* began, and when it was accepted.  A call that raises is idle again.
Verification == [pc : {"idle", "get", "accepted"},
                 token : Tokens \union {None}, redis_client : BOOLEAN,
                 late : BOOLEAN, at : Nat]
NoVerification == [pc |-> "idle", token |-> None, redis_client |-> FALSE,
                   late |-> FALSE, at |-> 0]

Revocation == [pc : {"idle", "set"}, token : Tokens \union {None}, ttl : Nat]

Init ==
    /\ clock = 0
    /\ api_keys \in SUBSET Keys /\ is_active \in SUBSET api_keys
    /\ replying = None
    /\ request = [r \in Requests |->
                    [pc |-> "idle", key |-> None, known |-> FALSE, late |-> FALSE]]
    /\ exp = [t \in Tokens |-> 0]
    /\ jti_blacklist = [t \in Tokens |-> 0]
    /\ verification = [v \in Verifications |-> NoVerification]
    /\ revocation = [c \in Revocations |-> [pc |-> "idle", token |-> None, ttl |-> 0]]
    /\ shown = api_keys /\ keys_revoked = {} /\ tokens_revoked = {}

-----------------------------------------------------------------------------
(* The bot.                                                                 *)

generate_api_key(k) ==
    /\ api_keys' = api_keys \union {k}
    /\ is_active' = is_active \union {k}
    /\ replying' = k
    /\ UNCHANGED <<shown, keys_revoked>>

\* /genkey; its keys are never sandbox keys.
genkey_command(k) ==
    /\ replying = None /\ k \notin api_keys \union Sandbox
    /\ generate_api_key(k)
    /\ UNCHANGED <<clock, request, tokenvars>>

\* The insert took effect and raises: nobody ever sees the key.
GenerateUnacknowledged(k) ==
    /\ replying = None /\ k \notin api_keys \union Sandbox
    /\ api_keys' = api_keys \union {k}
    /\ is_active' = is_active \union {k}
    /\ UNCHANGED <<clock, replying, shown, keys_revoked, request, tokenvars>>

\* The one message with the plaintext, which may not arrive.
ShowKey ==
    /\ replying # None
    /\ shown' \in {shown, shown \union {replying}}
    /\ replying' = None
    /\ UNCHANGED <<clock, api_keys, is_active, keys_revoked, request, tokenvars>>

\* /revokekey; its answer may be lost.
revoke_api_key(k) ==
    /\ replying = None /\ k \in api_keys
    /\ is_active' = is_active \ {k}
    /\ keys_revoked' \in {keys_revoked, keys_revoked \union {k}}
    /\ UNCHANGED <<clock, api_keys, replying, shown, request, tokenvars>>

-----------------------------------------------------------------------------
(* Requests with an API key.                                                *)

Arrive(r, k) ==
    /\ request[r].pc \notin {"validate", "serve"}
    /\ request' = [request EXCEPT ![r] =
                     [pc |-> "validate", key |-> k,
                      known |-> k \in shown, late |-> k \in keys_revoked]]
    /\ UNCHANGED <<clock, keyvars, tokenvars>>

\* Mutant: the row is enough, whether it is active or not.
VerdictUnrevoked(k) ==
    CASE Production /\ k \in Sandbox -> "forbidden"
      [] ~(Production /\ k \in Sandbox) /\ k \notin api_keys -> "invalid"
      [] OTHER -> "serve"

Verdict(k) ==
    CASE Production /\ k \in Sandbox -> "forbidden"
      [] ~(Production /\ k \in Sandbox) /\ k \notin api_keys -> "invalid"
      [] ~(Production /\ k \in Sandbox) /\ k \in api_keys \ is_active -> "revoked"
      [] OTHER -> "serve"

Respond(r, answer) == request' = [request EXCEPT ![r].pc = answer]

\* require_api_key; looking up the hash may raise.
validate_api_key(r) ==
    /\ request[r].pc = "validate"
    /\ \/ Respond(r, Verdict(request[r].key))
       \/ Verdict(request[r].key) # "forbidden" /\ Respond(r, "error")
    /\ UNCHANGED <<clock, keyvars, tokenvars>>

\* The route has answered, without a token.
Answer(r) ==
    /\ request[r].pc = "serve"
    /\ Respond(r, "answered")
    /\ UNCHANGED <<clock, keyvars, tokenvars>>

-----------------------------------------------------------------------------
(* Tokens.                                                                  *)

WholeSeconds(n) == n - (n % Second)

issue_jwt(t) ==
    /\ exp[t] = 0
    /\ exp' = [exp EXCEPT ![t] = WholeSeconds(clock + Lifetime)]
    /\ UNCHANGED <<clock, keyvars, jti_blacklist, verification, revocation, tokens_revoked>>

\* POST /otp/verify has consumed the OTP (see OtpLifecycle).
AnswerWithToken(r, t) ==
    /\ request[r].pc = "serve"
    /\ Respond(r, "answered")
    /\ issue_jwt(t)

\* GET /magic/verify has used the link (see MagicLink); it asks for no key.
MagicToken(t) == issue_jwt(t) /\ UNCHANGED request

\* As python-jose compares, with the second of the clock.
Expired(t) == WholeSeconds(clock) > exp[t]

\* verify_jwt decodes a token; without a client it asks for no revocation.
Decode(v, t, client) ==
    /\ verification[v].pc # "get" /\ exp[t] # 0
    /\ verification' = [verification EXCEPT ![v] =
          IF Expired(t) THEN NoVerification
          ELSE [pc |-> IF client THEN "get" ELSE "accepted",
                token |-> t, redis_client |-> client, late |-> t \in tokens_revoked,
                at |-> IF client THEN 0 ELSE clock]]
    /\ UNCHANGED <<clock, keyvars, request, exp, jti_blacklist, revocation, tokens_revoked>>

\* GET jti_blacklist:{jti}: the call raises when there is such a key, or by itself.
verify_jwt(v) ==
    /\ verification[v].pc = "get"
    /\ \/ /\ jti_blacklist[verification[v].token] = 0
          /\ verification' = [verification EXCEPT ![v].pc = "accepted", ![v].at = clock]
       \/ verification' = [verification EXCEPT ![v] = NoVerification]
    /\ UNCHANGED <<clock, keyvars, request, exp, jti_blacklist, revocation, tokens_revoked>>

AtLeast(n, m) == IF n < m THEN m ELSE n

\* Mutant: a second too short.
RemainingShort(t) == AtLeast(WholeSeconds(exp[t] - clock) - Second, Second)

\* Mutant: rounded down to zero, too, which Redis refuses.
RemainingZero(t) == WholeSeconds(exp[t] - clock)

\* The token's remaining lifetime, rounded down but not to zero.
Remaining(t) == AtLeast(WholeSeconds(exp[t] - clock), Second)

\* revoke_jwt decodes a token, expired or not, and reads the clock.
BeginRevocation(c, t) ==
    /\ revocation[c].pc = "idle" /\ exp[t] # 0
    /\ revocation' = [revocation EXCEPT ![c] =
                        [pc |-> "set", token |-> t, ttl |-> Remaining(t)]]
    /\ UNCHANGED <<clock, keyvars, request, exp, jti_blacklist, verification, tokens_revoked>>

Blacklist(c) ==
    jti_blacklist' = [jti_blacklist EXCEPT ![revocation[c].token] =
                        clock + revocation[c].ttl]

EndRevocation(c) ==
    revocation' = [revocation EXCEPT ![c] = [pc |-> "idle", token |-> None, ttl |-> 0]]

\* SET jti_blacklist:{jti} with EX.
revoke_jwt(c) ==
    /\ revocation[c].pc = "set"
    /\ Blacklist(c)
    /\ tokens_revoked' = tokens_revoked \union {revocation[c].token}
    /\ EndRevocation(c)
    /\ UNCHANGED <<clock, keyvars, request, exp, verification>>

\* It raises, with or without its effect.
RevocationFails(c) ==
    /\ revocation[c].pc = "set"
    /\ UNCHANGED jti_blacklist \/ Blacklist(c)
    /\ EndRevocation(c)
    /\ UNCHANGED <<clock, keyvars, request, exp, verification, tokens_revoked>>

\* Time goes on, and with it the time to live of the blacklist.
Tick ==
    /\ clock < MaxTime
    /\ clock' = clock + 1
    /\ jti_blacklist' = [t \in Tokens |->
                           IF jti_blacklist[t] <= clock' THEN 0 ELSE jti_blacklist[t]]
    /\ UNCHANGED <<keyvars, request, exp, verification, revocation, tokens_revoked>>

-----------------------------------------------------------------------------

Bot ==
    \/ \E k \in Keys : genkey_command(k) \/ GenerateUnacknowledged(k) \/ revoke_api_key(k)
    \/ ShowKey

Serve(r) ==
    \/ \E k \in Keys : Arrive(r, k)
    \/ validate_api_key(r) \/ Answer(r)
    \/ \E t \in Tokens : AnswerWithToken(r, t)

Verify(v) ==
    \/ \E t \in Tokens, client \in BOOLEAN : Decode(v, t, client)
    \/ verify_jwt(v)

Revoke(c) ==
    \/ \E t \in Tokens : BeginRevocation(c, t)
    \/ revoke_jwt(c) \/ RevocationFails(c)

Next ==
    \/ Bot
    \/ \E r \in Requests : Serve(r)
    \/ \E t \in Tokens : MagicToken(t)
    \/ \E v \in Verifications : Verify(v)
    \/ \E c \in Revocations : Revoke(c)
    \/ Tick

Spec == Init /\ [][Next]_vars

-----------------------------------------------------------------------------
(* Properties.                                                              *)

\* Every variable stays within its type, a key on the blacklist has its expiry
\* in the future, and a call that has begun has a token that was issued.
TypeOK ==
    /\ clock \in Nat
    /\ api_keys \in SUBSET Keys /\ is_active \in SUBSET api_keys
    /\ replying \in Keys \union {None}
    /\ request \in [Requests -> Request]
    /\ \A r \in Requests : request[r].pc # "idle" => request[r].key \in Keys
    /\ exp \in [Tokens -> Nat]
    /\ jti_blacklist \in [Tokens -> Nat]
    /\ \A t \in Tokens : jti_blacklist[t] # 0 => jti_blacklist[t] > clock /\ exp[t] # 0
    /\ verification \in [Verifications -> Verification]
    /\ \A v \in Verifications : verification[v].pc # "idle" =>
         verification[v].token \in Tokens /\ exp[verification[v].token] # 0
    /\ revocation \in [Revocations -> Revocation]
    /\ \A c \in Revocations : revocation[c].pc = "set" =>
         /\ revocation[c].token \in Tokens /\ exp[revocation[c].token] # 0
         /\ revocation[c].ttl > 0
    /\ shown \in SUBSET Keys /\ keys_revoked \in SUBSET Keys
    /\ tokens_revoked \in SUBSET Tokens

\* A request that arrived after the admin was told that its key is revoked is
\* not served, and in production no sandbox key is, so neither gets a token.
RevokedKeysRefused ==
    \A r \in Requests : request[r].pc \in {"serve", "answered"} =>
        ~request[r].late /\ ~(Production /\ request[r].key \in Sandbox)

\* A key the admin was shown before the request came is never answered
\* "invalid_api_key", and "revoked_api_key" only after a revocation: /genkey
\* shows no key that could still fail to be stored.
ShownKeysAreKnown ==
    \A r \in Requests :
        /\ request[r].pc = "invalid" => ~request[r].known
        /\ request[r].pc = "revoked" => request[r].key \notin is_active

\* A token whose revocation was answered before verify_jwt was called is not
\* accepted, up to the last second before it expires: the time to live of the
\* blacklist is rounded down, counts from the SET, and may be set again by a
\* second revocation that read the clock earlier.
RevokedTokensRefused ==
    \A v \in Verifications :
        LET call == verification[v] IN
        call.pc = "accepted" /\ call.redis_client /\ call.late =>
            call.at > exp[call.token] - Second
=============================================================================
