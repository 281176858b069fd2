----------------------------- MODULE BotWizards -----------------------------
(***************************************************************************)
(* The four wizards of the Telegram bot (apps/bot/wizards/*.py) as the     *)
(* admin's chat meets them, and the session that apps/bot/session.py keeps.*)
(*                                                                         *)
(* Every wizard is a ConversationHandler with a state of its own, but all  *)
(* of them share one dictionary, context.user_data.  python-telegram-bot   *)
(* handles one update at a time and gives it to the first conversation, in *)
(* the order of registration in apps/bot/main.py, whose state has a        *)
(* handler for it: a text for a state that asks for text, a button (of any *)
(* message, however old) for a state that waits for one, /cancel for any   *)
(* state.  A handler that raises, as when a reply cannot be sent, leaves   *)
(* its conversation where it was and keeps what it did to the dictionary.  *)
(*                                                                         *)
(* What the admin types is abstracted to the wizard that took it: a field  *)
(* of user_data holds "" when it is absent, or the wizard that stored it.  *)
(* The body of a template is "unseen" until the admin saw its preview.     *)
(* Input that a handler rejects changes nothing and is left out.           *)
(***************************************************************************)
EXTENDS Integers

CONSTANTS
    MaxStarts,    \* bound: wizards started
    MaxSaves,     \* bound: saves that succeed
    MaxRestarts   \* bound: restarts of the bot

ASSUME ConstantsAssumption ==
    MaxStarts \in Nat /\ MaxSaves \in Nat /\ MaxRestarts \in Nat

VARIABLES
    conv,       \* state of each conversation
    user_data,  \* the dictionary
    held,       \* _conversations of SupabasePersistence, of which a row is made
    saved       \* what bot_sessions holds of conversations and dictionary

VARIABLES       \* Postgres: rows the wizards wrote, as what they were made of
    senders, projects, templates, webhooks

VARIABLES       \* history
    shown,      \* webhooks whose secret was shown
    disturbed,  \* wizards whose dictionary something else changed
    starts, saves, restarts

session == <<conv, user_data, held, saved>>
tables == <<senders, projects, templates, webhooks>>
counts == <<starts, saves, restarts>>
vars == <<session, tables, shown, disturbed, counts>>

-----------------------------------------------------------------------------
Position == [add_email |-> 1, new_project |-> 2, set_otp |-> 3, set_webhook |-> 4]
Wizards == DOMAIN Position

States ==
    [add_email |-> {"ASK_EMAIL", "ASK_CUSTOM_HOST", "ASK_PASSWORD"},
     new_project |-> {"ASK_NAME", "ASK_SLUG", "ASK_SENDER", "ASK_OTP_EXPIRY", "CONFIRM"},
     set_otp |-> {"ASK_SLUG", "ASK_SUBJECT", "ASK_BODY", "PREVIEW_CONFIRM"},
     set_webhook |-> {"ASK_SLUG", "ASK_URL", "ASK_EVENTS", "CONFIRM"}]

AnyState == UNION {States[w] : w \in Wizards}
ButtonStates == {"ASK_SENDER", "CONFIRM", "PREVIEW_CONFIRM"}
TextStates == AnyState \ ButtonStates

Fields == {"email", "host", "name", "slug", "senders", "sender", "expiry",
           "project", "subject", "body", "url", "events"}
Value == {"", "unseen"} \union Wizards
Empty == [f \in Fields |-> ""]

Conv == {c \in [Wizards -> AnyState \union {"END"}] :
            \A w \in Wizards : c[w] \in States[w] \union {"END"}}
Row == [Fields -> Value]

\* The dictionary restricted to the columns of a row.
Columns(fs) == [f \in fs |-> user_data[f]]
SenderRow == Columns({"email", "host"})
ProjectRow == Columns({"name", "slug", "sender", "expiry"})
TemplateRow == Columns({"project", "subject", "body"})
WebhookRow == Columns({"project", "url", "events"})

Init ==
    /\ conv = [w \in Wizards |-> "END"]
    /\ user_data = Empty /\ held = conv
    /\ saved = [conv |-> conv, user_data |-> user_data]
    /\ senders = {} /\ projects = {} /\ templates = {} /\ webhooks = {}
    /\ shown = {} /\ disturbed = {} /\ starts = 0 /\ saves = 0 /\ restarts = 0

-----------------------------------------------------------------------------
(* Dispatch.                                                                *)

\* w is the first conversation in one of the states S.
First(w, S) ==
    conv[w] \in S /\ \A v \in Wizards : Position[v] < Position[w] => conv[v] \notin S

\* An update that w handles in state s.
Text(w, s) == conv[w] = s /\ First(w, TextStates)
Button(w, s) == conv[w] = s /\ First(w, ButtonStates)

Goto(w, s) == conv' = [conv EXCEPT ![w] = s]

\* The handler's last reply goes out, and w is in state s; or it raises.
Reply(w, s) == Goto(w, s) \/ UNCHANGED conv

\* The handler of w makes the dictionary what d is.
Store(w, d) ==
    /\ user_data' = d
    /\ disturbed' = IF d = user_data THEN disturbed ELSE disturbed \union (Wizards \ {w})

Set(w, fs) == Store(w, [f \in Fields |-> IF f \in fs THEN w ELSE user_data[f]])
Clear(w) == Store(w, Empty)
Keep == UNCHANGED <<user_data, disturbed>>

InMemory == UNCHANGED <<held, saved, tables, shown, counts>>

-----------------------------------------------------------------------------
(* Entry points and /cancel.  Only /addemail leaves the dictionary alone;   *)
(* /setotp and /setwebhook may come with the slug of a project.             *)

StartState == [add_email |-> "ASK_EMAIL", new_project |-> "ASK_NAME",
               set_otp |-> "ASK_SLUG", set_webhook |-> "ASK_SLUG"]

\* Mutant: the states of the two wizards are confused.
SlugStateSwapped == [set_otp |-> "ASK_URL", set_webhook |-> "ASK_SUBJECT"]

SlugState == [set_otp |-> "ASK_SUBJECT", set_webhook |-> "ASK_URL"]

StartsWith(w, d) ==
    /\ user_data' = d
    /\ disturbed' = IF d = user_data THEN disturbed \ {w} ELSE Wizards \ {w}

WithProject(w, d) == [d EXCEPT !["project"] = w, !["slug"] = w]

Start(w) ==
    /\ conv[w] = "END"
    /\ starts < MaxStarts /\ starts' = starts + 1
    /\ \/ /\ StartsWith(w, IF w = "add_email" THEN user_data ELSE Empty)
          /\ Reply(w, StartState[w])
       \/ /\ w \in DOMAIN SlugState
          /\ StartsWith(w, WithProject(w, Empty))
          /\ Reply(w, SlugState[w])
    /\ UNCHANGED <<held, saved, tables, shown, saves, restarts>>

\* When the reply raises, w goes on without what it had stored.
Cancel(w) ==
    /\ First(w, AnyState)
    /\ user_data' = Empty /\ disturbed' = Wizards
    /\ Reply(w, "END")
    /\ InMemory

-----------------------------------------------------------------------------
(* /addemail.                                                               *)

\* The domain is a known provider's, or the host is asked for.
ReceiveEmail ==
    /\ Text("add_email", "ASK_EMAIL")
    /\ \/ Set("add_email", {"email", "host"}) /\ Reply("add_email", "ASK_PASSWORD")
       \/ Set("add_email", {"email"}) /\ Reply("add_email", "ASK_CUSTOM_HOST")
    /\ InMemory

ReceiveCustomHost ==
    /\ Text("add_email", "ASK_CUSTOM_HOST")
    /\ Set("add_email", {"host"})
    /\ Reply("add_email", "ASK_PASSWORD")
    /\ InMemory

\* Mutant: the login is not tried.
LoginSkipped == TRUE

\* A server takes a login only at its host and with an address.
LoginSucceeds == user_data["email"] # "" /\ user_data["host"] # ""

ReceivePassword ==
    /\ Text("add_email", "ASK_PASSWORD")
    /\ LoginSucceeds
    /\ \/ /\ senders' = senders \union {SenderRow}
          /\ \/ Clear("add_email") /\ Goto("add_email", "END")
             \/ Keep /\ Reply("add_email", "END")  \* no answer, or no reply
       \/ UNCHANGED senders /\ Keep /\ Reply("add_email", "END")
    /\ UNCHANGED <<held, saved, projects, templates, webhooks, shown, counts>>

-----------------------------------------------------------------------------
(* /newproject.                                                             *)

ReceiveName ==
    /\ Text("new_project", "ASK_NAME")
    /\ Set("new_project", {"name"})
    /\ Reply("new_project", "ASK_SLUG")
    /\ InMemory

\* The slug is free; there are senders to choose from, or the wizard ends.
ReceiveNewSlug ==
    /\ Text("new_project", "ASK_SLUG")
    /\ \/ Set("new_project", {"slug", "senders"}) /\ Reply("new_project", "ASK_SENDER")
       \/ Set("new_project", {"slug"}) /\ Reply("new_project", "END")
    /\ InMemory

PickSender ==
    /\ Button("new_project", "ASK_SENDER")
    /\ user_data["senders"] # ""
    /\ Set("new_project", {"sender"})
    /\ Goto("new_project", "ASK_OTP_EXPIRY")
    /\ InMemory

\* Mutant: the summary comes before the sender is chosen.
ReceiveExpiryEarly ==
    /\ Text("new_project", "ASK_OTP_EXPIRY") \/ Button("new_project", "ASK_SENDER")
    /\ Set("new_project", {"expiry"})
    /\ Reply("new_project", "CONFIRM")
    /\ InMemory

ReceiveExpiry ==
    /\ Text("new_project", "ASK_OTP_EXPIRY")
    /\ Set("new_project", {"expiry"})
    /\ Reply("new_project", "CONFIRM")
    /\ InMemory

\* The slug is UNIQUE: another wizard's is that of a project, so it is an
\* error, and so is a second project without one.
ConfirmProject ==
    /\ Button("new_project", "CONFIRM")
    /\ Goto("new_project", "END")
    /\ \/ /\ user_data["slug"] \in {"", "new_project"}
          /\ user_data["slug"] = "" => \A p \in projects : p["slug"] # ""
          /\ projects' = projects \union {ProjectRow}
          /\ Clear("new_project") \/ Keep          \* Keep: the answer is lost
       \/ UNCHANGED projects /\ Keep
    /\ UNCHANGED <<held, saved, senders, templates, webhooks, shown, counts>>

\* The button "cancel" of a summary.
CancelButton(w) ==
    /\ w \in {"new_project", "set_webhook"}
    /\ Button(w, "CONFIRM")
    /\ Clear(w)
    /\ Goto(w, "END")
    /\ InMemory

-----------------------------------------------------------------------------
(* /setotp, and the first step of /setwebhook.                              *)

ReceiveSlug(w) ==
    /\ w \in DOMAIN SlugState
    /\ Text(w, "ASK_SLUG")
    /\ Store(w, WithProject(w, user_data))
    /\ Reply(w, SlugState[w])
    /\ InMemory

ReceiveSubject ==
    /\ Text("set_otp", "ASK_SUBJECT")
    /\ Set("set_otp", {"subject"})
    /\ Reply("set_otp", "ASK_BODY")
    /\ InMemory

\* Mutant: the wizard goes on although there is no preview.
ReceiveBodyUnseen ==
    /\ Text("set_otp", "ASK_BODY")
    /\ Store("set_otp", [user_data EXCEPT !["body"] = "unseen"])
    /\ Goto("set_otp", "PREVIEW_CONFIRM")
    /\ InMemory

\* The preview is shown; or the body has a syntax error, or the reply raises.
ReceiveBody ==
    /\ Text("set_otp", "ASK_BODY")
    /\ \/ Set("set_otp", {"body"}) /\ Goto("set_otp", "PREVIEW_CONFIRM")
       \/ /\ Store("set_otp", [user_data EXCEPT !["body"] = "unseen"])
          /\ UNCHANGED conv
    /\ InMemory

DeclinePreview ==
    /\ Button("set_otp", "PREVIEW_CONFIRM")
    /\ Goto("set_otp", "ASK_BODY")
    /\ Keep /\ InMemory

\* Without a project id the update is an error.
SaveTemplate ==
    /\ Button("set_otp", "PREVIEW_CONFIRM")
    /\ Goto("set_otp", "END")
    /\ \/ /\ user_data["project"] # ""
          /\ templates' = templates \union {TemplateRow}
          /\ Clear("set_otp") \/ Keep              \* Keep: the answer is lost
       \/ UNCHANGED templates /\ Keep
    /\ UNCHANGED <<held, saved, senders, projects, webhooks, shown, counts>>

-----------------------------------------------------------------------------
(* /setwebhook.                                                             *)

ReceiveUrl ==
    /\ Text("set_webhook", "ASK_URL")
    /\ Set("set_webhook", {"url"})
    /\ Reply("set_webhook", "ASK_EVENTS")
    /\ InMemory

ReceiveEvents ==
    /\ Text("set_webhook", "ASK_EVENTS")
    /\ Set("set_webhook", {"events"})
    /\ Reply("set_webhook", "CONFIRM")
    /\ InMemory

\* The row is inserted and its secret shown; the insert raises, with or
\* without effect; or the message with the secret does.
ConfirmWebhook ==
    /\ Button("set_webhook", "CONFIRM")
    /\ \/ /\ user_data["project"] # ""
          /\ webhooks' = webhooks \union {WebhookRow}
          /\ \/ /\ shown' = shown \union {WebhookRow}
                /\ Clear("set_webhook") /\ Goto("set_webhook", "END")
             \/ Keep /\ Reply("set_webhook", "END") /\ UNCHANGED shown
       \/ UNCHANGED <<webhooks, shown>> /\ Keep /\ Goto("set_webhook", "END")
    /\ UNCHANGED <<held, saved, senders, projects, templates, counts>>

-----------------------------------------------------------------------------
(* The session.  Dictionary and conversations are saved one by one, now and *)
(* then.  A write that fails is dropped, but the next row of conversations  *)
(* makes up for it; of reads that fail nobody hears.                        *)

Unsaved ==
    /\ saves < MaxSaves /\ saves' = saves + 1
    /\ restarts < MaxRestarts  \* bound: only saves that a restart may read
    /\ UNCHANGED <<conv, user_data, tables, shown, disturbed, starts, restarts>>

SaveUserData ==
    /\ saved' = [saved EXCEPT !.user_data = user_data]
    /\ UNCHANGED held
    /\ Unsaved

SaveConversation(w) ==
    /\ held' = [held EXCEPT ![w] = conv[w]]
    /\ saved' = [saved EXCEPT !.conv = held'] \/ UNCHANGED saved
    /\ Unsaved

\* The wizards ask for their states in order, and the first read that succeeds
\* is good for all that follow.
Loaded(k) == [w \in Wizards |-> IF Position[w] > k THEN saved.conv[w] ELSE "END"]

\* What was restored together is as it was; otherwise all wizards are disturbed.
Restart ==
    /\ restarts < MaxRestarts /\ restarts' = restarts + 1
    /\ \E k \in {0} \union {Position[w] : w \in Wizards} :
          conv' = Loaded(k) /\ held' = IF k = 4 THEN Loaded(4) ELSE saved.conv
    /\ user_data' \in {saved.user_data, Empty}
    /\ disturbed' = IF UNCHANGED <<conv, user_data>> THEN disturbed ELSE Wizards
    /\ UNCHANGED <<saved, tables, shown, starts, saves>>

Handle(w) == Start(w) \/ Cancel(w) \/ CancelButton(w) \/ ReceiveSlug(w) \/ SaveConversation(w)

AddEmail == ReceiveEmail \/ ReceiveCustomHost \/ ReceivePassword
NewProject == ReceiveName \/ ReceiveNewSlug \/ PickSender \/ ReceiveExpiry \/ ConfirmProject
SetOtp == ReceiveSubject \/ ReceiveBody \/ DeclinePreview \/ SaveTemplate
SetWebhook == ReceiveUrl \/ ReceiveEvents \/ ConfirmWebhook

Next ==
    \/ \E w \in Wizards : Handle(w)
    \/ AddEmail \/ NewProject \/ SetOtp \/ SetWebhook
    \/ SaveUserData \/ Restart

Spec == Init /\ [][Next]_vars

-----------------------------------------------------------------------------
(* Properties.                                                              *)

\* Every conversation is in one of its own states, a template belongs to a
\* project, and the bounds are kept.
TypeOK ==
    /\ conv \in Conv /\ held \in Conv /\ user_data \in Row
    /\ saved \in [conv : Conv, user_data : Row]
    /\ disturbed \subseteq Wizards
    /\ \A t \in templates : t["project"] # ""
    /\ starts \in 0..MaxStarts /\ saves \in 0..MaxSaves /\ restarts \in 0..MaxRestarts

\* A wizard whose dictionary neither another wizard nor /cancel has changed
\* since it began, and no restart has rolled back, writes
\* rows of what it was told itself and nothing else, whatever was entered
\* twice, declined, not answered, or failed before (handle_confirm_callback of
\* new_project.py and set_webhook.py, handle_preview_confirm of set_otp.py).
WritesItsOwn(w, added) ==
    w \notin disturbed => \A row \in added : \A f \in DOMAIN row : row[f] = w

UndisturbedWritesItsOwn ==
    [][/\ WritesItsOwn("new_project", projects' \ projects)
       /\ WritesItsOwn("set_otp", templates' \ templates)
       /\ WritesItsOwn("set_webhook", webhooks' \ webhooks)]_vars

\* However the wizards disturb each other and whatever a restart brings back,
\* a sender is only saved with an address and a host from /addemail, for which
\* the login succeeded (receive_password).
SendersAreVerified ==
    \A s \in senders : s["email"] = "add_email" /\ s["host"] = "add_email"

\* A signing secret that was shown belongs to a webhook in the table: nobody
\* is left with the secret of a webhook that does not exist.
ShownIsStored == shown \subseteq webhooks

\* Unless a restart brings back a state older than the dictionary, no body is
\* saved as a template without its preview having been shown: neither a body
\* with a syntax error nor one whose preview could not be sent.
PreviewBeforeSaving ==
    \A t \in templates : t["body"] = "unseen" => restarts > 0
=============================================================================
