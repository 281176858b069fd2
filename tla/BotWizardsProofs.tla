-------------------------- MODULE BotWizardsProofs --------------------------
(***************************************************************************)
(* Proofs about BotWizards, for any number of starts, saves and restarts.  *)
(*                                                                         *)
(* OwnsInv says for every state of a wizard which fields of the dictionary *)
(* are the wizard's own when it gets there undisturbed; a step of one      *)
(* wizard either leaves the dictionary alone or disturbs all others, so    *)
(* that only its own fields need to be looked at.                          *)
(***************************************************************************)
EXTENDS BotWizards, TLAPS

Undisturbed(w) == w \notin disturbed
At(w, S) == conv[w] \in S
Own(w, f) == user_data[f] = w

NewProjectOwns ==
    Undisturbed("new_project") =>
        /\ At("new_project", {"ASK_SLUG", "ASK_SENDER", "ASK_OTP_EXPIRY", "CONFIRM"})
               => Own("new_project", "name")
        /\ At("new_project", {"ASK_SENDER", "ASK_OTP_EXPIRY", "CONFIRM"})
               => Own("new_project", "slug")
        /\ At("new_project", {"ASK_OTP_EXPIRY", "CONFIRM"})
               => Own("new_project", "sender")
        /\ At("new_project", {"CONFIRM"}) => Own("new_project", "expiry")

SetOtpOwns ==
    Undisturbed("set_otp") =>
        /\ At("set_otp", {"ASK_SUBJECT", "ASK_BODY", "PREVIEW_CONFIRM"})
               => Own("set_otp", "project")
        /\ At("set_otp", {"ASK_BODY", "PREVIEW_CONFIRM"}) => Own("set_otp", "subject")
        /\ At("set_otp", {"PREVIEW_CONFIRM"}) => Own("set_otp", "body")

SetWebhookOwns ==
    Undisturbed("set_webhook") =>
        /\ At("set_webhook", {"ASK_URL", "ASK_EVENTS", "CONFIRM"})
               => Own("set_webhook", "project")
        /\ At("set_webhook", {"ASK_EVENTS", "CONFIRM"}) => Own("set_webhook", "url")
        /\ At("set_webhook", {"CONFIRM"}) => Own("set_webhook", "events")

OwnsInv == NewProjectOwns /\ SetOtpOwns /\ SetWebhookOwns

\* Only /addemail stores an address or a host.
Addresses(d) == \A f \in {"email", "host"} : d[f] \in {"", "add_email"}

\* Before the first restart the wizard waits for a "yes" with a body it showed.
SeenInv ==
    restarts = 0 /\ conv["set_otp"] = "PREVIEW_CONFIRM" => user_data["body"] # "unseen"

RowsInv == SendersAreVerified /\ ShownIsStored /\ PreviewBeforeSaving

IInv ==
    /\ TypeOK
    /\ OwnsInv
    /\ Addresses(user_data) /\ Addresses(saved.user_data)
    /\ SeenInv
    /\ RowsInv

-----------------------------------------------------------------------------
(* The wizards by name.                                                     *)
LEMMA WizardNames ==
    /\ Wizards = {"add_email", "new_project", "set_otp", "set_webhook"}
    /\ DOMAIN SlugState = {"set_otp", "set_webhook"}
  BY DEF Wizards, Position, SlugState

(* The states of each wizard, which none shares with "END".                 *)
LEMMA StateNames ==
    /\ States["add_email"] = {"ASK_EMAIL", "ASK_CUSTOM_HOST", "ASK_PASSWORD"}
    /\ States["new_project"] =
          {"ASK_NAME", "ASK_SLUG", "ASK_SENDER", "ASK_OTP_EXPIRY", "CONFIRM"}
    /\ States["set_otp"] = {"ASK_SLUG", "ASK_SUBJECT", "ASK_BODY", "PREVIEW_CONFIRM"}
    /\ States["set_webhook"] = {"ASK_SLUG", "ASK_URL", "ASK_EVENTS", "CONFIRM"}
    /\ \A w \in Wizards : States[w] \subseteq AnyState /\ "END" \notin States[w]
<1>1. /\ States["add_email"] = {"ASK_EMAIL", "ASK_CUSTOM_HOST", "ASK_PASSWORD"}
      /\ States["new_project"] =
            {"ASK_NAME", "ASK_SLUG", "ASK_SENDER", "ASK_OTP_EXPIRY", "CONFIRM"}
      /\ States["set_otp"] = {"ASK_SLUG", "ASK_SUBJECT", "ASK_BODY", "PREVIEW_CONFIRM"}
      /\ States["set_webhook"] = {"ASK_SLUG", "ASK_URL", "ASK_EVENTS", "CONFIRM"}
  BY DEF States
<1>2. \A w \in Wizards : States[w] \subseteq AnyState
  BY DEF AnyState
<1>3. \A w \in Wizards : "END" \notin States[w]
  BY <1>1, WizardNames
<1>4. QED
  BY <1>1, <1>2, <1>3

(* A conversation that moves to one of its own states stays typed.          *)
LEMMA GotoTyped ==
    ASSUME conv \in Conv, NEW w \in Wizards, NEW s \in States[w] \union {"END"},
           Reply(w, s)
    PROVE  conv' \in Conv /\ \A v \in Wizards \ {w} : conv'[v] = conv[v]
<1>1. conv \in [Wizards -> AnyState \union {"END"}]
  BY DEF Conv
<1>2. s \in AnyState \union {"END"}
  BY StateNames
<1>3. CASE UNCHANGED conv
  BY <1>3
<1>4. CASE Goto(w, s)
  <2>1. conv' = [conv EXCEPT ![w] = s]
    BY <1>4 DEF Goto
  <2>2. conv' \in [Wizards -> AnyState \union {"END"}]
    BY <1>1, <1>2, <2>1
  <2>3. \A v \in Wizards : conv'[v] \in States[v] \union {"END"}
    BY <1>1, <2>1 DEF Conv
  <2>4. QED
    BY <1>1, <2>1, <2>2, <2>3 DEF Conv
<1>5. QED
  BY <1>3, <1>4 DEF Reply

(* What a handler stores is a dictionary.                                   *)
LEMMA Dictionaries ==
    /\ Empty \in Row /\ Addresses(Empty)
    /\ \A w \in Wizards : \A d \in Row :
          /\ WithProject(w, d) \in Row
          /\ Addresses(d) => Addresses(WithProject(w, d))
    /\ \A w \in Wizards : \A fs \in SUBSET Fields : user_data \in Row =>
          [f \in Fields |-> IF f \in fs THEN w ELSE user_data[f]] \in Row
<1>1. Empty \in Row /\ Addresses(Empty)
  BY DEF Empty, Row, Value, Addresses, Fields
<1>2. ASSUME NEW w \in Wizards, NEW d \in Row
      PROVE  /\ WithProject(w, d) \in Row
             /\ Addresses(d) => Addresses(WithProject(w, d))
  BY DEF WithProject, Row, Value, Addresses, Fields
<1>3. ASSUME NEW w \in Wizards, NEW fs \in SUBSET Fields, user_data \in Row
      PROVE  [f \in Fields |-> IF f \in fs THEN w ELSE user_data[f]] \in Row
  BY <1>3 DEF Row, Value
<1>4. QED
  BY <1>1, <1>2, <1>3

(* What a handler of w makes of the dictionary, and whom that disturbs.     *)
Disturbs(w) ==
    \/ /\ user_data' = user_data
       /\ \A v \in Wizards \ {w} : v \in disturbed' <=> v \in disturbed
    \/ Wizards \ {w} \subseteq disturbed'

LEMMA StoreFacts ==
    ASSUME TypeOK, NEW w \in Wizards, NEW d \in Row, Store(w, d)
    PROVE  /\ user_data' = d /\ disturbed' \subseteq Wizards
           /\ w \in disturbed' <=> w \in disturbed
           /\ Disturbs(w)
  BY DEF TypeOK, Store, Disturbs

LEMMA SetFacts ==
    ASSUME TypeOK, NEW w \in Wizards, NEW fs \in SUBSET Fields, Set(w, fs)
    PROVE  /\ user_data' \in Row /\ disturbed' \subseteq Wizards
           /\ w \in disturbed' <=> w \in disturbed
           /\ \A f \in fs : user_data'[f] = w
           /\ \A f \in Fields \ fs : user_data'[f] = user_data[f]
           /\ Disturbs(w)
<1> DEFINE d == [f \in Fields |-> IF f \in fs THEN w ELSE user_data[f]]
<1>1. d \in Row /\ Store(w, d)
  BY Dictionaries DEF TypeOK, Set
<1>2. \A f \in fs : d[f] = w
  OBVIOUS
<1>3. \A f \in Fields \ fs : d[f] = user_data[f]
  OBVIOUS
<1> HIDE DEF d
<1>4. QED
  BY <1>1, <1>2, <1>3, StoreFacts

LEMMA ClearFacts ==
    ASSUME TypeOK, NEW w \in Wizards, Clear(w)
    PROVE  /\ user_data' \in Row /\ Addresses(user_data') /\ user_data'["body"] = ""
           /\ disturbed' \subseteq Wizards
           /\ w \in disturbed' <=> w \in disturbed
           /\ Disturbs(w)
<1>1. Empty["body"] = ""
  BY DEF Empty, Fields
<1>2. QED
  BY <1>1, StoreFacts, Dictionaries DEF Clear

LEMMA KeepFacts ==
    ASSUME TypeOK, NEW w \in Wizards, Keep
    PROVE  /\ user_data' \in Row /\ disturbed' \subseteq Wizards
           /\ disturbed' = disturbed /\ user_data' = user_data
           /\ Disturbs(w)
  BY DEF TypeOK, Keep, Disturbs

-----------------------------------------------------------------------------
(* A step of w: what has to be shown of it, and what follows for the rest.  *)

LEMMA OthersKept ==
    ASSUME TypeOK, OwnsInv, NEW w \in Wizards, Disturbs(w),
           \A v \in Wizards \ {w} : conv'[v] = conv[v]
    PROVE  /\ w # "new_project" => NewProjectOwns'
           /\ w # "set_otp" => SetOtpOwns'
           /\ w # "set_webhook" => SetWebhookOwns'
<1>1. w # "new_project" => NewProjectOwns'
  BY WizardNames DEF OwnsInv, NewProjectOwns, Undisturbed, At, Own, Disturbs
<1>2. w # "set_otp" => SetOtpOwns'
  BY WizardNames DEF OwnsInv, SetOtpOwns, Undisturbed, At, Own, Disturbs
<1>3. w # "set_webhook" => SetWebhookOwns'
  BY WizardNames DEF OwnsInv, SetWebhookOwns, Undisturbed, At, Own, Disturbs
<1>4. QED
  BY <1>1, <1>2, <1>3

LEMMA StepInv ==
    ASSUME IInv, NEW w \in Wizards, Disturbs(w),
           conv' \in Conv, \A v \in Wizards \ {w} : conv'[v] = conv[v],
           user_data' \in Row, Addresses(user_data'), disturbed' \subseteq Wizards,
           w = "new_project" => NewProjectOwns',
           w = "set_otp" => SetOtpOwns' /\ SeenInv',
           w = "set_webhook" => SetWebhookOwns',
           w # "set_otp" => user_data'["body"] \in {user_data["body"], ""},
           UNCHANGED <<held, saved, saves, restarts>>, starts' \in 0..MaxStarts,
           \A t \in templates' : t["project"] # "", RowsInv'
    PROVE  IInv'
<1>1. TypeOK'
  BY DEF IInv, TypeOK
<1>2. OwnsInv'
  BY OthersKept DEF IInv, OwnsInv
<1>3. Addresses(saved.user_data)'
  BY DEF IInv, Addresses
<1>4. SeenInv'
  <2>1. CASE w = "set_otp"
    BY <2>1
  <2>2. CASE w # "set_otp"
    <3>1. conv'["set_otp"] = conv["set_otp"]
      BY <2>2, WizardNames
    <3>2. QED
      BY <2>2, <3>1 DEF IInv, SeenInv
  <2>3. QED
    BY <2>1, <2>2
<1>5. Addresses(user_data)'
  BY DEF Addresses
<1>6. QED
  BY <1>1, <1>2, <1>3, <1>4, <1>5 DEF IInv

(* A step that writes no row.                                               *)
LEMMA HandlerInv ==
    ASSUME IInv, InMemory, NEW w \in Wizards, Disturbs(w),
           conv' \in Conv, \A v \in Wizards \ {w} : conv'[v] = conv[v],
           user_data' \in Row, Addresses(user_data'), disturbed' \subseteq Wizards,
           w = "new_project" => NewProjectOwns',
           w = "set_otp" => SetOtpOwns' /\ SeenInv',
           w = "set_webhook" => SetWebhookOwns',
           w # "set_otp" => user_data'["body"] \in {user_data["body"], ""}
    PROVE  IInv'
<1>1. RowsInv' /\ \A t \in templates' : t["project"] # ""
  BY DEF IInv, TypeOK, RowsInv, SendersAreVerified, ShownIsStored,
         PreviewBeforeSaving, InMemory, tables, counts
<1>2. UNCHANGED <<held, saved, saves, restarts>> /\ starts' \in 0..MaxStarts
  BY DEF IInv, TypeOK, InMemory, counts
<1>3. QED
  BY <1>1, <1>2, StepInv

(* Nothing is stored initially.                                             *)
LEMMA InitInv == Init => IInv
<1> SUFFICES ASSUME Init PROVE IInv
  OBVIOUS
<1>1. conv \in Conv /\ \A w \in Wizards : conv[w] = "END"
  BY DEF Init, Conv
<1>2. user_data \in Row /\ Addresses(user_data)
  BY Dictionaries DEF Init
<1>3. TypeOK /\ Addresses(saved.user_data)
  BY <1>1, <1>2, ConstantsAssumption DEF Init, TypeOK
<1>4. OwnsInv
  BY <1>1, WizardNames DEF OwnsInv, NewProjectOwns, SetOtpOwns, SetWebhookOwns, At
<1>5. SeenInv
  BY <1>1, WizardNames DEF SeenInv
<1>6. RowsInv
  BY DEF Init, RowsInv, SendersAreVerified, ShownIsStored, PreviewBeforeSaving
<1>7. QED
  BY <1>2, <1>3, <1>4, <1>5, <1>6 DEF IInv

-----------------------------------------------------------------------------
(* Steps of any wizard.                                                     *)

LEMMA StartInv ==
    ASSUME IInv, NEW w \in Wizards, Start(w)
    PROVE  IInv'
<1>1. TypeOK /\ Addresses(user_data) /\ user_data \in Row /\ conv \in Conv
      /\ disturbed \subseteq Wizards
  BY DEF IInv, TypeOK
<1>2. PICK d \in Row, s \in States[w] :
         /\ StartsWith(w, d) /\ Reply(w, s) /\ Addresses(d)
         /\ d["body"] \in {user_data["body"], ""}
         /\ \/ s = StartState[w]
            \/ w \in DOMAIN SlugState /\ s = SlugState[w] /\ d["project"] = w
  <2>1. CASE /\ StartsWith(w, IF w = "add_email" THEN user_data ELSE Empty)
             /\ Reply(w, StartState[w])
    <3>1. StartState[w] \in States[w]
      BY StateNames, WizardNames DEF StartState
    <3>2. Empty["body"] = ""
      BY DEF Empty, Fields
    <3>3. QED
      BY <1>1, <2>1, <3>1, <3>2, Dictionaries
  <2>2. CASE /\ w \in DOMAIN SlugState
             /\ StartsWith(w, WithProject(w, Empty))
             /\ Reply(w, SlugState[w])
    <3>1. SlugState[w] \in States[w]
      BY <2>2, StateNames, WizardNames DEF SlugState
    <3>2. WithProject(w, Empty)["body"] = "" /\ WithProject(w, Empty)["project"] = w
      BY DEF WithProject, Empty, Fields
    <3>3. QED
      BY <1>1, <2>2, <3>1, <3>2, Dictionaries
  <2>3. QED
    BY <2>1, <2>2 DEF Start
<1>3. conv' \in Conv /\ \A v \in Wizards \ {w} : conv'[v] = conv[v]
  BY <1>1, <1>2, GotoTyped
<1>4. /\ user_data' = d /\ disturbed' \subseteq Wizards /\ Disturbs(w)
  BY <1>1, <1>2 DEF StartsWith, Disturbs
<1>5. conv'[w] \in {"END", s}
  BY <1>1, <1>2 DEF Start, Reply, Goto, Conv
<1>6. ASSUME w = "new_project" PROVE NewProjectOwns'
  <2>1. conv'[w] \in {"END", "ASK_NAME"}
    BY <1>2, <1>5, <1>6, WizardNames DEF StartState
  <2>2. QED
    BY <1>6, <2>1 DEF NewProjectOwns, At
<1>7. ASSUME w = "set_otp" PROVE SetOtpOwns' /\ SeenInv'
  <2>1. \/ conv'[w] \in {"END", "ASK_SLUG"}
        \/ conv'[w] = "ASK_SUBJECT" /\ user_data'["project"] = w
    BY <1>2, <1>4, <1>5, <1>7 DEF StartState, SlugState
  <2>2. QED
    BY <1>7, <2>1 DEF SetOtpOwns, SeenInv, At, Own
<1>8. ASSUME w = "set_webhook" PROVE SetWebhookOwns'
  <2>1. \/ conv'[w] \in {"END", "ASK_SLUG"}
        \/ conv'[w] = "ASK_URL" /\ user_data'["project"] = w
    BY <1>2, <1>4, <1>5, <1>8 DEF StartState, SlugState
  <2>2. QED
    BY <1>8, <2>1 DEF SetWebhookOwns, At, Own
<1>9. /\ UNCHANGED <<held, saved, saves, restarts>> /\ starts' \in 0..MaxStarts
      /\ \A t \in templates' : t["project"] # ""
  <2>1. /\ UNCHANGED <<held, saved, saves, restarts, templates>>
        /\ starts < MaxStarts /\ starts' = starts + 1 /\ starts \in 0..MaxStarts
    BY <1>1 DEF Start, TypeOK, tables
  <2>2. starts' \in 0..MaxStarts
    BY <2>1, ConstantsAssumption
  <2>3. QED
    BY <1>1, <2>1, <2>2 DEF TypeOK
<1>10. RowsInv'
  BY DEF IInv, Start, RowsInv, SendersAreVerified, ShownIsStored,
         PreviewBeforeSaving, tables
<1>11. QED
  BY <1>2, <1>3, <1>4, <1>6, <1>7, <1>8, <1>9, <1>10, StepInv

LEMMA CancelInv ==
    ASSUME IInv, NEW w \in Wizards, Cancel(w)
    PROVE  IInv'
<1>1. TypeOK /\ conv \in Conv /\ Reply(w, "END")
  BY DEF IInv, TypeOK, Cancel
<1>2. conv' \in Conv /\ \A v \in Wizards \ {w} : conv'[v] = conv[v]
  BY <1>1, GotoTyped
<1>3. user_data' \in Row /\ Addresses(user_data') /\ user_data'["body"] = ""
      /\ disturbed' = Wizards /\ Disturbs(w)
  BY Dictionaries DEF Cancel, Disturbs, Empty, Fields
<1>4. NewProjectOwns' /\ SetOtpOwns' /\ SetWebhookOwns' /\ SeenInv'
  BY <1>3, WizardNames
     DEF NewProjectOwns, SetOtpOwns, SetWebhookOwns, SeenInv, Undisturbed
<1>5. QED
  BY <1>2, <1>3, <1>4, HandlerInv DEF Cancel

(* A wizard that ends has nothing left to own.                              *)
LEMMA EndOwns ==
    ASSUME TypeOK, NEW w \in Wizards, Goto(w, "END")
    PROVE  /\ conv' \in Conv /\ \A v \in Wizards \ {w} : conv'[v] = conv[v]
           /\ w = "new_project" => NewProjectOwns'
           /\ w = "set_otp" => SetOtpOwns' /\ SeenInv'
           /\ w = "set_webhook" => SetWebhookOwns'
<1>1. conv' \in Conv /\ \A v \in Wizards \ {w} : conv'[v] = conv[v]
  BY GotoTyped DEF TypeOK, Reply
<1>2. conv'[w] = "END"
  BY DEF Goto, TypeOK, Conv
<1>3. QED
  BY <1>1, <1>2 DEF NewProjectOwns, SetOtpOwns, SetWebhookOwns, SeenInv, At

LEMMA CancelButtonInv ==
    ASSUME IInv, NEW w \in Wizards, CancelButton(w)
    PROVE  IInv'
<1>1. TypeOK /\ Clear(w) /\ Goto(w, "END") /\ InMemory
  BY DEF IInv, CancelButton
<1>2. QED
  BY <1>1, EndOwns, ClearFacts, HandlerInv

LEMMA ReceiveSlugInv ==
    ASSUME IInv, NEW w \in Wizards, ReceiveSlug(w)
    PROVE  IInv'
<1>1. TypeOK /\ Addresses(user_data) /\ user_data \in Row /\ InMemory
      /\ w \in {"set_otp", "set_webhook"} /\ conv[w] = "ASK_SLUG"
      /\ Store(w, WithProject(w, user_data)) /\ Reply(w, SlugState[w])
  BY WizardNames DEF IInv, TypeOK, ReceiveSlug, Text
<1>2. SlugState[w] \in States[w]
  BY <1>1, StateNames DEF SlugState
<1>3. conv' \in Conv /\ \A v \in Wizards \ {w} : conv'[v] = conv[v]
  BY <1>1, <1>2, GotoTyped DEF TypeOK
<1>4. conv'[w] \in {"ASK_SLUG", SlugState[w]}
  BY <1>1 DEF Reply, Goto, TypeOK, Conv
<1>5. /\ user_data' \in Row /\ Addresses(user_data')
      /\ user_data' = WithProject(w, user_data)
      /\ disturbed' \subseteq Wizards /\ Disturbs(w)
  BY <1>1, Dictionaries, StoreFacts
<1>6. user_data'["project"] = w /\ user_data'["body"] = user_data["body"]
  BY <1>1, <1>5 DEF WithProject, Row, Fields
<1>7. w = "set_otp" => SetOtpOwns' /\ SeenInv'
  BY <1>4, <1>6 DEF SlugState, SetOtpOwns, SeenInv, At, Own
<1>8. w = "set_webhook" => SetWebhookOwns'
  BY <1>4, <1>6 DEF SlugState, SetWebhookOwns, At, Own
<1>9. QED
  BY <1>1, <1>3, <1>5, <1>6, <1>7, <1>8, HandlerInv

(* A text is stored in fields other than the body, and w is asked the next  *)
(* question, or the reply raises.                                           *)
LEMMA TextInv ==
    ASSUME IInv, InMemory, NEW w \in Wizards,
           NEW fs \in SUBSET (Fields \ {"body"}), NEW s \in States[w] \union {"END"},
           Set(w, fs), Reply(w, s),
           w # "add_email" => fs \cap {"email", "host"} = {},
           w = "new_project" => NewProjectOwns',
           w = "set_otp" => SetOtpOwns' /\ s # "PREVIEW_CONFIRM",
           w = "set_webhook" => SetWebhookOwns'
    PROVE  IInv'
<1>1. TypeOK /\ Addresses(user_data) /\ fs \in SUBSET Fields
  BY DEF IInv
<1>2. conv' \in Conv /\ \A v \in Wizards \ {w} : conv'[v] = conv[v]
  BY <1>1, GotoTyped DEF TypeOK
<1>3. /\ user_data' \in Row /\ disturbed' \subseteq Wizards /\ Disturbs(w)
      /\ \A f \in fs : user_data'[f] = w
      /\ \A f \in Fields \ fs : user_data'[f] = user_data[f]
  BY <1>1, SetFacts
<1>4. Addresses(user_data') /\ user_data'["body"] = user_data["body"]
  BY <1>1, <1>3 DEF Addresses, Fields
<1>5. w = "set_otp" => SeenInv'
  BY <1>4 DEF IInv, SeenInv, Reply, Goto, TypeOK, Conv, InMemory, counts
<1>6. QED
  BY <1>2, <1>3, <1>4, <1>5, HandlerInv

-----------------------------------------------------------------------------
(* /addemail.                                                               *)

LEMMA AddEmailInv ==
    ASSUME IInv, AddEmail
    PROVE  IInv'
<1>1. "add_email" \in Wizards /\ {"email", "host"} \in SUBSET (Fields \ {"body"})
      /\ {"ASK_CUSTOM_HOST", "ASK_PASSWORD"} \subseteq States["add_email"]
      /\ TypeOK /\ Addresses(user_data) /\ RowsInv
  BY WizardNames, StateNames DEF Fields, IInv
<1>2. CASE ReceiveEmail
  <2>1. CASE Set("add_email", {"email", "host"}) /\ Reply("add_email", "ASK_PASSWORD")
    BY <1>1, <1>2, <2>1, TextInv DEF ReceiveEmail
  <2>2. CASE Set("add_email", {"email"}) /\ Reply("add_email", "ASK_CUSTOM_HOST")
    BY <1>1, <1>2, <2>2, TextInv DEF ReceiveEmail
  <2>3. QED
    BY <1>2, <2>1, <2>2 DEF ReceiveEmail
<1>3. CASE ReceiveCustomHost
  BY <1>1, <1>3, TextInv DEF ReceiveCustomHost
<1>4. CASE ReceivePassword
  <2>1. Reply("add_email", "END") /\ (Clear("add_email") \/ Keep)
    BY <1>4 DEF ReceivePassword, Reply
  <2>2. conv' \in Conv /\ \A v \in Wizards \ {"add_email"} : conv'[v] = conv[v]
    BY <1>1, <2>1, GotoTyped DEF TypeOK
  <2>3. /\ user_data' \in Row /\ Addresses(user_data') /\ disturbed' \subseteq Wizards
        /\ Disturbs("add_email") /\ user_data'["body"] \in {user_data["body"], ""}
    BY <1>1, <2>1, ClearFacts, KeepFacts
  <2>4. SenderRow["email"] = "add_email" /\ SenderRow["host"] = "add_email"
    BY <1>1, <1>4 DEF ReceivePassword, LoginSucceeds, Addresses, SenderRow, Columns
  <2>5. SendersAreVerified'
    <3>1. senders' = senders \union {SenderRow} \/ senders' = senders
      BY <1>4 DEF ReceivePassword
    <3>2. QED
      BY <1>1, <2>4, <3>1 DEF RowsInv, SendersAreVerified
  <2>6. UNCHANGED <<held, saved, projects, templates, webhooks, shown, starts, saves, restarts>>
    BY <1>4 DEF ReceivePassword, counts
  <2>7. RowsInv' /\ \A t \in templates' : t["project"] # ""
    BY <1>1, <2>5, <2>6 DEF RowsInv, ShownIsStored, PreviewBeforeSaving, TypeOK
  <2>8. QED
    BY <1>1, <2>2, <2>3, <2>6, <2>7, StepInv DEF TypeOK
<1>5. QED
  BY <1>2, <1>3, <1>4 DEF AddEmail

-----------------------------------------------------------------------------
(* /newproject.                                                             *)

(* What the wizard owns at each question, if it is undisturbed.             *)
LEMMA NewProjectTexts ==
    ASSUME IInv, InMemory, ReceiveName \/ ReceiveNewSlug \/ PickSender \/ ReceiveExpiry
    PROVE  IInv'
<1>1. TypeOK /\ NewProjectOwns /\ "new_project" \in Wizards
  BY WizardNames DEF IInv, OwnsInv
<1> DEFINE w == "new_project"
<1>2. PICK fs \in SUBSET (Fields \ {"body", "email", "host"}),
           s \in States[w] \union {"END"} :
         /\ Set(w, fs) /\ Reply(w, s)
         /\ \/ conv[w] = "ASK_NAME" /\ s = "ASK_SLUG" /\ "name" \in fs
            \/ conv[w] = "ASK_SLUG" /\ s \in {"ASK_SENDER", "END"} /\ "slug" \in fs
            \/ conv[w] = "ASK_SENDER" /\ s = "ASK_OTP_EXPIRY" /\ "sender" \in fs
            \/ conv[w] = "ASK_OTP_EXPIRY" /\ s = "CONFIRM" /\ "expiry" \in fs
  <2>1. /\ {"ASK_SLUG", "ASK_SENDER", "ASK_OTP_EXPIRY", "CONFIRM", "END"}
             \subseteq States[w] \union {"END"}
        /\ {"name", "slug", "senders", "sender", "expiry"}
             \subseteq Fields \ {"body", "email", "host"}
    BY StateNames DEF Fields
  <2>2. CASE ReceiveName
    BY <2>1, <2>2 DEF ReceiveName, Text
  <2>3. CASE ReceiveNewSlug
    <3>1. CASE Set(w, {"slug", "senders"}) /\ Reply(w, "ASK_SENDER")
      BY <2>1, <2>3, <3>1 DEF ReceiveNewSlug, Text
    <3>2. CASE Set(w, {"slug"}) /\ Reply(w, "END")
      BY <2>1, <2>3, <3>2 DEF ReceiveNewSlug, Text
    <3>3. QED
      BY <2>3, <3>1, <3>2 DEF ReceiveNewSlug
  <2>4. CASE PickSender
    BY <2>1, <2>4 DEF PickSender, Button, Reply
  <2>5. CASE ReceiveExpiry
    BY <2>1, <2>5 DEF ReceiveExpiry, Text
  <2>6. QED
    BY <2>2, <2>3, <2>4, <2>5
<1>3. /\ w \in disturbed' <=> w \in disturbed
      /\ \A f \in fs : user_data'[f] = w
      /\ \A f \in Fields \ fs : user_data'[f] = user_data[f]
  BY <1>1, <1>2, SetFacts
<1>4. conv'[w] \in {conv[w], s}
  BY <1>1, <1>2 DEF Reply, Goto, TypeOK, Conv
<1>5. \A f \in Fields : user_data[f] = w => user_data'[f] = w
  BY <1>3
<1>6. {"name", "slug", "sender", "expiry"} \subseteq Fields
  BY DEF Fields
<1>7. NewProjectOwns'
  BY <1>1, <1>2, <1>3, <1>4, <1>5, <1>6 DEF NewProjectOwns, Undisturbed, At, Own
<1>8. QED
  BY <1>1, <1>2, <1>7, TextInv

LEMMA ConfirmProjectInv ==
    ASSUME IInv, ConfirmProject
    PROVE  IInv'
<1>1. TypeOK /\ "new_project" \in Wizards /\ Addresses(user_data) /\ RowsInv
      /\ Goto("new_project", "END") /\ (Clear("new_project") \/ Keep)
      /\ UNCHANGED <<held, saved, senders, templates, webhooks, shown, starts, saves, restarts>>
  BY WizardNames DEF IInv, ConfirmProject, counts
<1>2. /\ conv' \in Conv /\ \A v \in Wizards \ {"new_project"} : conv'[v] = conv[v]
      /\ NewProjectOwns'
  BY <1>1, EndOwns
<1>3. /\ user_data' \in Row /\ Addresses(user_data') /\ disturbed' \subseteq Wizards
      /\ Disturbs("new_project") /\ user_data'["body"] \in {user_data["body"], ""}
  BY <1>1, ClearFacts, KeepFacts
<1>4. RowsInv' /\ (\A t \in templates' : t["project"] # "") /\ starts' \in 0..MaxStarts
  BY <1>1 DEF RowsInv, SendersAreVerified, ShownIsStored, PreviewBeforeSaving, TypeOK
<1>5. QED
  BY <1>1, <1>2, <1>3, <1>4, StepInv

LEMMA NewProjectInv ==
    ASSUME IInv, NewProject
    PROVE  IInv'
<1>1. CASE ConfirmProject
  BY <1>1, ConfirmProjectInv
<1>2. CASE ReceiveName \/ ReceiveNewSlug \/ PickSender \/ ReceiveExpiry
  BY <1>2, NewProjectTexts
     DEF ReceiveName, ReceiveNewSlug, PickSender, ReceiveExpiry
<1>3. QED
  BY <1>1, <1>2 DEF NewProject

-----------------------------------------------------------------------------
(* /setotp.                                                                 *)

LEMMA ReceiveSubjectInv ==
    ASSUME IInv, ReceiveSubject
    PROVE  IInv'
<1>1. /\ TypeOK /\ SetOtpOwns /\ "set_otp" \in Wizards /\ InMemory
      /\ {"subject"} \in SUBSET (Fields \ {"body"}) /\ "ASK_BODY" \in States["set_otp"]
      /\ Set("set_otp", {"subject"}) /\ Reply("set_otp", "ASK_BODY")
      /\ conv["set_otp"] = "ASK_SUBJECT"
  BY WizardNames, StateNames DEF Fields, IInv, OwnsInv, ReceiveSubject, Text
<1>2. /\ "set_otp" \in disturbed' <=> "set_otp" \in disturbed
      /\ user_data'["subject"] = "set_otp"
      /\ user_data'["project"] = user_data["project"]
  BY <1>1, SetFacts DEF Fields
<1>3. conv'["set_otp"] \in {"ASK_SUBJECT", "ASK_BODY"}
  BY <1>1 DEF Reply, Goto, TypeOK, Conv
<1>4. SetOtpOwns'
  BY <1>1, <1>2, <1>3 DEF SetOtpOwns, Undisturbed, At, Own
<1>5. QED
  BY <1>1, <1>4, TextInv

(* Either the preview was shown, or the wizard still waits for a body.      *)
LEMMA ReceiveBodyInv ==
    ASSUME IInv, ReceiveBody
    PROVE  IInv'
<1>1. /\ TypeOK /\ SetOtpOwns /\ "set_otp" \in Wizards /\ InMemory
      /\ Addresses(user_data) /\ user_data \in Row
      /\ conv["set_otp"] = "ASK_BODY" /\ conv \in Conv
      /\ {"body"} \in SUBSET Fields /\ "PREVIEW_CONFIRM" \in States["set_otp"]
  BY WizardNames, StateNames
     DEF Fields, IInv, OwnsInv, TypeOK, ReceiveBody, Text
<1>2. CASE Set("set_otp", {"body"}) /\ Goto("set_otp", "PREVIEW_CONFIRM")
  <2>1. /\ user_data' \in Row /\ disturbed' \subseteq Wizards /\ Disturbs("set_otp")
        /\ "set_otp" \in disturbed' <=> "set_otp" \in disturbed
        /\ user_data'["body"] = "set_otp"
        /\ \A f \in Fields \ {"body"} : user_data'[f] = user_data[f]
    BY <1>1, <1>2, SetFacts
  <2>2. /\ conv' \in Conv /\ \A v \in Wizards \ {"set_otp"} : conv'[v] = conv[v]
        /\ conv'["set_otp"] = "PREVIEW_CONFIRM"
    BY <1>1, <1>2, GotoTyped DEF Reply, Goto, Conv
  <2>3. Addresses(user_data')
    BY <1>1, <2>1 DEF Addresses, Fields
  <2>4. SetOtpOwns' /\ SeenInv'
    BY <1>1, <2>1, <2>2 DEF SetOtpOwns, SeenInv, Undisturbed, At, Own, Fields
  <2>5. QED
    BY <1>1, <2>1, <2>2, <2>3, <2>4, HandlerInv
<1>3. CASE /\ Store("set_otp", [user_data EXCEPT !["body"] = "unseen"])
           /\ UNCHANGED conv
  <2> DEFINE d == [user_data EXCEPT !["body"] = "unseen"]
  <2>1. d \in Row /\ \A f \in Fields \ {"body"} : d[f] = user_data[f]
    BY <1>1 DEF Row, Value
  <2>2. Store("set_otp", d)
    BY <1>3
  <2> HIDE DEF d
  <2>3. /\ user_data' = d /\ disturbed' \subseteq Wizards /\ Disturbs("set_otp")
        /\ "set_otp" \in disturbed' <=> "set_otp" \in disturbed
    BY <1>1, <2>1, <2>2, StoreFacts
  <2>4. Addresses(user_data')
    BY <1>1, <2>1, <2>3 DEF Addresses, Fields
  <2>5. conv' = conv
    BY <1>3
  <2>6. SetOtpOwns' /\ SeenInv'
    BY <1>1, <2>1, <2>3, <2>5 DEF SetOtpOwns, SeenInv, Undisturbed, At, Own, Fields
  <2>7. QED
    BY <1>1, <2>1, <2>3, <2>4, <2>5, <2>6, HandlerInv
<1>4. QED
  BY <1>2, <1>3 DEF ReceiveBody

LEMMA DeclinePreviewInv ==
    ASSUME IInv, DeclinePreview
    PROVE  IInv'
<1>1. /\ TypeOK /\ SetOtpOwns /\ "set_otp" \in Wizards /\ InMemory /\ Keep
      /\ Addresses(user_data) /\ conv["set_otp"] = "PREVIEW_CONFIRM" /\ conv \in Conv
      /\ "ASK_BODY" \in States["set_otp"] /\ Goto("set_otp", "ASK_BODY")
  BY WizardNames, StateNames DEF IInv, OwnsInv, TypeOK, DeclinePreview, Button
<1>2. /\ conv' \in Conv /\ \A v \in Wizards \ {"set_otp"} : conv'[v] = conv[v]
      /\ conv'["set_otp"] = "ASK_BODY"
  BY <1>1, GotoTyped DEF Reply, Goto, Conv
<1>3. /\ user_data' \in Row /\ disturbed' \subseteq Wizards /\ Disturbs("set_otp")
      /\ user_data' = user_data /\ disturbed' = disturbed
  BY <1>1, KeepFacts
<1>4. SetOtpOwns' /\ SeenInv'
  BY <1>1, <1>2, <1>3 DEF SetOtpOwns, SeenInv, Undisturbed, At, Own
<1>5. QED
  BY <1>1, <1>2, <1>3, <1>4, HandlerInv

(* The body saved is the one in the dictionary at PREVIEW_CONFIRM.          *)
LEMMA SaveTemplateInv ==
    ASSUME IInv, SaveTemplate
    PROVE  IInv'
<1>1. /\ TypeOK /\ SeenInv /\ "set_otp" \in Wizards /\ Addresses(user_data) /\ RowsInv
      /\ Goto("set_otp", "END") /\ (Clear("set_otp") \/ Keep)
      /\ conv["set_otp"] = "PREVIEW_CONFIRM"
      /\ UNCHANGED <<held, saved, senders, projects, webhooks, shown, starts, saves, restarts>>
  BY WizardNames DEF IInv, SaveTemplate, Button, counts
<1>2. /\ conv' \in Conv /\ \A v \in Wizards \ {"set_otp"} : conv'[v] = conv[v]
      /\ SetOtpOwns' /\ SeenInv'
  BY <1>1, EndOwns
<1>3. /\ user_data' \in Row /\ Addresses(user_data') /\ disturbed' \subseteq Wizards
      /\ Disturbs("set_otp")
  BY <1>1, ClearFacts, KeepFacts
<1>4. \/ templates' = templates
      \/ templates' = templates \union {TemplateRow} /\ user_data["project"] # ""
  BY DEF SaveTemplate
<1>5. TemplateRow["project"] = user_data["project"]
      /\ TemplateRow["body"] = user_data["body"]
  BY DEF TemplateRow, Columns
<1>6. \A t \in templates' : t["project"] # ""
  BY <1>1, <1>4, <1>5 DEF TypeOK
<1>7. restarts \in Nat
  <2>1. restarts \in 0..MaxRestarts
    BY <1>1 DEF TypeOK
  <2>2. QED
    BY <2>1, ConstantsAssumption
<1>8. PreviewBeforeSaving'
  <2>1. restarts' = restarts /\ PreviewBeforeSaving
    BY <1>1 DEF RowsInv
  <2>2. CASE restarts > 0
    BY <2>1, <2>2 DEF PreviewBeforeSaving
  <2>3. CASE ~(restarts > 0)
    <3>1. restarts = 0
      BY <1>7, <2>3
    <3>2. user_data["body"] # "unseen"
      BY <1>1, <3>1 DEF SeenInv
    <3>3. \A t \in templates : t["body"] # "unseen"
      BY <2>1, <2>3 DEF PreviewBeforeSaving
    <3>4. \A t \in templates' : t["body"] # "unseen"
      BY <1>4, <1>5, <3>2, <3>3
    <3>5. QED
      BY <3>4 DEF PreviewBeforeSaving
  <2>4. QED
    BY <2>2, <2>3
<1>9. RowsInv' /\ starts' \in 0..MaxStarts
  BY <1>1, <1>8 DEF RowsInv, SendersAreVerified, ShownIsStored, TypeOK
<1>10. QED
  BY <1>1, <1>2, <1>3, <1>6, <1>9, StepInv

LEMMA SetOtpInv ==
    ASSUME IInv, SetOtp
    PROVE  IInv'
  BY ReceiveSubjectInv, ReceiveBodyInv, DeclinePreviewInv, SaveTemplateInv DEF SetOtp

-----------------------------------------------------------------------------
(* /setwebhook.                                                             *)

LEMMA WebhookTexts ==
    ASSUME IInv, ReceiveUrl \/ ReceiveEvents
    PROVE  IInv'
<1> DEFINE w == "set_webhook"
<1>1. TypeOK /\ SetWebhookOwns /\ w \in Wizards /\ InMemory
  BY WizardNames DEF IInv, OwnsInv, ReceiveUrl, ReceiveEvents
<1>2. PICK f \in Fields \ {"body", "email", "host"}, s \in States[w] :
         /\ Set(w, {f}) /\ Reply(w, s)
         /\ \/ conv[w] = "ASK_URL" /\ s = "ASK_EVENTS" /\ f = "url"
            \/ conv[w] = "ASK_EVENTS" /\ s = "CONFIRM" /\ f = "events"
  BY StateNames DEF Fields, ReceiveUrl, ReceiveEvents, Text
<1>3. /\ w \in disturbed' <=> w \in disturbed
      /\ user_data'[f] = w
      /\ \A g \in Fields \ {f} : user_data'[g] = user_data[g]
  BY <1>1, <1>2, SetFacts
<1>4. conv'[w] \in {conv[w], s}
  BY <1>1, <1>2 DEF Reply, Goto, TypeOK, Conv
<1>5. \A g \in Fields : user_data[g] = w => user_data'[g] = w
  BY <1>3
<1>6. {"project", "url", "events"} \subseteq Fields
  BY DEF Fields
<1>7. SetWebhookOwns'
  BY <1>1, <1>2, <1>3, <1>4, <1>5, <1>6 DEF SetWebhookOwns, Undisturbed, At, Own
<1>8. {f} \in SUBSET (Fields \ {"body"}) /\ {f} \cap {"email", "host"} = {}
  BY <1>2
<1>9. QED
  BY <1>1, <1>2, <1>7, <1>8, TextInv

LEMMA ConfirmWebhookInv ==
    ASSUME IInv, ConfirmWebhook
    PROVE  IInv'
<1>1. /\ TypeOK /\ "set_webhook" \in Wizards /\ Addresses(user_data) /\ RowsInv
      /\ SetWebhookOwns
      /\ UNCHANGED <<held, saved, senders, projects, templates, starts, saves, restarts>>
  BY WizardNames DEF IInv, OwnsInv, ConfirmWebhook, counts
<1>2. \/ Goto("set_webhook", "END") /\ (Clear("set_webhook") \/ Keep)
      \/ UNCHANGED conv /\ Keep
  BY DEF ConfirmWebhook, Reply
<1>3. /\ conv' \in Conv /\ \A v \in Wizards \ {"set_webhook"} : conv'[v] = conv[v]
      /\ SetWebhookOwns'
  <2>1. CASE Goto("set_webhook", "END") /\ (Clear("set_webhook") \/ Keep)
    BY <1>1, <2>1, EndOwns
  <2>2. CASE UNCHANGED conv /\ Keep
    BY <1>1, <2>2 DEF TypeOK, Keep, SetWebhookOwns, Undisturbed, At, Own
  <2>3. QED
    BY <1>2, <2>1, <2>2
<1>4. /\ user_data' \in Row /\ Addresses(user_data') /\ disturbed' \subseteq Wizards
      /\ Disturbs("set_webhook") /\ user_data'["body"] \in {user_data["body"], ""}
  BY <1>1, <1>2, ClearFacts, KeepFacts
<1>5. ShownIsStored'
  <2>1. \/ webhooks' = webhooks \union {WebhookRow}
           /\ (shown' = shown \union {WebhookRow} \/ shown' = shown)
        \/ webhooks' = webhooks /\ shown' = shown
    BY DEF ConfirmWebhook
  <2>2. QED
    BY <1>1, <2>1 DEF RowsInv, ShownIsStored
<1>6. RowsInv' /\ (\A t \in templates' : t["project"] # "") /\ starts' \in 0..MaxStarts
  BY <1>1, <1>5 DEF RowsInv, SendersAreVerified, PreviewBeforeSaving, TypeOK
<1>7. QED
  BY <1>1, <1>3, <1>4, <1>6, StepInv

LEMMA SetWebhookInv ==
    ASSUME IInv, SetWebhook
    PROVE  IInv'
  BY WebhookTexts, ConfirmWebhookInv DEF SetWebhook

-----------------------------------------------------------------------------
(* The session.                                                             *)

LEMMA SaveInv ==
    ASSUME IInv, SaveUserData \/ \E w \in Wizards : SaveConversation(w)
    PROVE  IInv'
<1>1. /\ TypeOK /\ Addresses(user_data) /\ Addresses(saved.user_data)
      /\ saves < MaxSaves /\ saves' = saves + 1
      /\ UNCHANGED <<conv, user_data, senders, projects, templates, webhooks,
                     shown, disturbed, starts, restarts>>
  BY DEF IInv, SaveUserData, SaveConversation, Unsaved, tables
<1>2. saves' \in 0..MaxSaves
  <2>1. saves \in 0..MaxSaves
    BY <1>1 DEF TypeOK
  <2>2. QED
    BY <1>1, <2>1, ConstantsAssumption
<1>3. /\ held' \in Conv /\ saved' \in [conv : Conv, user_data : Row]
      /\ Addresses(saved'.user_data)
  <2>1. CASE SaveUserData
    BY <1>1, <2>1 DEF SaveUserData, TypeOK
  <2>2. ASSUME NEW w \in Wizards, SaveConversation(w)
        PROVE  /\ held' \in Conv /\ saved' \in [conv : Conv, user_data : Row]
               /\ Addresses(saved'.user_data)
    <3>1. saved' = saved \/ saved' = [saved EXCEPT !.conv = held']
      BY <2>2 DEF SaveConversation
    <3>2. held' \in Conv
      BY <1>1, <2>2 DEF TypeOK, Conv, SaveConversation
    <3>3. QED
      BY <1>1, <3>1, <3>2 DEF TypeOK
  <2>3. QED
    BY <2>1, <2>2
<1>4. TypeOK'
  BY <1>1, <1>2, <1>3 DEF TypeOK
<1>5. OwnsInv'
  BY <1>1 DEF IInv, OwnsInv, NewProjectOwns, SetOtpOwns, SetWebhookOwns,
              Undisturbed, At, Own
<1>6. SeenInv' /\ RowsInv'
  BY <1>1 DEF IInv, SeenInv, RowsInv, SendersAreVerified, ShownIsStored,
              PreviewBeforeSaving
<1>7. QED
  BY <1>1, <1>3, <1>4, <1>5, <1>6 DEF IInv, Addresses

(* What comes back is a dictionary that only /addemail put addresses in.    *)
LEMMA RestartInv ==
    ASSUME IInv, Restart
    PROVE  IInv'
<1>1. /\ TypeOK /\ Addresses(saved.user_data)
      /\ restarts < MaxRestarts /\ restarts' = restarts + 1
      /\ user_data' \in {saved.user_data, Empty}
      /\ UNCHANGED <<saved, senders, projects, templates, webhooks, shown, starts, saves>>
  BY DEF IInv, Restart, tables
<1>2. restarts \in Nat /\ restarts' \in 0..MaxRestarts /\ restarts' # 0 /\ restarts' > 0
  <2>1. restarts \in 0..MaxRestarts
    BY <1>1 DEF TypeOK
  <2>2. QED
    BY <1>1, <2>1, ConstantsAssumption
<1>3. /\ conv' \in Conv /\ held' \in Conv
      /\ user_data' \in Row /\ Addresses(user_data')
  <2>1. saved.conv \in Conv /\ saved.user_data \in Row
    BY <1>1 DEF TypeOK
  <2>2. \A k : Loaded(k) \in Conv
    BY <2>1 DEF Loaded, Conv
  <2>3. conv' \in Conv /\ held' \in Conv
    BY <2>1, <2>2 DEF Restart
  <2>4. QED
    BY <1>1, <2>1, <2>3, Dictionaries
<1>4. TypeOK'
  BY <1>1, <1>2, <1>3 DEF TypeOK, Restart
<1>5. OwnsInv'
  <2>1. CASE UNCHANGED <<conv, user_data>>
    <3>1. disturbed' = disturbed
      BY <2>1 DEF Restart
    <3>2. QED
      BY <2>1, <3>1 DEF IInv, OwnsInv, NewProjectOwns, SetOtpOwns, SetWebhookOwns,
                        Undisturbed, At, Own
  <2>2. CASE ~UNCHANGED <<conv, user_data>>
    <3>1. disturbed' = Wizards
      BY <2>2 DEF Restart
    <3>2. QED
      BY <3>1, WizardNames
         DEF OwnsInv, NewProjectOwns, SetOtpOwns, SetWebhookOwns, Undisturbed
  <2>3. QED
    BY <2>1, <2>2
<1>6. SeenInv' /\ RowsInv'
  BY <1>1, <1>2 DEF IInv, SeenInv, RowsInv, SendersAreVerified, ShownIsStored,
                    PreviewBeforeSaving
<1>7. QED
  BY <1>1, <1>3, <1>4, <1>5, <1>6 DEF IInv, Addresses

-----------------------------------------------------------------------------
(* Every step keeps the invariant.                                          *)
LEMMA NextInv == IInv /\ [Next]_vars => IInv'
<1> SUFFICES ASSUME IInv, [Next]_vars PROVE IInv'
  OBVIOUS
<1>1. ASSUME NEW w \in Wizards, Handle(w) PROVE IInv'
  BY <1>1, StartInv, CancelInv, CancelButtonInv, ReceiveSlugInv, SaveInv DEF Handle
<1>2. CASE AddEmail \/ NewProject \/ SetOtp \/ SetWebhook
  BY <1>2, AddEmailInv, NewProjectInv, SetOtpInv, SetWebhookInv
<1>3. CASE SaveUserData \/ Restart
  BY <1>3, SaveInv, RestartInv
<1>4. CASE UNCHANGED vars
  BY <1>4 DEF vars, session, tables, counts, IInv, TypeOK, OwnsInv, NewProjectOwns,
              SetOtpOwns, SetWebhookOwns, Undisturbed, At, Own, Addresses, SeenInv,
              RowsInv, SendersAreVerified, ShownIsStored, PreviewBeforeSaving
<1>5. QED
  BY <1>1, <1>2, <1>3, <1>4 DEF Next

(* The invariant that the theorems below rest on holds in every reachable   *)
(* state.                                                                   *)
THEOREM Invariance == Spec => []IInv
<1>1. Init => IInv
  BY InitInv
<1>2. IInv /\ [Next]_vars => IInv'
  BY NextInv
<1>3. QED
  BY <1>1, <1>2, PTL DEF Spec

(* Every conversation stays within its own states, and no template is saved *)
(* without a project.                                                       *)
THEOREM TypeCorrect == Spec => []TypeOK
<1>1. IInv => TypeOK
  BY DEF IInv
<1>2. QED
  BY <1>1, Invariance, PTL

(* A sender is only saved with an address and a host from /addemail.        *)
THEOREM SendersVerified == Spec => []SendersAreVerified
<1>1. IInv => SendersAreVerified
  BY DEF IInv, RowsInv
<1>2. QED
  BY <1>1, Invariance, PTL

(* Every secret that was shown is that of a webhook in the table.           *)
THEOREM SecretsAreStored == Spec => []ShownIsStored
<1>1. IInv => ShownIsStored
  BY DEF IInv, RowsInv
<1>2. QED
  BY <1>1, Invariance, PTL

(* Before the first restart no body is saved that was not previewed.        *)
THEOREM PreviewsComeFirst == Spec => []PreviewBeforeSaving
<1>1. IInv => PreviewBeforeSaving
  BY DEF IInv, RowsInv
<1>2. QED
  BY <1>1, Invariance, PTL

(* A wizard that nothing disturbed writes what it was told itself: when it   *)
(* asks for the confirmation every column is its own.                       *)
LEMMA ConfirmedRows ==
    ASSUME IInv
    PROVE  /\ Button("new_project", "CONFIRM") => WritesItsOwn("new_project", {ProjectRow})
           /\ Button("set_otp", "PREVIEW_CONFIRM") => WritesItsOwn("set_otp", {TemplateRow})
           /\ Button("set_webhook", "CONFIRM") => WritesItsOwn("set_webhook", {WebhookRow})
<1>1. Button("new_project", "CONFIRM") => WritesItsOwn("new_project", {ProjectRow})
  BY DEF IInv, OwnsInv, NewProjectOwns, Undisturbed, At, Own, Button, WritesItsOwn,
         ProjectRow, Columns
<1>2. Button("set_otp", "PREVIEW_CONFIRM") => WritesItsOwn("set_otp", {TemplateRow})
  BY DEF IInv, OwnsInv, SetOtpOwns, Undisturbed, At, Own, Button, WritesItsOwn,
         TemplateRow, Columns
<1>3. Button("set_webhook", "CONFIRM") => WritesItsOwn("set_webhook", {WebhookRow})
  BY DEF IInv, OwnsInv, SetWebhookOwns, Undisturbed, At, Own, Button, WritesItsOwn,
         WebhookRow, Columns
<1>4. QED
  BY <1>1, <1>2, <1>3

(* The other steps write no project, template or webhook.                   *)
LEMMA OtherRows ==
    ASSUME [Next]_vars
    PROVE  /\ projects' = projects \/ ConfirmProject
           /\ templates' = templates \/ SaveTemplate
           /\ webhooks' = webhooks \/ ConfirmWebhook
<1>1. ASSUME NEW w \in Wizards, Handle(w)
      PROVE  projects' = projects /\ templates' = templates /\ webhooks' = webhooks
  BY <1>1 DEF Handle, Start, Cancel, CancelButton, ReceiveSlug, SaveConversation,
              InMemory, Unsaved, tables
<1>2. CASE AddEmail
  BY <1>2 DEF AddEmail, ReceiveEmail, ReceiveCustomHost, ReceivePassword, InMemory,
              tables
<1>3. CASE NewProject
  BY <1>3 DEF NewProject, ReceiveName, ReceiveNewSlug, PickSender, ReceiveExpiry,
              ConfirmProject, InMemory, tables
<1>4. CASE SetOtp
  BY <1>4 DEF SetOtp, ReceiveSubject, ReceiveBody, DeclinePreview, SaveTemplate,
              InMemory, tables
<1>5. CASE SetWebhook
  BY <1>5 DEF SetWebhook, ReceiveUrl, ReceiveEvents, ConfirmWebhook, InMemory, tables
<1>6. CASE SaveUserData \/ Restart
  BY <1>6 DEF SaveUserData, Restart, Unsaved, tables
<1>7. CASE UNCHANGED vars
  BY <1>7 DEF vars, tables
<1>8. QED
  BY <1>1, <1>2, <1>3, <1>4, <1>5, <1>6, <1>7 DEF Next

(* Wizards run one at a time write what the admin entered in them.          *)
THEOREM UndisturbedRows == Spec => UndisturbedWritesItsOwn
<1> DEFINE Step == /\ WritesItsOwn("new_project", projects' \ projects)
                   /\ WritesItsOwn("set_otp", templates' \ templates)
                   /\ WritesItsOwn("set_webhook", webhooks' \ webhooks)
<1>1. IInv /\ [Next]_vars => Step
  <2> SUFFICES ASSUME IInv, [Next]_vars PROVE Step
    OBVIOUS
  <2>1. WritesItsOwn("new_project", projects' \ projects)
    BY OtherRows, ConfirmedRows DEF ConfirmProject, WritesItsOwn
  <2>2. WritesItsOwn("set_otp", templates' \ templates)
    BY OtherRows, ConfirmedRows DEF SaveTemplate, WritesItsOwn
  <2>3. WritesItsOwn("set_webhook", webhooks' \ webhooks)
    BY OtherRows, ConfirmedRows DEF ConfirmWebhook, WritesItsOwn
  <2>4. QED
    BY <2>1, <2>2, <2>3
<1>2. QED
  BY <1>1, Invariance, PTL DEF Spec, UndisturbedWritesItsOwn
=============================================================================
