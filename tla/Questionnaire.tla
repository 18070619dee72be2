----------------------------- MODULE Questionnaire -----------------------------
(***************************************************************************)
(* The businesses that answered the questionnaire of a pack                 *)
(* (questionnaire/routes.py, questionnaire/validation.py), and their events *)
(* as far as the pack matters to them (pipeline/routes.py, service.py).     *)
(* Both read the files of the pack one after the other and without a lock,  *)
(* while ConfigAgent and the owner change them.  A business keeps the       *)
(* settings it was created with; the prompts are those of the day.          *)
(***************************************************************************)
EXTENDS ConfigAgent, Naturals

CONSTANTS Handlers, Businesses,
          Questions,        \* questionnaire.yaml, one of Files
          Asked,            \* Asked[c]: its questions in their order, if its content is c
          Prompts,          \* Prompts[o]: the settings that each prompt refers to
          Answers,          \* what a client may submit: a value for some ids
          NoBusiness

KeysOf(questions) == {questions[i].settings_key : i \in DOMAIN questions}

SettingsKeys == UNION {KeysOf(Asked[c]) : c \in Contents}

\* What prompts refer to is the settings_key of some question: load_pack checks
\* it when it reads them.  Two questions may have one id: that it does not check.
ASSUME QuestionnaireAssumption ==
    /\ Questions \in Files
    /\ \A o \in Others : \A p \in Loads[o] :
          UNION Prompts[o] \subseteq KeysOf(Asked[p[Questions]])
    /\ Handlers \cap Businesses = {} /\ NoBusiness \notin Businesses
    /\ \A keys \in SUBSET SettingsKeys : keys # NoBusiness

VARIABLES
    businesses,     \* the keys of settings_json, for each row of businesses
    handler,        \* the local variables of each request
    upToDate,       \* history: who read the other files as they are now: requests
                    \* that create a business, and the businesses they created
    answered        \* history: the questionnaire that each business answered

qvars == <<vars, businesses, handler, upToDate, answered>>

Request == [ pc       : {"idle", "questions", "others", "entities", "unrendered"},
             business : Businesses \cup {NoBusiness},     \* of an event
             file     : Contents,                         \* questionnaire.yaml
             rest     : Others ]

NoRequest == [ pc |-> "idle", business |-> NoBusiness, file |-> Empty,
               rest |-> CHOOSE o \in Others : TRUE ]

QuestionnaireTypeOK ==
    /\ TypeOK
    /\ businesses \in [Businesses -> (SUBSET SettingsKeys) \cup {NoBusiness}]
    /\ handler \in [Handlers -> Request]
    /\ upToDate \in SUBSET (Handlers \cup Businesses)
    /\ answered \in [Businesses -> Contents]

QInit == /\ Init
         /\ businesses = [b \in Businesses |-> NoBusiness]
         /\ handler = [h \in Handlers |-> NoRequest]
         /\ upToDate = {}
         /\ answered = [b \in Businesses |-> Empty]

In(h, pc) == handler[h].pc = pc
Leave(h) == handler' = [handler EXCEPT ![h] = NoRequest]

-----------------------------------------------------------------------------
(* load_pack, as the handlers do it: file by file.                          *)

\* The row of the business is read before the pack is.
StartEvent(h, b) ==
    /\ In(h, "idle")
    /\ businesses[b] # NoBusiness
    /\ handler' = [handler EXCEPT ![h].pc = "questions", ![h].business = b]
    /\ UNCHANGED <<vars, businesses, upToDate, answered>>

StartCreate(h) ==
    /\ In(h, "idle")
    /\ handler' = [handler EXCEPT ![h].pc = "questions"]
    /\ UNCHANGED <<vars, businesses, upToDate, answered>>

ReadQuestions(h) ==
    /\ In(h, "questions")
    /\ handler' = [handler EXCEPT ![h].pc = "others", ![h].file = pack[Questions]]
    /\ UNCHANGED <<vars, businesses, upToDate, answered>>

\* event_schemas.yaml, prompts.yaml and approval_defaults.yaml
ReadOthers(h) ==
    /\ In(h, "others")
    /\ handler' = [handler EXCEPT ![h].pc = "entities", ![h].rest = other]
    /\ upToDate' = IF handler[h].business = NoBusiness THEN upToDate \cup {h} ELSE upToDate
    /\ UNCHANGED <<vars, businesses, answered>>

\* entity_schemas.yaml comes last, and what was read is validated as one pack.
IsLoaded(h) == [pack EXCEPT ![Questions] = handler[h].file] \in Loads[handler[h].rest]

\* PackLoadError: 404 to who creates a business, 500 to who sends an event.
FailToLoad(h) ==
    /\ In(h, "entities")
    /\ ~IsLoaded(h)
    /\ Leave(h)
    /\ upToDate' = upToDate \ {h}
    /\ UNCHANGED <<vars, businesses, answered>>

-----------------------------------------------------------------------------
(* POST /businesses                                                         *)

\* Fault: a question without an answer is skipped.
AreValid_Optional(questions, answers) ==
    \A i \in DOMAIN questions :
       questions[i].id \in DOMAIN answers => answers[questions[i].id] \in questions[i].accepts

\* validate_answers(pack, answers) == []
AreValid(questions, answers) ==
    \A i \in DOMAIN questions :
       /\ questions[i].id \in DOMAIN answers
       /\ answers[questions[i].id] \in questions[i].accepts

\* In a dictionary from ids to settings_keys a later question replaces an
\* earlier one of the same id.
IsReplaced(i, questions) ==
    \E j \in DOMAIN questions : j > i /\ questions[j].id = questions[i].id

\* answers_to_settings: what nobody asked for is dropped.
SettingsOf(questions, answers) ==
    {questions[i].settings_key :
        i \in {i \in DOMAIN questions : questions[i].id \in DOMAIN answers /\ ~IsReplaced(i, questions)}}

\* The answers may be to an earlier questionnaire, or to none.
CreateBusiness(h, answers) ==
    /\ In(h, "entities") /\ handler[h].business = NoBusiness
    /\ IsLoaded(h)
    /\ LET asked == Asked[handler[h].file]
       IN  IF AreValid(asked, answers)
           THEN \E b \in Businesses :
                   /\ businesses[b] = NoBusiness
                   /\ businesses' = [businesses EXCEPT ![b] = SettingsOf(asked, answers)]
                   /\ upToDate' = IF h \in upToDate THEN (upToDate \ {h}) \cup {b} ELSE upToDate
                   /\ answered' = [answered EXCEPT ![b] = handler[h].file]
           ELSE /\ UNCHANGED <<businesses, answered>>
                /\ upToDate' = upToDate \ {h}
    /\ Leave(h)
    /\ UNCHANGED vars

-----------------------------------------------------------------------------
(* POST /events: process_event, up to its prompts; Drafts has the rest.     *)

\* The event, and for the draft the model, decide which prompts are used.
RenderTemplate(h, prompt) ==
    /\ In(h, "entities") /\ handler[h].business # NoBusiness
    /\ IsLoaded(h)
    /\ prompt \in Prompts[handler[h].rest]
    /\ IF prompt \subseteq businesses[handler[h].business]
       THEN Leave(h)
       ELSE handler' = [handler EXCEPT ![h].pc = "unrendered"]
    /\ UNCHANGED <<vars, businesses, upToDate, answered>>

\* TemplateRenderError, which nobody catches: the event is rolled back.
FailToRender(h) ==
    /\ In(h, "unrendered")
    /\ Leave(h)
    /\ UNCHANGED <<vars, businesses, upToDate, answered>>

-----------------------------------------------------------------------------

\* The owner and the agent go on as if there were no handlers.
ChangePack == /\ Next
              /\ upToDate' = IF other' = other THEN upToDate ELSE {}
              /\ UNCHANGED <<businesses, handler, answered>>

QNext == \/ ChangePack
         \/ \E h \in Handlers :
               \/ StartCreate(h)
               \/ \E b \in Businesses : StartEvent(h, b)
               \/ ReadQuestions(h) \/ ReadOthers(h) \/ FailToLoad(h)
               \/ \E answers \in Answers : CreateBusiness(h, answers)
               \/ \E prompt \in UNION {Prompts[o] : o \in Others} : RenderTemplate(h, prompt)
               \/ FailToRender(h)

QSpec == QInit /\ [][QNext]_qvars

-----------------------------------------------------------------------------

\* An answer to the question is stored under another key.
IsLost(key, questions) ==
    \A i \in DOMAIN questions : questions[i].settings_key = key => IsReplaced(i, questions)

\* Why a prompt can lack a setting (TemplateRenderError) for a business that is
\* there.  Either somebody changed the other files, the prompts, since the business
\* was created from them; or the questionnaire it answered has one id for two
\* questions, and the setting is the one that answers_to_settings loses.  There is
\* no third reason, although the pack is read file by file while the agent and the
\* owner change it, and although the questionnaire may ask something else by now.
EventsRender ==
    \A h \in Handlers : In(h, "unrendered") /\ handler[h].business \in upToDate =>
        \E key \in UNION Prompts[other] : IsLost(key, Asked[answered[handler[h].business]])
=============================================================================
