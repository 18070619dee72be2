----------------------------- MODULE MCConfigAgent -----------------------------
(* A small instance of Questionnaire, and so of ConfigAgent.  A prompt of a    *)
(* pack may ask for a setting, which the file of questions has to provide;     *)
(* nothing refers to the file of entities, which may also be missing.  A       *)
(* proposal may be no YAML.  What loads is what PackLoader says of these packs.*)
EXTENDS Questionnaire, TLC

CONSTANTS questions, entities, plain, asking, good, better,
          name, hours, reply, crm_member, text, number, Missing, Broken

Loader == INSTANCE PackLoader WITH Prefixed <- {crm_member}

\* What is read of a file, by its content
Read(content, file) == IF content = Broken THEN Broken ELSE file
File(field, value) == (field :> value) @@ [unknownKeys |-> FALSE, wellTyped |-> TRUE]

Ask(id, key) == [id |-> id, settings_key |-> key, accepts |-> {number}]

\* The better file asks twice under one id.
MCAsked == (Empty :> <<>>) @@ (Broken :> <<>>) @@ (good :> <<Ask(hours, hours)>>)
           @@ (better :> <<Ask(hours, hours), Ask(hours, name)>>)

\* The prompt that extracts refers to no setting, the one that drafts may.
MCPrompts == [o \in Others |-> IF o = asking THEN {{}, {hours}} ELSE {{}}]

MCAnswers == UNION {[ids -> {text, number}] : ids \in SUBSET {name, hours}}

Member == [entity_type |-> crm_member, fields |-> {name}, required |-> {name}]

\* One entity type twice is one too many.
Schemas == (Empty :> <<>>) @@ (Broken :> <<>>) @@ (good :> <<Member>>) @@ (better :> <<Member, Member>>)

PackOf(o, p) ==
    [ meta              |-> [unknownKeys |-> FALSE, wellTyped |-> TRUE],
      questionnaire     |-> Read(p[questions], File("settings", KeysOf(MCAsked[p[questions]]))),
      event_schemas     |-> File("schemas", <<[valid_action_types |-> {reply}]>>),
      prompts           |-> File("settings", UNION MCPrompts[o]),
      approval_defaults |-> File("action_types", {reply}),
      entity_schemas    |-> IF p[entities] = Empty THEN Missing
                           ELSE Read(p[entities], File("schemas", Schemas[p[entities]])) ]

LoadsConfig == [o \in Others |-> {p \in Packs : Loader!load_pack(PackOf(o, p))}]

=============================================================================
