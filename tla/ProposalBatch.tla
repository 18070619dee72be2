----------------------------- MODULE ProposalBatch -----------------------------
(***************************************************************************)
(* A list of operations is applied twice (agentic/operations.py): leniently *)
(* when the assistant's answer comes in (apply_each), where what is refused *)
(* is dropped and the rest is stored, and strictly when the owner approves  *)
(* (apply_operations), from the same definition and with other keys.  An    *)
(* operation names what an earlier one creates by a ref, since it cannot    *)
(* know the key.  SpecEngine is what one operation does.                    *)
(***************************************************************************)
EXTENDS SpecEngine, Sequences, Naturals, FiniteSets

CONSTANTS Refs,
          MaxOperations,    \* MAX_OPERATIONS_PER_PROPOSAL
          MaxRaw,           \* bound on the operations in an answer
          Bases             \* the definitions that proposals are made for

\* A key is the prefix of its kind and eight hexadecimal digits.  A proposal is made for
\* a version, whose fields are those of its entity types.  A ref may look like a key, but
\* not like one that is yet to be drawn.
ASSUME BatchAssumption ==
    /\ EntityKeys \cap FieldKeys = {} /\ EntityKeys \cap LinkKeys = {}
    /\ FieldKeys \cap LinkKeys = {} /\ None \notin FieldKeys \cup LinkKeys
    /\ IsFiniteSet(EntityKeys) /\ IsFiniteSet(FieldKeys) /\ IsFiniteSet(LinkKeys)
    /\ MaxOperations \in Nat /\ MaxRaw \in Nat
    /\ \A b \in Bases :
          /\ b.entities \in [EntityKeys -> EntityRow \cup {Absent}]
          /\ b.fields \in [FieldKeys -> FieldRow \cup {Absent}]
          /\ b.links \in [LinkKeys -> LinkRow \cup {Absent}]
          /\ IsValid(b.entities, b.fields, b.links)
          /\ \A f \in Present(b.fields) : b.fields[f].entity \in Present(b.entities)
          /\ \A l \in Present(b.links) : b.links[l].archived_by # None =>
                b.entities[b.links[l].archived_by].archived
          /\ Refs \cap EntityKeys \subseteq Present(b.entities)
          /\ Refs \cap FieldKeys \subseteq Present(b.fields)
          /\ Refs \cap LinkKeys \subseteq Present(b.links)

VARIABLES
    base,       \* the definition of the version
    phase,      \* "draft", "replay" or "done"
    index,      \* how many operations of the list were looked at
    aliases,    \* what each ref stands for, by kind
    made,       \* the key that each applied operation drew, or None
    ops,        \* the operations that are stored with the proposal
    drafted     \* what they made of the definition when they were drafted

batch == <<base, phase, index, aliases, made, ops, drafted>>

Kinds == {"entity", "field", "link"}
NoAliases == [kind \in Kinds |-> [ref \in {} |-> None]]

\* An answer knows the keys of the definition, and no key that will be drawn.
EntityNames == Present(base.entities) \cup Refs
FieldNames == Present(base.fields) \cup Refs
LinkNames == Present(base.links) \cup Refs
Maybe(S) == S \cup {None}

\* The operations that parse.  Labels, cardinalities and types of links and
\* fields are as far as SpecEngine tells them apart.
Operations ==
    [op : {"create_entity_type"}, label : Labels, ref : Maybe(Refs)] \cup
    [op : {"update_entity_type"}, entity : EntityNames, label : Labels] \cup
    [op : {"archive_entity_type", "restore_entity_type"}, entity : EntityNames] \cup
    [op : {"add_field"}, entity : EntityNames, label : Labels, type : Types,
     options : Maybe(OptionLists), required : BOOLEAN, ref : Maybe(Refs)] \cup
    [op : {"update_field"}, entity : EntityNames, field : FieldNames, label : Maybe(Labels),
     options : Maybe(OptionLists), required : Maybe(BOOLEAN)] \cup
    [op : {"change_field_type"}, entity : EntityNames, field : FieldNames, type : Types,
     options : Maybe(OptionLists)] \cup
    [op : {"archive_field", "restore_field"}, entity : EntityNames, field : FieldNames] \cup
    [op : {"add_link"}, from : EntityNames, to : EntityNames, ref : Maybe(Refs)] \cup
    [op : {"archive_link", "restore_link"}, link : LinkNames]

Tables == [entities |-> entities, fields |-> fields, links |-> links]

BatchInit == /\ base \in Bases
             /\ entities = base.entities /\ fields = base.fields /\ links = base.links
             /\ phase = "draft"
             /\ index = 0
             /\ aliases = NoAliases
             /\ made = <<>>
             /\ ops = <<>>
             /\ drafted = [tables |-> base, made |-> <<>>]

-----------------------------------------------------------------------------
(* _apply_one: what an operation names, and what it does.                   *)

Resolve(kind, name) == IF name \in DOMAIN aliases[kind] THEN aliases[kind][name] ELSE name

\* What an operation names is there; SpecEngine says whether it may be used.
Entity(name) == {e \in EntityKeys : e = Resolve("entity", name)}
Field(name) == {f \in FieldKeys : f = Resolve("field", name)}
Link(name) == {l \in LinkKeys : l = Resolve("link", name)}

\* A ref is defined once, and never looks like a key.
Define(kind, ref, key) ==
    /\ made' = Append(made, key)
    /\ IF ref = None THEN UNCHANGED aliases
       ELSE /\ ref \notin DOMAIN aliases[kind] \cup EntityKeys \cup FieldKeys \cup LinkKeys
            /\ aliases' = [aliases EXCEPT ![kind] =
                  [r \in DOMAIN @ \cup {ref} |-> IF r = ref THEN key ELSE @[r]]]

DefineNothing == made' = Append(made, None) /\ UNCHANGED aliases

Create(op) ==
    \/ /\ op.op = "create_entity_type"
       /\ \E e \in EntityKeys : CreateEntityType(e, op.label) /\ Define("entity", op.ref, e)
    \/ /\ op.op = "add_field"
       /\ \E e \in Entity(op.entity), f \in FieldKeys :
             /\ AddField(e, f, op.label, op.type, op.options, op.required)
             /\ Define("field", op.ref, f)
    \/ /\ op.op = "add_link"
       /\ \E from \in Entity(op.from), to \in Entity(op.to), l \in LinkKeys :
             AddLink(l, from, to) /\ Define("link", op.ref, l)

ChangeEntity(op) == \E e \in Entity(op.entity) :
    \/ op.op = "update_entity_type" /\ UpdateEntityType(e, op.label)
    \/ op.op = "archive_entity_type" /\ ArchiveEntityType(e)
    \/ op.op = "restore_entity_type" /\ RestoreEntityType(e)

ChangeField(op) == \E e \in Entity(op.entity), f \in Field(op.field) :
    \/ op.op = "update_field" /\ UpdateField(e, f, op.label, op.options, op.required)
    \/ op.op = "change_field_type" /\ ChangeFieldType(e, f, op.type, op.options)
    \/ op.op = "archive_field" /\ ArchiveField(e, f)
    \/ op.op = "restore_field" /\ RestoreField(e, f)

ChangeLink(op) == \E l \in Link(op.link) :
    \/ op.op = "archive_link" /\ ArchiveLink(l)
    \/ op.op = "restore_link" /\ RestoreLink(l)

Perform(op) ==
    \/ Create(op)
    \/ /\ DefineNothing
       /\ \/ /\ op.op \in {"update_entity_type", "archive_entity_type", "restore_entity_type"}
             /\ ChangeEntity(op)
          \/ /\ op.op \in {"update_field", "change_field_type", "archive_field", "restore_field"}
             /\ ChangeField(op)
          \/ /\ op.op \in {"archive_link", "restore_link"}
             /\ ChangeLink(op)

-----------------------------------------------------------------------------
(* apply_each and apply_operations                                          *)

\* Fault: what is stored names keys instead of refs.
Stored_Resolved(op) ==
    IF "entity" \in DOMAIN op THEN [op EXCEPT !.entity = Resolve("entity", @)] ELSE op

\* _dump: an operation is stored as it was given.
Stored(op) == op

Apply(op) == /\ phase = "draft"
             /\ index < MaxOperations
             /\ Perform(op)
             /\ ops' = Append(ops, Stored(op))
             /\ index' = index + 1
             /\ UNCHANGED <<base, phase, drafted>>

\* Fault: an operation is tried on the definition itself and not on a copy.
Refuse_InPlace ==
    /\ phase = "draft"
    /\ index < MaxRaw
    /\ \E e \in EntityKeys, label \in Labels :
          IsActive(e) /\ entities' = [entities EXCEPT ![e].label = label]
    /\ index' = index + 1
    /\ UNCHANGED <<fields, links, base, phase, aliases, made, ops, drafted>>

\* One that does not parse, resolve or validate, or is one too many, is dropped
\* with what it did to its copy.
Refuse == /\ phase = "draft"
          /\ index < MaxRaw
          /\ index' = index + 1
          /\ UNCHANGED <<vars, base, phase, aliases, made, ops, drafted>>

\* The proposal is stored, and approved while the version is the same.
Approve == /\ phase = "draft"
           /\ ops # <<>>
           /\ phase' = "replay"
           /\ drafted' = [tables |-> Tables, made |-> made]
           /\ entities' = base.entities /\ fields' = base.fields /\ links' = base.links
           /\ index' = 0
           /\ aliases' = NoAliases
           /\ made' = <<>>
           /\ UNCHANGED <<base, ops>>

Replay == /\ phase = "replay"
          /\ index < Len(ops) /\ index < MaxOperations
          /\ Perform(ops[index + 1])
          /\ index' = index + 1
          /\ UNCHANGED <<base, phase, ops, drafted>>

Append_version == /\ phase = "replay"
                  /\ index = Len(ops)
                  /\ phase' = "done"
                  /\ UNCHANGED <<vars, base, index, aliases, made, ops, drafted>>

BatchNext == \/ \E op \in Operations : Apply(op)
             \/ Refuse \/ Approve \/ Replay \/ Append_version

BatchSpec == BatchInit /\ [][BatchNext]_<<vars, batch>>

-----------------------------------------------------------------------------

\* "Strict mode, used on approve": what was kept when the proposal was drafted is
\* never refused when it is approved, whatever was dropped and whichever keys are
\* drawn.
ReplayIsNotRefused == phase = "replay" => ENABLED (Replay \/ Append_version)

\* The key in the approved definition of what has key k in the drafted one.
Renamed(k) == IF \E i \in DOMAIN drafted.made : drafted.made[i] = k
              THEN made[CHOOSE i \in DOMAIN drafted.made : drafted.made[i] = k]
              ELSE k

\* What the owner was shown is what the owner gets: the approved definition is the
\* drafted one, with other keys.
ReplayIsTheSame == phase = "done" =>
    LET D == drafted.tables
    IN  /\ Present(entities) = {Renamed(e) : e \in Present(D.entities)}
        /\ Present(fields) = {Renamed(f) : f \in Present(D.fields)}
        /\ Present(links) = {Renamed(l) : l \in Present(D.links)}
        /\ \A e \in Present(D.entities) : entities[Renamed(e)] = D.entities[e]
        /\ \A f \in Present(D.fields) :
              fields[Renamed(f)] = [D.fields[f] EXCEPT !.entity = Renamed(@)]
        /\ \A l \in Present(D.links) :
              links[Renamed(l)] = [D.links[l] EXCEPT !.from = Renamed(@), !.to = Renamed(@),
                                                     !.archived_by = Renamed(@)]
=============================================================================
