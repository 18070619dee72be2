--------------------------------- MODULE Impact ---------------------------------
(***************************************************************************)
(* The impact check (agentic/impact.py): what the owner is told a proposed  *)
(* operation will do to the records, next to what the views of the records  *)
(* show before and after it (_view and _link_views of agentic/records.py).  *)
(* The code counts records; the sets here are what it counts.               *)
(***************************************************************************)
EXTENDS Records

CONSTANTS Options,
          OptionsOf,    \* the options of a type, none if it takes none
          WithOptions,  \* the types that are the same but for their options
          Stripped,     \* a type as it is stored, the blanks taken off its options
          Uses          \* the options that a stored value uses

ASSUME ImpactAssumption ==
    /\ OptionsOf \in [Types -> SUBSET Options]
    /\ WithOptions \in [Types -> SUBSET Types]
    /\ Stripped \in [Types -> Types]
    /\ \A type \in Types : Stripped[Stripped[type]] = Stripped[type]
    /\ Uses \in [Values -> SUBSET Options]
    /\ \A type \in Types : \A other \in WithOptions[type] :
          /\ Stripped[other] \in WithOptions[type]
          /\ \A v \in Values :      \* other options refuse a value for those it uses only
                Coerce[type][v] # Refused /\ Uses[v] \cap OptionsOf[type] \subseteq OptionsOf[other] =>
                   Coerce[other][v] # Refused

-----------------------------------------------------------------------------
(* The operations that concern the records, and the definition after them.  *)

Proposable ==
    [op : {"archive_entity_type", "restore_entity_type"}, entity : EntityKeys] \cup
    [op : {"add_field"}, field : FieldKeys, required : BOOLEAN] \cup
    [op : {"archive_field", "restore_field"}, field : FieldKeys] \cup
    [op : {"change_field_type"}, field : FieldKeys, type : Types] \cup
    [op : {"update_field"}, field : FieldKeys, required : BOOLEAN, type : Types] \cup
    [op : {"archive_link", "restore_link"}, link : LinkKeys]

RecordsOf(e) == {r \in RecordIds : records[r] = e}

\* A field with a new key has no values yet.
IsUnused(f) == \A r \in RecordIds : attributes[r][f] = NoValue

\* The engine keeps the operation (see SpecEngine).
IsKept(op) ==
    \/ op.op = "archive_entity_type" /\ op.entity \in spec.entities
    \/ op.op = "restore_entity_type" /\ op.entity \notin spec.entities
    \/ /\ op.op = "add_field"
       /\ EntityOf[op.field] \in spec.entities
       /\ op.field \notin spec.fields /\ IsUnused(op.field)
    \/ /\ op.op = "archive_field"
       /\ op.field \in spec.fields /\ EntityOf[op.field] \in spec.entities
    \/ /\ op.op = "change_field_type"
       /\ op.field \in spec.fields /\ EntityOf[op.field] \in spec.entities
       /\ op.type # spec.type[op.field] \/ OptionsOf[op.type] # {}
    \/ /\ op.op = "update_field"
       /\ op.field \in spec.fields /\ EntityOf[op.field] \in spec.entities
       /\ op.type \in WithOptions[spec.type[op.field]]
    \/ /\ op.op = "restore_field"
       /\ op.field \notin spec.fields /\ EntityOf[op.field] \in spec.entities
    \/ op.op = "archive_link" /\ op.link \in spec.links
    \/ /\ op.op = "restore_link"
       /\ op.link \notin spec.links
       /\ {From[op.link], To[op.link]} \subseteq spec.entities

Required(f, required) == IF required THEN spec.required \cup {f} ELSE spec.required \ {f}

After(op) ==
    CASE op.op = "archive_entity_type" ->
            [spec EXCEPT !.entities = @ \ {op.entity},
                         !.links = {l \in @ : op.entity \notin {From[l], To[l]}}]
      [] op.op = "restore_entity_type" -> [spec EXCEPT !.entities = @ \cup {op.entity}]
      [] op.op = "add_field" ->
            [spec EXCEPT !.fields = @ \cup {op.field}, !.required = Required(op.field, op.required)]
      [] op.op = "archive_field" -> [spec EXCEPT !.fields = @ \ {op.field}]
      [] op.op = "restore_field" -> [spec EXCEPT !.fields = @ \cup {op.field}]
      [] op.op = "change_field_type" -> [spec EXCEPT !.type[op.field] = Stripped[op.type]]
      [] op.op = "update_field" ->
            [spec EXCEPT !.type[op.field] = Stripped[op.type],
                         !.required = Required(op.field, op.required)]
      [] op.op = "archive_link" -> [spec EXCEPT !.links = @ \ {op.link}]
      [] op.op = "restore_link" -> [spec EXCEPT !.links = @ \cup {op.link}]

-----------------------------------------------------------------------------
(* compute_impact                                                           *)

\* Fault: an empty value is a value.
FieldValues_Stored(f) == {r \in RecordsOf(EntityOf[f]) : attributes[r][f] # NoValue}

\* _non_empty(_field_values(...))
FieldValues(f) == {r \in RecordsOf(EntityOf[f]) : ~IsEmpty(attributes[r][f])}

LinkValues(l) == {r \in RecordsOf(From[l]) : attributes[r][l] # NoValue}

\* What is counted of an operation that hides or returns something.
Affected(op) ==
    CASE op.op \in {"archive_entity_type", "restore_entity_type"} -> RecordsOf(op.entity)
      [] op.op \in {"archive_field", "restore_field"} -> FieldValues(op.field)
      [] op.op \in {"archive_link", "restore_link"} -> LinkValues(op.link)

\* records_missing_required, of add_field and of update_field
MissingRequired(op) ==
    IF ~op.required THEN {}
    ELSE IF op.op = "add_field" THEN RecordsOf(EntityOf[op.field])
    ELSE IF op.field \in spec.required THEN {}
    ELSE RecordsOf(EntityOf[op.field]) \ FieldValues(op.field)

\* not_convertible: the options are those of the operation, as they were given.
NotConvertible(op) ==
    {r \in FieldValues(op.field) : Coerce[op.type][attributes[r][op.field]] = Refused}

\* records_using_removed_options
UsingRemoved(op) ==
    LET removed == OptionsOf[spec.type[op.field]] \ OptionsOf[Stripped[op.type]]
    IN  {r \in FieldValues(op.field) : Uses[attributes[r][op.field]] \cap removed # {}}

-----------------------------------------------------------------------------
(* What the views show of the records, by a definition.                     *)

Visible(s) == {r \in RecordIds : records[r] \in s.entities}

VisibleValues(s, f) ==
    {r \in Visible(s) : /\ f \in s.fields /\ EntityOf[f] = records[r]
                        /\ ~IsEmpty(attributes[r][f])}

VisibleLinks(s, l) ==
    {r \in Visible(s) : /\ l \in s.links /\ From[l] = records[r]
                        /\ Cardinality[l] \in EditableCardinalities
                        /\ attributes[r][l] # NoValue}

\* invalid_fields
Invalid(s, f) == {r \in VisibleValues(s, f) : Coerce[s.type[f]][attributes[r][f]] = Refused}

\* Records that cannot be edited before the field has a value
Incomplete(s, f) ==
    {r \in Visible(s) : /\ f \in s.fields \cap s.required /\ EntityOf[f] = records[r]
                        /\ IsEmpty(attributes[r][f])}

VisibleOf(op, s) ==
    CASE op.op \in {"archive_entity_type", "restore_entity_type"} -> Visible(s)
      [] op.op \in {"archive_field", "restore_field"} -> VisibleValues(s, op.field)
      [] op.op \in {"archive_link", "restore_link"} -> VisibleLinks(s, op.link)

-----------------------------------------------------------------------------

\* What is hidden by an archive and returned by a restore is what was counted.
HidesWhatIsTold(op) ==
    op.op \in {"archive_entity_type", "archive_field", "archive_link"} =>
       /\ VisibleOf(op, spec) \ VisibleOf(op, After(op)) = Affected(op)
       /\ VisibleOf(op, After(op)) \subseteq VisibleOf(op, spec)

ReturnsWhatIsTold(op) ==
    op.op \in {"restore_entity_type", "restore_field", "restore_link"} =>
       /\ VisibleOf(op, After(op)) \ VisibleOf(op, spec) = Affected(op)
       /\ VisibleOf(op, spec) \subseteq VisibleOf(op, After(op))

\* The values that will not fit are those that are flagged on their records.
FlagsWhatIsTold(op) ==
    op.op = "change_field_type" /\ Stripped[op.type] = op.type =>
       Invalid(After(op), op.field) = NotConvertible(op)

\* No value stops to fit, and no record to be complete, that was not counted.
BreaksWhatIsTold(op) ==
    op.op \in {"add_field", "update_field"} =>
       /\ Incomplete(After(op), op.field) \ Incomplete(spec, op.field) = MissingRequired(op)
       /\ op.op = "update_field" =>
             Invalid(After(op), op.field) \ Invalid(spec, op.field) \subseteq UsingRemoved(op)

\* "what would it do to the business's real records?": whatever was written under
\* whichever definitions before, the owner who approves an operation at once sees
\* what was announced.  Whatever is committed can be found with no request under
\* way, since each may fail, so it is enough to look at those states.
ImpactIsTrue ==
    (\A t \in Threads : loc[t] = Idle) =>
       \A op \in Proposable : IsKept(op) =>
          /\ HidesWhatIsTold(op)
          /\ ReturnsWhatIsTold(op)
          /\ FlagsWhatIsTold(op)
          /\ BreaksWhatIsTold(op)
=============================================================================
