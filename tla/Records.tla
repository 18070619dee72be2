------------------------------- MODULE Records -------------------------------
(***************************************************************************)
(* The records of one business (agentic/records.py): rows of entities and   *)
(* entity_attributes that are written against the current definition, while *)
(* approvals and reverts change that definition.                            *)
(*                                                                          *)
(* A write takes SQLite's write lock before its first read (_begin_write)   *)
(* and keeps it until it commits; a read takes no lock, and each of its     *)
(* SELECTs sees what is committed at that moment.  Values are small sets:   *)
(* Coerce is coerce_value, which changes a value or refuses it.  Records    *)
(* are never deleted, and never change their entity type.                   *)
(***************************************************************************)

CONSTANTS Threads, RecordIds,
          EntityKeys, FieldKeys, LinkKeys,
          EntityOf,          \* the entity type of each field
          From, To,          \* the ends of each link
          Cardinality,       \* of each link
          Types,             \* field types, each with its options
          Values,
          Blank,             \* the empty string
          Coerce,            \* coerce_value: what is stored, NoValue or Refused
          Specs,             \* the definitions the business may have
          NoValue, Refused, NoRecord, NoThread

EditableCardinalities == {"many_to_one", "one_to_one"}

Keys == FieldKeys \cup LinkKeys

\* A definition, archived parts left out: the validator lets no active link or
\* field have an archived end.
Definition == [entities : SUBSET EntityKeys, fields : SUBSET FieldKeys,
               links : SUBSET LinkKeys, required : SUBSET FieldKeys,
               type : [FieldKeys -> Types]]

ASSUME RecordsAssumption ==
    /\ EntityOf \in [FieldKeys -> EntityKeys]
    /\ From \in [LinkKeys -> EntityKeys] /\ To \in [LinkKeys -> EntityKeys]
    /\ Cardinality \in [LinkKeys -> EditableCardinalities \cup {"one_to_many", "many_to_many"}]
    /\ Coerce \in [Types -> [Values -> Values \cup {NoValue, Refused}]]
    /\ \A type \in Types, v \in Values :      \* what is stored is not changed again
          Coerce[type][v] \in Values \ {Blank} =>
             Coerce[type][Coerce[type][v]] = Coerce[type][v]
    /\ FieldKeys \cap LinkKeys = {}
    /\ NoValue \notin Values \cup RecordIds /\ Refused \notin Values \cup {NoValue}
    /\ Blank \notin RecordIds
    /\ NoRecord \notin RecordIds \cup EntityKeys /\ NoThread \notin Threads
    /\ Specs \subseteq Definition
    /\ \A s \in Specs : \A l \in s.links : {From[l], To[l]} \subseteq s.entities

VARIABLES
    spec,           \* the current definition
    records,        \* entity type of each row of entities
    attributes,     \* entity_attributes, by record and key
    writer,         \* who holds the write lock
    loc             \* the local variables of each request

vars == <<spec, records, attributes, writer, loc>>

Attributes == {a \in [Keys -> Values \cup RecordIds \cup {NoValue}] :
                  /\ \A f \in FieldKeys : a[f] \in Values \cup {NoValue}
                  /\ \A l \in LinkKeys : a[l] \in RecordIds \cup {NoValue}}

NoAttributes == [k \in Keys |-> NoValue]

\* What a request asks to write, and what is left of it after the checks: some
\* of the keys, each with a value or with NoValue to clear it.
Changes == UNION {[ks -> Values \cup RecordIds \cup {NoValue}] : ks \in SUBSET Keys}
NoChanges == [k \in {} |-> NoValue]

\* Some records for each link.
Targets == [LinkKeys -> SUBSET RecordIds]
NoTargets == [l \in LinkKeys |-> {}]

Local == [ pc      : {"idle", "check", "write", "page", "labels", "show",
                     "owned", "holders", "backlinks"},
           id      : RecordIds \cup {NoRecord},      \* NoRecord: a new record
           entity  : EntityKeys \cup {NoRecord},
           cleaned : Changes,
           links   : SUBSET LinkKeys,                \* of a read: the links it shows,
           shown   : Targets,                        \* their targets, or their holders,
           labels  : Targets ]                       \* and the targets with a label

TypeOK == /\ spec \in Specs
          /\ records \in [RecordIds -> EntityKeys \cup {NoRecord}]
          /\ \A r \in RecordIds : attributes[r] \in Attributes
          /\ writer \in Threads \cup {NoThread}
          /\ \A t \in Threads : loc[t] \in Local

Idle == [ pc |-> "idle", id |-> NoRecord, entity |-> NoRecord, cleaned |-> NoChanges,
          links |-> {}, shown |-> NoTargets, labels |-> NoTargets ]

Init == /\ spec \in Specs
        /\ records = [r \in RecordIds |-> NoRecord]
        /\ attributes = [r \in RecordIds |-> NoAttributes]
        /\ writer = NoThread
        /\ loc = [t \in Threads |-> Idle]

At(t, pc) == loc[t].pc = pc
Return(t) == loc' = [loc EXCEPT ![t] = Idle]

-----------------------------------------------------------------------------
(* What a write checks.                                                     *)

ActiveFields(e) == {f \in spec.fields : EntityOf[f] = e}

\* The links whose target is stored with the records of e.
EditableLinks(e) ==
    {l \in spec.links : From[l] = e /\ Cardinality[l] \in EditableCardinalities}

\* find_entity_ids_by_attribute, and the check that each is a record of From[l]
Holders(l, target) == {r \in RecordIds : records[r] = From[l] /\ attributes[r][l] = target}

\* Fault: any record will do as a target.
TargetFits_AnyEntity(l, target, id) ==
    /\ records[target] # NoRecord
    /\ Cardinality[l] = "one_to_one" => Holders(l, target) \subseteq {id}

\* _check_link_target: id is the record being written, NoRecord if it is new.
TargetFits(l, target, id) ==
    /\ records[target] = To[l]
    /\ Cardinality[l] = "one_to_one" => Holders(l, target) \subseteq {id}

\* is_empty: a field can hold the empty string, and has no value then.
IsEmpty(v) == v \in {NoValue, Blank}

\* The value as it is stored, Refused if the check fails.
Checked(k, raw, id) ==
    IF raw = NoValue \/ (k \in LinkKeys /\ raw = Blank) THEN NoValue
    ELSE IF k \in FieldKeys
         THEN IF raw \in Values THEN Coerce[spec.type[k]][raw] ELSE Refused
         ELSE IF raw \in RecordIds /\ TargetFits(k, raw, id) THEN raw ELSE Refused

Merge(old, cleaned) ==
    [k \in Keys |-> IF k \in DOMAIN cleaned THEN cleaned[k] ELSE old[k]]

Existing(id) == IF id = NoRecord THEN NoAttributes ELSE attributes[id]

IsComplete(e, a) == \A f \in ActiveFields(e) \cap spec.required : ~IsEmpty(a[f])

\* _check_values returns no errors
IsAccepted(e, id, cleaned) ==
    /\ DOMAIN cleaned \subseteq ActiveFields(e) \cup EditableLinks(e)
    /\ \A k \in DOMAIN cleaned : cleaned[k] # Refused
    /\ IsComplete(e, Merge(Existing(id), cleaned))

-----------------------------------------------------------------------------
(* create_record and update_record                                          *)

\* Fault: no lock is taken before the first read.
BeginWrite_Deferred(t) ==
    /\ loc[t] = Idle
    /\ loc' = [loc EXCEPT ![t].pc = "check"]
    /\ UNCHANGED <<spec, records, attributes, writer>>

BeginWrite(t) == /\ loc[t] = Idle
                 /\ writer = NoThread
                 /\ writer' = t
                 /\ loc' = [loc EXCEPT ![t].pc = "check"]
                 /\ UNCHANGED <<spec, records, attributes>>

\* An entity type that is missing or archived, a record that is not there or is
\* of another type, or an error in the values: nothing is written.
Check(t, e, id, request) ==
    /\ At(t, "check")
    /\ LET cleaned == [k \in DOMAIN request |-> Checked(k, request[k], id)]
       IN  IF /\ e \in spec.entities
              /\ id # NoRecord => records[id] = e
              /\ IsAccepted(e, id, cleaned)
           THEN /\ loc' = [loc EXCEPT ![t].pc = "write", ![t].id = id, ![t].entity = e,
                                      ![t].cleaned = cleaned]
                /\ UNCHANGED writer
           ELSE /\ Return(t)
                /\ writer' = NoThread
    /\ UNCHANGED <<spec, records, attributes>>

\* The insert of a new record, its attributes, and the commit.
Write(t) ==
    /\ At(t, "write")
    /\ writer \in {t, NoThread}
    /\ \E id \in RecordIds :
          /\ IF loc[t].id = NoRecord THEN records[id] = NoRecord ELSE id = loc[t].id
          /\ records' = [records EXCEPT ![id] = loc[t].entity]
          /\ attributes' = [attributes EXCEPT ![id] = Merge(@, loc[t].cleaned)]
    /\ writer' = NoThread
    /\ Return(t)
    /\ UNCHANGED spec

-----------------------------------------------------------------------------
(* list_records and get_record: the definition, then the records, then the  *)
(* targets of their links, each read on its own.                            *)

ReadSpec(t, e) ==
    /\ loc[t] = Idle
    /\ e \in spec.entities
    /\ loc' = [loc EXCEPT ![t].pc = "page", ![t].entity = e, ![t].links = EditableLinks(e)]
    /\ UNCHANGED <<spec, records, attributes, writer>>

ReadPage(t, page) ==
    /\ At(t, "page")
    /\ \A r \in page : records[r] = loc[t].entity
    /\ loc' = [loc EXCEPT ![t].pc = "labels",
          ![t].shown = [l \in LinkKeys |->
              {target \in RecordIds :
                  l \in loc[t].links /\ \E r \in page : attributes[r][l] = target}]]
    /\ UNCHANGED <<spec, records, attributes, writer>>

\* _link_views: every record of the entity type at the other end has a label.
ReadLabels(t) ==
    /\ At(t, "labels")
    /\ loc' = [loc EXCEPT ![t].pc = "show",
          ![t].labels = [l \in LinkKeys |->
              {target \in RecordIds : l \in loc[t].links /\ records[target] = To[l]}]]
    /\ UNCHANGED <<spec, records, attributes, writer>>

Show(t) == /\ At(t, "show")
           /\ Return(t)
           /\ UNCHANGED <<spec, records, attributes, writer>>

-----------------------------------------------------------------------------
(* list_linked_by: the definition, the record, and then the holders of each  *)
(* link that ends there.                                                     *)

InboundLinks(e) ==
    {l \in spec.links : To[l] = e /\ Cardinality[l] \in EditableCardinalities}

\* With no such link there is nothing to show.
ReadInbound(t, e, id) ==
    /\ loc[t] = Idle
    /\ e \in spec.entities
    /\ InboundLinks(e) # {}
    /\ loc' = [loc EXCEPT ![t].pc = "owned", ![t].id = id, ![t].entity = e,
                          ![t].links = InboundLinks(e)]
    /\ UNCHANGED <<spec, records, attributes, writer>>

\* _owned_record: 404 if the record is not there, or is of another type
ReadOwned(t) ==
    /\ At(t, "owned")
    /\ IF records[loc[t].id] = loc[t].entity
       THEN loc' = [loc EXCEPT ![t].pc = "holders"]
       ELSE Return(t)
    /\ UNCHANGED <<spec, records, attributes, writer>>

\* Fault: the holders are read page by page.
ReadHolders_Paged(t, l) ==
    /\ At(t, "holders") /\ l \in loc[t].links
    /\ \E page \in SUBSET RecordIds, pc \in {"holders", "backlinks"} :
          loc' = [loc EXCEPT ![t].shown[l] = @ \cup (Holders(l, loc[t].id) \cap page), ![t].pc = pc]
    /\ UNCHANGED <<spec, records, attributes, writer>>

\* One SELECT for each link
ReadHolders(t, l) ==
    /\ At(t, "holders") /\ l \in loc[t].links
    /\ loc' = [loc EXCEPT ![t].shown[l] = Holders(l, loc[t].id),
                          ![t].links = @ \ {l},
                          ![t].pc = IF loc[t].links = {l} THEN "backlinks" ELSE @]
    /\ UNCHANGED <<spec, records, attributes, writer>>

ShowBacklinks(t) == /\ At(t, "backlinks")
                    /\ Return(t)
                    /\ UNCHANGED <<spec, records, attributes, writer>>

-----------------------------------------------------------------------------

\* An approval or a revert (see Proposals) commits another definition.
ChangeSpec == /\ writer = NoThread
              /\ spec' \in Specs \ {spec}
              /\ UNCHANGED <<records, attributes, writer, loc>>

\* The process dies, or the lock is not free in time: nothing is written.
Fail(t) == /\ loc[t] # Idle
           /\ Return(t)
           /\ writer' = IF writer = t THEN NoThread ELSE writer
           /\ UNCHANGED <<spec, records, attributes>>

Next == \/ ChangeSpec
        \/ \E t \in Threads :
              \/ BeginWrite(t)
              \/ \E e \in EntityKeys, id \in RecordIds \cup {NoRecord}, request \in Changes :
                    Check(t, e, id, request)
              \/ Write(t)
              \/ \E e \in EntityKeys : ReadSpec(t, e)
              \/ \E page \in SUBSET RecordIds : ReadPage(t, page)
              \/ ReadLabels(t)
              \/ Show(t)
              \/ \E e \in EntityKeys, id \in RecordIds : ReadInbound(t, e, id)
              \/ ReadOwned(t)
              \/ \E l \in LinkKeys : ReadHolders(t, l)
              \/ ShowBacklinks(t)
              \/ Fail(t)

Spec == Init /\ [][Next]_vars

-----------------------------------------------------------------------------

\* "this one_to_one target is free": however writes race, and whatever became of
\* the link in the meantime, no target of a one_to_one link has two holders.
OneToOneIsUnique ==
    \A l \in LinkKeys : Cardinality[l] = "one_to_one" =>
       \A r \in RecordIds : \A p, q \in Holders(l, r) : p = q

\* A write fits the definition that is current when it commits: the entity type
\* is active, each changed key is an active field or an editable link, a changed
\* field is empty or holds a value that coerce_value would leave alone, and what
\* is required is there.
WritesFitDefinition ==
    [][\A r \in RecordIds :
          (attributes'[r] # attributes[r] \/ records'[r] # records[r]) =>
             LET e == records'[r]
             IN  /\ e \in spec.entities
                 /\ IsComplete(e, attributes'[r])
                 /\ \A k \in Keys : attributes'[r][k] # attributes[r][k] =>
                       /\ k \in ActiveFields(e) \cup EditableLinks(e)
                       /\ k \in FieldKeys /\ ~IsEmpty(attributes'[r][k]) =>
                             Coerce[spec.type[k]][attributes'[r][k]] = attributes'[r][k]]_vars

\* The reads of a page are not one snapshot, and the definition may change under
\* them, yet every link on it has the label of its target.
LinksHaveLabels ==
    \A t \in Threads : At(t, "show") =>
       \A l \in LinkKeys : loc[t].shown[l] \subseteq loc[t].labels[l]

\* "what points at this record?": although nothing is locked, and writes move a
\* link from one record to another meanwhile, a record is told of at most one
\* holder for each one_to_one link, and of records of the linking type only.
BacklinksAreSingle ==
    \A t \in Threads : At(t, "backlinks") =>
       \A l \in LinkKeys :
          /\ \A r \in loc[t].shown[l] : records[r] = From[l]
          /\ Cardinality[l] = "one_to_one" => \A p, q \in loc[t].shown[l] : p = q
=============================================================================
