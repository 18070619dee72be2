------------------------------ MODULE PackLoader ------------------------------
(***************************************************************************)
(* load_pack of packs/loader.py: which packs load.  A pack is one content   *)
(* per file.  A file that parses is a record of what the checks look at:    *)
(* whether it has top-level keys that nobody knows, whether Pydantic        *)
(* accepts what is under the known ones, and the names that other files     *)
(* refer to.                                                                *)
(***************************************************************************)
EXTENDS SequencesExt

CONSTANTS Missing,      \* there is no such file
          Broken,       \* the file is no YAML
          Prefixed      \* the entity types that begin with crm_

RequiredFiles == {"meta", "questionnaire", "event_schemas", "prompts", "approval_defaults"}

\* entity_schemas.yaml may be missing.
FilesOf(pack) == RequiredFiles \cup (IF pack.entity_schemas = Missing THEN {} ELSE {"entity_schemas"})

IsRead(pack) == \A f \in FilesOf(pack) : pack[f] \notin {Missing, Broken}

IsShaped(pack) == \A f \in FilesOf(pack) : ~pack[f].unknownKeys /\ pack[f].wellTyped

EntitySchemas(pack) ==
    IF pack.entity_schemas = Missing THEN <<>> ELSE pack.entity_schemas.schemas

KnownActionTypes(pack) == UNION {s.valid_action_types : s \in ToSet(pack.event_schemas.schemas)}

\* No two of one type, nothing required that is not a field, and no type that
\* could be a core one.
EntitiesFit(schemas) ==
    /\ \A i, j \in DOMAIN schemas : schemas[i].entity_type = schemas[j].entity_type => i = j
    /\ \A s \in ToSet(schemas) : s.required \subseteq s.fields /\ s.entity_type \in Prefixed

\* validate_pack(pack) == []
IsConsistent(pack) ==
    /\ pack.prompts.settings \subseteq pack.questionnaire.settings
    /\ KnownActionTypes(pack) = pack.approval_defaults.action_types
    /\ EntitiesFit(EntitySchemas(pack))

load_pack(pack) == IsRead(pack) /\ IsShaped(pack) /\ IsConsistent(pack)
=============================================================================
