------------------------------ MODULE SpecEngine ------------------------------
(***************************************************************************)
(* The operations engine of agentic/operations.py and the validator of      *)
(* agentic/validator.py: the only way the definition of a CRM changes.      *)
(*                                                                          *)
(* A definition holds entity types, their fields and the links between      *)
(* entity types.  Nothing is deleted, only archived.  Archiving an entity   *)
(* type archives the links that touch it, and each such link remembers in   *)
(* archived_by which entity type it waits for.                              *)
(*                                                                          *)
(* An operation is applied to a copy and the copy replaces the definition   *)
(* only if the validator accepts it, so a step here is one operation that   *)
(* was kept; a refused operation changes nothing.  Labels and option lists  *)
(* are values: Norm is what casefold and split leave of a label, and an     *)
(* option list is well formed if it is non-empty, without blanks and        *)
(* without repetitions.  Keys are drawn at random among the unused ones.    *)
(***************************************************************************)

CONSTANTS EntityKeys, FieldKeys, LinkKeys,
          Labels, Norm,                 \* labels, and their normal form
          OptionLists, WellFormed,      \* option lists, and the acceptable ones
          Empty,                        \* the empty list of options
          None,                         \* Python's None
          Absent                        \* of a key that is not in the definition

ASSUME EngineAssumption ==
    /\ Norm \in [Labels -> Labels]
    /\ WellFormed \subseteq OptionLists
    /\ Empty \in OptionLists \ WellFormed
    /\ None \notin EntityKeys \cup OptionLists \cup Labels \cup BOOLEAN

Types == {"select", "text"}     \* with and without options

EntityRow == [label : Labels, archived : BOOLEAN]
FieldRow  == [entity : EntityKeys, label : Labels, type : Types,
              options : OptionLists \cup {None}, required : BOOLEAN, archived : BOOLEAN]
LinkRow   == [from : EntityKeys, to : EntityKeys, archived : BOOLEAN,
              archived_by : EntityKeys \cup {None}]

ASSUME AbsentAssumption == /\ Absent \notin EntityRow \cup FieldRow \cup LinkRow
                           /\ \A ends \in SUBSET EntityKeys : Absent # ends

VARIABLES entities, fields, links

vars == <<entities, fields, links>>

TypeOK == /\ entities \in [EntityKeys -> EntityRow \cup {Absent}]
          /\ fields \in [FieldKeys -> FieldRow \cup {Absent}]
          /\ links \in [LinkKeys -> LinkRow \cup {Absent}]

Init == /\ entities = [e \in EntityKeys |-> Absent]
        /\ fields = [f \in FieldKeys |-> Absent]
        /\ links = [l \in LinkKeys |-> Absent]

-----------------------------------------------------------------------------
(* The validator.                                                           *)

Present(table) == {k \in DOMAIN table : table[k] # Absent}

\* Fault: archived entity types and fields may share a label.
LabelsUnique_ActiveOnly(table, keys) ==
    \A j, k \in keys : (/\ Norm[table[j].label] = Norm[table[k].label]
                        /\ ~table[j].archived /\ ~table[k].archived) => j = k

\* Labels are unique once normalized, archived ones included.
LabelsUnique(table, keys) ==
    \A j, k \in keys : Norm[table[j].label] = Norm[table[k].label] => j = k

OptionsFit(field) == IF field.type = "select" THEN field.options \in WellFormed
                                              ELSE field.options \in {None, Empty}

Ends(link) == {link.from, link.to}

LinkIsValid(E, link) ==
    /\ link.archived_by # None => link.archived /\ link.archived_by \in Ends(link)
    /\ \A e \in Ends(link) : E[e] # Absent /\ (E[e].archived => link.archived)

\* validate_spec(data) == []
IsValid(E, F, L) ==
    /\ LabelsUnique(E, Present(E))
    /\ \A e \in Present(E) : LabelsUnique(F, {f \in Present(F) : F[f].entity = e})
    /\ \A f \in Present(F) : OptionsFit(F[f])
    /\ \A l \in Present(L) : LinkIsValid(E, L[l])

Accept(E, F, L) == /\ IsValid(E, F, L)
                   /\ entities' = E
                   /\ fields' = F
                   /\ links' = L

-----------------------------------------------------------------------------
(* Entity types.                                                            *)

IsActive(e) == entities[e] # Absent /\ ~entities[e].archived

CreateEntityType(e, label) ==
    /\ entities[e] = Absent
    /\ Accept([entities EXCEPT ![e] = [label |-> label, archived |-> FALSE]], fields, links)

UpdateEntityType(e, label) ==
    /\ IsActive(e)
    /\ Accept([entities EXCEPT ![e].label = label], fields, links)

Archive(table, k) == [table EXCEPT ![k].archived = TRUE]
Restore(table, k) == [table EXCEPT ![k].archived = FALSE]

\* Fault: links that were archived already are marked as well.
Cascade_All(L, e) == [l \in LinkKeys |->
    IF L[l] # Absent /\ e \in Ends(L[l])
    THEN [L[l] EXCEPT !.archived = TRUE, !.archived_by = e]
    ELSE L[l]]

\* The links that archiving e takes along, each marked with e.
Cascade(L, e) == [l \in LinkKeys |->
    IF L[l] # Absent /\ ~L[l].archived /\ e \in Ends(L[l])
    THEN [L[l] EXCEPT !.archived = TRUE, !.archived_by = e]
    ELSE L[l]]

ArchiveEntityType(e) ==
    /\ IsActive(e)
    /\ Accept(Archive(entities, e), fields, Cascade(links, e))

OtherEnd(link, e) == IF link.from = e THEN link.to ELSE link.from

\* Fault: a link whose other end is still archived stays as it is.
Uncascade_Forgetful(E, L, e) == [l \in LinkKeys |->
    IF L[l] # Absent /\ L[l].archived_by = e /\ ~E[OtherEnd(L[l], e)].archived
    THEN [L[l] EXCEPT !.archived = FALSE, !.archived_by = None]
    ELSE L[l]]

\* The links that waited for e come back, or now wait for their other end.
\* E is the table in which e is already active again.
Uncascade(E, L, e) == [l \in LinkKeys |->
    IF L[l] = Absent \/ L[l].archived_by # e THEN L[l]
    ELSE LET other == OtherEnd(L[l], e)
         IN  IF E[other].archived THEN [L[l] EXCEPT !.archived_by = other]
             ELSE [L[l] EXCEPT !.archived = FALSE, !.archived_by = None]]

RestoreEntityType(e) ==
    /\ entities[e] # Absent /\ entities[e].archived
    /\ Accept(Restore(entities, e), fields, Uncascade(Restore(entities, e), links, e))

-----------------------------------------------------------------------------
(* Fields.  An operation names the entity type and the field.               *)

HasField(e, f) == IsActive(e) /\ fields[f] # Absent /\ fields[f].entity = e

AddField(e, f, label, type, options, required) ==
    /\ IsActive(e)
    /\ fields[f] = Absent
    /\ Accept(entities,
              [fields EXCEPT ![f] = [entity |-> e, label |-> label, type |-> type,
                                     options |-> options, required |-> required,
                                     archived |-> FALSE]],
              links)

\* An argument that is None leaves the attribute as it is.
Given(argument, old) == IF argument = None THEN old ELSE argument

UpdateField(e, f, label, options, required) ==
    /\ \E argument \in {label, options, required} : argument # None
    /\ HasField(e, f) /\ ~fields[f].archived
    /\ Accept(entities,
              [fields EXCEPT ![f].label = Given(label, @), ![f].options = Given(options, @),
                             ![f].required = Given(required, @)],
              links)

ChangeFieldType(e, f, type, options) ==
    /\ HasField(e, f) /\ ~fields[f].archived
    /\ fields[f].type = type => options # None
    /\ Accept(entities,
              [fields EXCEPT ![f].type = type,
                             ![f].options = IF type = "select" THEN Given(options, @)
                                                               ELSE options],
              links)

ArchiveField(e, f) == /\ HasField(e, f) /\ ~fields[f].archived
                      /\ Accept(entities, Archive(fields, f), links)

RestoreField(e, f) == /\ HasField(e, f) /\ fields[f].archived
                      /\ Accept(entities, Restore(fields, f), links)

-----------------------------------------------------------------------------
(* Links.                                                                   *)

AddLink(l, from, to) ==
    /\ IsActive(from) /\ IsActive(to)
    /\ links[l] = Absent
    /\ Accept(entities, fields,
              [links EXCEPT ![l] = [from |-> from, to |-> to, archived |-> FALSE,
                                    archived_by |-> None]])

\* A link archived by hand is never a cascade.
SetLinkArchived(l, archived) ==
    [links EXCEPT ![l].archived = archived, ![l].archived_by = None]

ArchiveLink(l) == /\ links[l] # Absent /\ ~links[l].archived
                  /\ Accept(entities, fields, SetLinkArchived(l, TRUE))

RestoreLink(l) == /\ links[l] # Absent /\ links[l].archived
                  /\ Accept(entities, fields, SetLinkArchived(l, FALSE))

-----------------------------------------------------------------------------

EntityStep(e) ==
    \/ \E label \in Labels : CreateEntityType(e, label) \/ UpdateEntityType(e, label)
    \/ ArchiveEntityType(e)
    \/ RestoreEntityType(e)

FieldStep(e, f) ==
    \/ \E label \in Labels, type \in Types, options \in OptionLists \cup {None},
          required \in BOOLEAN : AddField(e, f, label, type, options, required)
    \/ \E label \in Labels \cup {None}, options \in OptionLists \cup {None},
          required \in BOOLEAN \cup {None} : UpdateField(e, f, label, options, required)
    \/ \E type \in Types, options \in OptionLists \cup {None} :
          ChangeFieldType(e, f, type, options)
    \/ ArchiveField(e, f)
    \/ RestoreField(e, f)

LinkStep(l) ==
    \/ \E from, to \in EntityKeys : AddLink(l, from, to)
    \/ ArchiveLink(l)
    \/ RestoreLink(l)

Next == \/ \E e \in EntityKeys : EntityStep(e)
        \/ \E e \in EntityKeys, f \in FieldKeys : FieldStep(e, f)
        \/ \E l \in LinkKeys : LinkStep(l)

Spec == Init /\ [][Next]_vars

-----------------------------------------------------------------------------

\* A link waits only for an entity type that is archived, so restoring the
\* archived ones brings every link back.  The validator does not check this.
MarksAreTrue == \A l \in Present(links) :
    links[l].archived_by # None => entities[links[l].archived_by].archived

\* "restoring one must never create a duplicate": nothing archived is ever
\* stuck, whatever was created or renamed since.
RestoreIsAccepted ==
    /\ \A e \in Present(entities) : entities[e].archived =>
          LET E == Restore(entities, e) IN IsValid(E, fields, Uncascade(E, links, e))
    /\ \A f \in Present(fields) : fields[f].archived =>
          IsValid(entities, Restore(fields, f), links)

\* "restoring the entity brings back exactly those links": to archive an entity
\* type and restore it at once is to do nothing.
ArchiveIsUndone == \A e \in EntityKeys : IsActive(e) =>
    LET E == Archive(entities, e)
        L == Cascade(links, e)
    IN  /\ IsValid(E, fields, L)
        /\ Uncascade(Restore(E, e), L, e) = links

\* The same for two entity types, in whichever order they are restored.
ArchivesCommute == \A a, b \in EntityKeys : (IsActive(a) /\ IsActive(b) /\ a # b) =>
    LET E == Archive(Archive(entities, a), b)
        L == Cascade(Cascade(links, a), b)
        aFirst == Uncascade(Restore(E, a), L, a)
        bFirst == Uncascade(Restore(E, b), L, b)
    IN  /\ Uncascade(entities, aFirst, b) = links
        /\ Uncascade(entities, bFirst, a) = links

\* What the three tables stand for in LinkVisibility.
There == {e \in Present(entities) : ~entities[e].archived}
Away == {e \in Present(entities) : entities[e].archived}
LinkEnds == [l \in LinkKeys |-> IF links[l] = Absent THEN Absent ELSE Ends(links[l])]
Hidden == {l \in Present(links) : links[l].archived /\ links[l].archived_by = None}
Visible == {l \in Present(links) : ~links[l].archived}

Visibility == INSTANCE LinkVisibility WITH there <- There, away <- Away, ends <- LinkEnds,
                                           hidden <- Hidden, visible <- Visible

\* A link is visible exactly when it was not archived by hand and neither of its
\* ends is archived, whatever was archived and restored in whatever order.
ImplementsVisibility == Visibility!Spec
=============================================================================
