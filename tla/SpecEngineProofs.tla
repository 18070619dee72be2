-------------------------- MODULE SpecEngineProofs --------------------------
(***************************************************************************)
(* Proofs about SpecEngine and ProposalBatch, for every set of keys, labels *)
(* and option lists, and for lists of operations of any length.             *)
(*                                                                          *)
(* SpecEngine.  The validator accepts every definition that is stored, but  *)
(* it does not say that a link waits only for an archived entity type       *)
(* (MarksAreTrue): that holds because of the order of archives and restores, *)
(* and with it the definition is strong enough for the other properties.    *)
(*                                                                          *)
(* ProposalBatch.  What the list of a proposal went through when it was      *)
(* drafted is kept as a run (IsRun), and the replay follows it step by step *)
(* (Follows): a renaming of keys takes the definition, the refs and the     *)
(* drawn keys of the run to those of the replay (Corresponds).  Every       *)
(* operation commutes with such a renaming (SameStep), and its guards and   *)
(* the validator do not see it (AsksUnder, ValidUnder).                     *)
(***************************************************************************)
EXTENDS ProposalBatch, FiniteSetTheorems, TLAPS

Valid == IsValid(entities, fields, links)

IInv == TypeOK /\ Valid /\ MarksAreTrue
-----------------------------------------------------------------------------
(* What one operation does to each of the three tables.                     *)

LEMMA KeptIsValid ==
    ASSUME NEW E, NEW F, NEW L, Accept(E, F, L)
    PROVE  Valid'
BY DEF Accept, Valid

LEMMA ArchiveType ==
    ASSUME TypeOK, NEW e \in EntityKeys, entities[e] # Absent, NEW b \in BOOLEAN
    PROVE  [entities EXCEPT ![e].archived = b] \in [EntityKeys -> EntityRow \cup {Absent}]
<1>1. entities[e] \in EntityRow
  BY DEF TypeOK
<1>2. [entities[e] EXCEPT !.archived = b] \in EntityRow
  BY <1>1 DEF EntityRow
<1> QED
  BY <1>2 DEF TypeOK

LEMMA CascadeType ==
    ASSUME TypeOK, NEW e \in EntityKeys
    PROVE  Cascade(links, e) \in [LinkKeys -> LinkRow \cup {Absent}]
<1>1. ASSUME NEW l \in LinkKeys
      PROVE  Cascade(links, e)[l] \in LinkRow \cup {Absent}
  BY DEF TypeOK, Cascade, LinkRow
<1> QED
  BY <1>1 DEF Cascade

LEMMA UncascadeType ==
    ASSUME TypeOK, NEW e \in EntityKeys, NEW E
    PROVE  Uncascade(E, links, e) \in [LinkKeys -> LinkRow \cup {Absent}]
<1>1. ASSUME NEW l \in LinkKeys
      PROVE  Uncascade(E, links, e)[l] \in LinkRow \cup {Absent}
  <2>1. links[l] # Absent => OtherEnd(links[l], e) \in EntityKeys
    BY DEF TypeOK, LinkRow, OtherEnd
  <2> QED
    BY <2>1 DEF TypeOK, Uncascade, LinkRow
<1> QED
  BY <1>1 DEF Uncascade

\* Only archived entity types are waited for, and they exist.
LEMMA MarkedEnds ==
    ASSUME IInv, NEW l \in Present(links), links[l].archived_by # None
    PROVE  /\ links[l].archived_by \in EntityKeys
           /\ entities[links[l].archived_by] # Absent
           /\ entities[links[l].archived_by].archived
           /\ links[l].archived
<1>1. l \in LinkKeys /\ links[l] \in LinkRow
  BY DEF IInv, TypeOK, Present
<1>2. LinkIsValid(entities, links[l])
  BY DEF IInv, Valid, IsValid
<1> QED
  BY <1>1, <1>2 DEF IInv, MarksAreTrue, LinkIsValid, Ends, LinkRow
-----------------------------------------------------------------------------
(* The invariant, one lemma per table.                                      *)

LEMMA EntityStepKeeps ==
    ASSUME EngineAssumption, AbsentAssumption, IInv, NEW e \in EntityKeys, EntityStep(e)
    PROVE  TypeOK' /\ MarksAreTrue'
<1>1. ASSUME NEW label \in Labels, CreateEntityType(e, label)
      PROVE  TypeOK' /\ MarksAreTrue'
  <2>1. TypeOK'
    BY <1>1 DEF CreateEntityType, Accept, IInv, TypeOK, EntityRow
  <2>2. ASSUME NEW l \in Present(links)', links'[l].archived_by # None
        PROVE  entities'[links'[l].archived_by].archived
    <3>1. links' = links /\ l \in Present(links)
      BY <1>1, <2>2 DEF CreateEntityType, Accept, Present
    <3> QED
      BY <1>1, <2>2, <3>1, MarkedEnds DEF CreateEntityType, Accept, IInv, TypeOK
  <2> QED
    BY <2>1, <2>2 DEF MarksAreTrue
<1>2. ASSUME NEW label \in Labels, UpdateEntityType(e, label)
      PROVE  TypeOK' /\ MarksAreTrue'
  <2>1. entities[e] \in EntityRow
    BY <1>2 DEF UpdateEntityType, IsActive, IInv, TypeOK
  <2>2. [entities[e] EXCEPT !.label = label] \in EntityRow
    BY <2>1 DEF EntityRow
  <2>3. TypeOK'
    BY <1>2, <2>2 DEF UpdateEntityType, Accept, IInv, TypeOK
  <2>4. ASSUME NEW l \in Present(links)', links'[l].archived_by # None
        PROVE  entities'[links'[l].archived_by].archived
    <3>1. links' = links /\ l \in Present(links)
      BY <1>2, <2>4 DEF UpdateEntityType, Accept, Present
    <3> QED
      BY <1>2, <2>4, <3>1, <2>1, MarkedEnds
      DEF UpdateEntityType, Accept, IInv, TypeOK, EntityRow, IsActive
  <2> QED
    BY <2>3, <2>4 DEF MarksAreTrue
<1>3. ASSUME ArchiveEntityType(e)
      PROVE  TypeOK' /\ MarksAreTrue'
  <2> DEFINE E == Archive(entities, e)
  <2>1. entities' = E /\ fields' = fields /\ links' = Cascade(links, e)
    BY <1>3 DEF ArchiveEntityType, Accept
  <2>2. E \in [EntityKeys -> EntityRow \cup {Absent}]
    BY <1>3, ArchiveType DEF ArchiveEntityType, IsActive, Archive, IInv
  <2>3. TypeOK'
    BY <2>1, <2>2, CascadeType DEF IInv, TypeOK
  <2>4. ASSUME NEW k \in EntityKeys, entities[k] # Absent, entities[k].archived
        PROVE  E[k].archived
    BY <1>3, <2>4 DEF ArchiveEntityType, IsActive, Archive, IInv, TypeOK
  <2>5. E[e].archived
    <3>1. entities[e] \in EntityRow
      BY <1>3 DEF ArchiveEntityType, IsActive, IInv, TypeOK
    <3> QED
      BY <3>1 DEF Archive, IInv, TypeOK, EntityRow
  <2>6. ASSUME NEW l \in Present(links)', links'[l].archived_by # None
        PROVE  entities'[links'[l].archived_by].archived
    <3>1. l \in LinkKeys /\ links[l] # Absent
      BY <2>1, <2>6 DEF Present, Cascade
    <3>2. links[l] \in LinkRow
      BY <3>1 DEF IInv, TypeOK
    <3>3. CASE links'[l].archived_by = e
      BY <2>1, <2>5, <3>3
    <3>4. CASE links'[l].archived_by # e
      <4>1. links'[l] = links[l]
        BY <2>1, <3>1, <3>2, <3>4 DEF Cascade, LinkRow
      <4>2. l \in Present(links)
        BY <3>1 DEF Present, IInv, TypeOK
      <4> QED
        BY <2>1, <2>4, <2>6, <4>1, <4>2, MarkedEnds
    <3> QED
      BY <3>3, <3>4
  <2> QED
    BY <2>3, <2>6 DEF MarksAreTrue
<1>4. ASSUME RestoreEntityType(e)
      PROVE  TypeOK' /\ MarksAreTrue'
  <2> DEFINE E == Restore(entities, e)
  <2>1. entities' = E /\ fields' = fields /\ links' = Uncascade(E, links, e)
    BY <1>4 DEF RestoreEntityType, Accept
  <2>2. E \in [EntityKeys -> EntityRow \cup {Absent}]
    BY <1>4, ArchiveType DEF RestoreEntityType, Restore, IInv
  <2>3. TypeOK'
    BY <2>1, <2>2, UncascadeType DEF IInv, TypeOK
  <2>4. ASSUME NEW k \in EntityKeys, k # e
        PROVE  E[k] = entities[k]
    BY <2>4 DEF Restore, IInv, TypeOK
  <2>5. ASSUME NEW l \in Present(links)', links'[l].archived_by # None
        PROVE  entities'[links'[l].archived_by].archived
    <3>1. l \in LinkKeys /\ links[l] # Absent
      BY <2>1, <2>5 DEF Present, Uncascade
    <3>2. links[l] \in LinkRow /\ l \in Present(links)
      BY <3>1 DEF IInv, TypeOK, Present
    <3>3. CASE links[l].archived_by # e
      <4>1. links'[l] = links[l]
        BY <2>1, <3>1, <3>3 DEF Uncascade
      <4> QED
        BY <2>1, <2>4, <2>5, <3>2, <3>3, <4>1, MarkedEnds
    <3>4. CASE links[l].archived_by = e
      BY <2>1, <2>5, <3>1, <3>2, <3>4 DEF Uncascade, LinkRow
    <3> QED
      BY <3>3, <3>4
  <2> QED
    BY <2>3, <2>5 DEF MarksAreTrue
<1> QED
  BY <1>1, <1>2, <1>3, <1>4 DEF EntityStep

\* Marks and ends are untouched when entity types and links are.
LEMMA SameMarks ==
    ASSUME IInv, entities' = entities, links' = links
    PROVE  MarksAreTrue'
BY DEF IInv, MarksAreTrue, Present

LEMMA OneField ==
    ASSUME TypeOK, NEW f \in FieldKeys, NEW row \in FieldRow
    PROVE  [fields EXCEPT ![f] = row] \in [FieldKeys -> FieldRow \cup {Absent}]
BY DEF TypeOK

LEMMA FieldStepKeeps ==
    ASSUME EngineAssumption, AbsentAssumption, IInv,
           NEW e \in EntityKeys, NEW f \in FieldKeys, FieldStep(e, f)
    PROVE  TypeOK' /\ MarksAreTrue'
<1>1. HasField(e, f) => fields[f] \in FieldRow
  BY DEF HasField, IInv, TypeOK
<1>2. ASSUME NEW label \in Labels, NEW type \in Types, NEW options \in OptionLists \cup {None},
             NEW required \in BOOLEAN, AddField(e, f, label, type, options, required)
      PROVE  TypeOK' /\ MarksAreTrue'
  <2> DEFINE row == [entity |-> e, label |-> label, type |-> type, options |-> options,
                     required |-> required, archived |-> FALSE]
  <2>1. row \in FieldRow
    BY DEF FieldRow
  <2>2. fields' = [fields EXCEPT ![f] = row] /\ entities' = entities /\ links' = links
    BY <1>2 DEF AddField, Accept
  <2> QED
    BY <2>1, <2>2, OneField, SameMarks DEF IInv, TypeOK
<1>3. ASSUME NEW label \in Labels \cup {None}, NEW options \in OptionLists \cup {None},
             NEW required \in BOOLEAN \cup {None}, UpdateField(e, f, label, options, required)
      PROVE  TypeOK' /\ MarksAreTrue'
  <2> DEFINE row == [fields[f] EXCEPT !.label = Given(label, @), !.options = Given(options, @),
                                      !.required = Given(required, @)]
  <2>1. fields[f] \in FieldRow
    BY <1>1, <1>3 DEF UpdateField
  <2>2. Given(label, fields[f].label) \in Labels
    BY <2>1 DEF Given, FieldRow
  <2>3. Given(options, fields[f].options) \in OptionLists \cup {None}
    BY <2>1 DEF Given, FieldRow
  <2>4. Given(required, fields[f].required) \in BOOLEAN
    <3>1. fields[f].required \in BOOLEAN
      BY <2>1 DEF FieldRow
    <3> QED
      BY <3>1 DEF Given
  <2>5. row \in FieldRow
    BY <2>1, <2>2, <2>3, <2>4 DEF FieldRow
  <2>6. fields' = [fields EXCEPT ![f] = row]
    BY <1>3 DEF UpdateField, Accept, IInv, TypeOK
  <2>7. entities' = entities /\ links' = links
    BY <1>3 DEF UpdateField, Accept
  <2> QED
    BY <2>5, <2>6, <2>7, OneField, SameMarks DEF IInv, TypeOK
<1>4. ASSUME NEW type \in Types, NEW options \in OptionLists \cup {None},
             ChangeFieldType(e, f, type, options)
      PROVE  TypeOK' /\ MarksAreTrue'
  <2> DEFINE kept == IF type = "select" THEN Given(options, fields[f].options) ELSE options
             row == [fields[f] EXCEPT !.type = type, !.options = kept]
  <2>1. fields[f] \in FieldRow
    BY <1>1, <1>4 DEF ChangeFieldType
  <2>2. kept \in OptionLists \cup {None}
    BY <2>1 DEF Given, FieldRow
  <2>3. row \in FieldRow
    BY <2>1, <2>2 DEF FieldRow
  <2>4. fields' = [fields EXCEPT ![f] = row]
    BY <1>4 DEF ChangeFieldType, Accept, IInv, TypeOK
  <2>5. entities' = entities /\ links' = links
    BY <1>4 DEF ChangeFieldType, Accept
  <2> QED
    BY <2>3, <2>4, <2>5, OneField, SameMarks DEF IInv, TypeOK
<1>5. ASSUME ArchiveField(e, f) \/ RestoreField(e, f)
      PROVE  TypeOK' /\ MarksAreTrue'
  <2>1. PICK b \in BOOLEAN : fields' = [fields EXCEPT ![f].archived = b]
    BY <1>5 DEF ArchiveField, RestoreField, Archive, Restore, Accept
  <2>2. fields[f] \in FieldRow
    BY <1>1, <1>5 DEF ArchiveField, RestoreField
  <2>3. [fields[f] EXCEPT !.archived = b] \in FieldRow
    BY <2>2 DEF FieldRow
  <2>4. fields' \in [FieldKeys -> FieldRow \cup {Absent}]
    BY <2>1, <2>3 DEF IInv, TypeOK
  <2>5. entities' = entities /\ links' = links
    BY <1>5 DEF ArchiveField, RestoreField, Accept
  <2> QED
    BY <2>4, <2>5, SameMarks DEF IInv, TypeOK
<1> QED
  BY <1>2, <1>3, <1>4, <1>5 DEF FieldStep

LEMMA LinkStepKeeps ==
    ASSUME EngineAssumption, AbsentAssumption, IInv, NEW l \in LinkKeys, LinkStep(l)
    PROVE  TypeOK' /\ MarksAreTrue'
<1>1. PICK row \in LinkRow : /\ links' = [links EXCEPT ![l] = row]
                             /\ row.archived_by = None
                             /\ entities' = entities /\ fields' = fields
  <2>1. ASSUME NEW from \in EntityKeys, NEW to \in EntityKeys, AddLink(l, from, to)
        PROVE  \E row \in LinkRow : /\ links' = [links EXCEPT ![l] = row]
                                    /\ row.archived_by = None
                                    /\ entities' = entities /\ fields' = fields
    <3> DEFINE row == [from |-> from, to |-> to, archived |-> FALSE, archived_by |-> None]
    <3>1. row \in LinkRow /\ row.archived_by = None
      BY DEF LinkRow
    <3> QED
      BY <2>1, <3>1 DEF AddLink, Accept
  <2>2. ASSUME ArchiveLink(l) \/ RestoreLink(l)
        PROVE  \E row \in LinkRow : /\ links' = [links EXCEPT ![l] = row]
                                    /\ row.archived_by = None
                                    /\ entities' = entities /\ fields' = fields
    <3>1. PICK b \in BOOLEAN : links' = SetLinkArchived(l, b)
      BY <2>2 DEF ArchiveLink, RestoreLink, Accept
    <3> DEFINE row == [links[l] EXCEPT !.archived = b, !.archived_by = None]
    <3>2. links[l] \in LinkRow
      BY <2>2 DEF ArchiveLink, RestoreLink, IInv, TypeOK
    <3>3. row \in LinkRow /\ row.archived_by = None
      BY <3>2 DEF LinkRow
    <3>4. links' = [links EXCEPT ![l] = row]
      BY <3>1 DEF SetLinkArchived, IInv, TypeOK
    <3>5. entities' = entities /\ fields' = fields
      BY <2>2 DEF ArchiveLink, RestoreLink, Accept
    <3> QED
      BY <3>3, <3>4, <3>5
  <2> QED
    BY <2>1, <2>2 DEF LinkStep
<1>2. TypeOK'
  BY <1>1 DEF IInv, TypeOK
<1>3. MarksAreTrue'
  BY <1>1 DEF IInv, TypeOK, MarksAreTrue, Present
<1> QED
  BY <1>2, <1>3

LEMMA InitHolds == Init => IInv
BY DEF Init, IInv, TypeOK, Valid, IsValid, Present, LabelsUnique, MarksAreTrue

LEMMA StepKeeps == EngineAssumption /\ AbsentAssumption /\ IInv /\ [Next]_vars => IInv'
<1> SUFFICES ASSUME EngineAssumption, AbsentAssumption, IInv, [Next]_vars
             PROVE  IInv'
  OBVIOUS
<1>1. ASSUME NEW e \in EntityKeys, EntityStep(e)
      PROVE  IInv'
  <2>1. Valid'
    BY <1>1, KeptIsValid
    DEF EntityStep, CreateEntityType, UpdateEntityType, ArchiveEntityType, RestoreEntityType
  <2> QED
    BY <1>1, <2>1, EntityStepKeeps DEF IInv
<1>2. ASSUME NEW e \in EntityKeys, NEW f \in FieldKeys, FieldStep(e, f)
      PROVE  IInv'
  <2>1. Valid'
    BY <1>2, KeptIsValid
    DEF FieldStep, AddField, UpdateField, ChangeFieldType, ArchiveField, RestoreField
  <2> QED
    BY <1>2, <2>1, FieldStepKeeps DEF IInv
<1>3. ASSUME NEW l \in LinkKeys, LinkStep(l)
      PROVE  IInv'
  <2>1. Valid'
    BY <1>3, KeptIsValid DEF LinkStep, AddLink, ArchiveLink, RestoreLink
  <2> QED
    BY <1>3, <2>1, LinkStepKeeps DEF IInv
<1>4. CASE UNCHANGED vars
  BY <1>4 DEF vars, IInv, TypeOK, Valid, MarksAreTrue, Present
<1> QED
  BY <1>1, <1>2, <1>3, <1>4 DEF Next

\* Every definition that was ever stored has the type, was accepted by the
\* validator and has only true marks.
THEOREM Invariance == Spec => []IInv
BY InitHolds, StepKeeps, EngineAssumption, AbsentAssumption, PTL DEF Spec

\* Every definition that was ever stored is of the shape of agentic/spec.py.
THEOREM TypeCorrect == Spec => []TypeOK
BY Invariance, PTL DEF IInv

\* A link only ever waits for an entity type that is archived.
THEOREM LinksWaitForArchived == Spec => []MarksAreTrue
BY Invariance, PTL DEF IInv
-----------------------------------------------------------------------------
(* What the invariant says of operations that have not happened yet.        *)

\* The flag is all that Archive changes, and a label counts in either state.
LEMMA ArchiveKeepsLabels ==
    ASSUME AbsentAssumption, TypeOK, NEW e \in EntityKeys, entities[e] # Absent
    PROVE  LET E == Archive(entities, e)
           IN  /\ Present(E) = Present(entities)
               /\ \A k \in Present(entities) : E[k].label = entities[k].label
               /\ E[e] = [entities[e] EXCEPT !.archived = TRUE]
               /\ E[e].archived = TRUE
               /\ \A k \in EntityKeys : k # e => E[k] = entities[k]
<1> DEFINE E == Archive(entities, e)
<1>1. entities[e] \in EntityRow
  BY DEF TypeOK
<1>2. [entities[e] EXCEPT !.archived = TRUE] \in EntityRow
  BY <1>1 DEF EntityRow
<1>3. E[e] = [entities[e] EXCEPT !.archived = TRUE]
  BY DEF TypeOK, Archive
<1>4. \A k \in EntityKeys : k # e => E[k] = entities[k]
  BY DEF TypeOK, Archive
<1>5. E[e] # Absent
  BY <1>2, <1>3 DEF AbsentAssumption
<1>6. E[e].label = entities[e].label /\ E[e].archived = TRUE
  BY <1>1, <1>3 DEF EntityRow
<1>7. DOMAIN E = EntityKeys /\ DOMAIN entities = EntityKeys
  BY DEF TypeOK, Archive
<1>8. Present(E) = Present(entities)
  BY <1>4, <1>5, <1>7 DEF Present
<1>9. \A k \in Present(entities) : E[k].label = entities[k].label
  BY <1>4, <1>6, <1>7 DEF Present
<1> QED
  BY <1>3, <1>4, <1>6, <1>8, <1>9

\* The same of Restore.
LEMMA RestoreKeepsLabels ==
    ASSUME AbsentAssumption, TypeOK, NEW e \in EntityKeys, entities[e] # Absent
    PROVE  LET E == Restore(entities, e)
           IN  /\ Present(E) = Present(entities)
               /\ \A k \in Present(entities) : E[k].label = entities[k].label
               /\ E[e] = [entities[e] EXCEPT !.archived = FALSE]
               /\ E[e].archived = FALSE
               /\ \A k \in EntityKeys : k # e => E[k] = entities[k]
<1> DEFINE E == Restore(entities, e)
<1>1. entities[e] \in EntityRow
  BY DEF TypeOK
<1>2. [entities[e] EXCEPT !.archived = FALSE] \in EntityRow
  BY <1>1 DEF EntityRow
<1>3. E[e] = [entities[e] EXCEPT !.archived = FALSE]
  BY DEF TypeOK, Restore
<1>4. \A k \in EntityKeys : k # e => E[k] = entities[k]
  BY DEF TypeOK, Restore
<1>5. E[e] # Absent
  BY <1>2, <1>3 DEF AbsentAssumption
<1>6. E[e].label = entities[e].label /\ E[e].archived = FALSE
  BY <1>1, <1>3 DEF EntityRow
<1>7. DOMAIN E = EntityKeys /\ DOMAIN entities = EntityKeys
  BY DEF TypeOK, Restore
<1>8. Present(E) = Present(entities)
  BY <1>4, <1>5, <1>7 DEF Present
<1>9. \A k \in Present(entities) : E[k].label = entities[k].label
  BY <1>4, <1>6, <1>7 DEF Present
<1> QED
  BY <1>3, <1>4, <1>6, <1>8, <1>9

\* Restoring an entity type that is archived is accepted.
LEMMA RestoreEntityAccepted ==
    ASSUME EngineAssumption, AbsentAssumption, IInv,
           NEW e \in Present(entities), entities[e].archived
    PROVE  LET E == Restore(entities, e) IN IsValid(E, fields, Uncascade(E, links, e))
<1> DEFINE E == Restore(entities, e)
           L == Uncascade(E, links, e)
<1>1. e \in EntityKeys /\ entities[e] # Absent
  BY DEF Present, IInv, TypeOK
<1>2. /\ Present(E) = Present(entities)
      /\ \A k \in Present(entities) : E[k].label = entities[k].label
      /\ ~E[e].archived
      /\ \A k \in EntityKeys : k # e => E[k] = entities[k]
  BY <1>1, RestoreKeepsLabels DEF IInv
<1>3. LabelsUnique(E, Present(E))
  BY <1>2 DEF IInv, Valid, IsValid, LabelsUnique
<1>4. ASSUME NEW l \in Present(L)
      PROVE  LinkIsValid(E, L[l])
  <2>1. l \in LinkKeys /\ links[l] # Absent
    BY DEF Present, Uncascade
  <2>2. links[l] \in LinkRow /\ l \in Present(links)
    BY <2>1 DEF IInv, TypeOK, Present
  <2>3. LinkIsValid(entities, links[l])
    BY <2>2 DEF IInv, Valid, IsValid
  <2>4. ASSUME NEW x \in Ends(links[l])
        PROVE  x \in EntityKeys /\ E[x] # Absent /\ (E[x].archived => x # e /\ entities[x].archived)
    <3>1. x \in EntityKeys /\ entities[x] # Absent
      BY <2>2, <2>3 DEF LinkIsValid, Ends, LinkRow
    <3>2. E[x] # Absent
      BY <1>2, <3>1 DEF Present, IInv, TypeOK
    <3> QED
      BY <1>2, <3>1, <3>2
  <2>5. CASE links[l].archived_by # e
    <3>1. L[l] = links[l]
      BY <2>1, <2>5 DEF Uncascade
    <3> QED
      BY <2>3, <2>4, <3>1 DEF LinkIsValid
  <2>6. CASE links[l].archived_by = e
    <3> DEFINE other == OtherEnd(links[l], e)
    <3>1. e \in Ends(links[l]) /\ links[l].archived
      BY <1>1, <2>3, <2>6 DEF LinkIsValid, EngineAssumption
    <3>2. Ends(links[l]) = {e, other}
      BY <3>1 DEF Ends, OtherEnd
    <3>3. CASE E[other].archived
      <4>1. L[l] = [links[l] EXCEPT !.archived_by = other]
        BY <2>1, <2>6, <3>3 DEF Uncascade
      <4>2. /\ L[l].from = links[l].from /\ L[l].to = links[l].to
            /\ L[l].archived = links[l].archived /\ L[l].archived_by = other
        BY <2>2, <4>1 DEF LinkRow
      <4> QED
        BY <2>4, <3>1, <3>2, <4>2 DEF LinkIsValid, Ends
    <3>4. CASE ~E[other].archived
      <4>1. L[l] = [links[l] EXCEPT !.archived = FALSE, !.archived_by = None]
        BY <2>1, <2>6, <3>4 DEF Uncascade
      <4>2. /\ L[l].from = links[l].from /\ L[l].to = links[l].to
            /\ L[l].archived = FALSE /\ L[l].archived_by = None
        BY <2>2, <4>1 DEF LinkRow
      <4> QED
        BY <1>2, <2>4, <3>2, <3>4, <4>2 DEF LinkIsValid, Ends
    <3> QED
      BY <3>3, <3>4
  <2> QED
    BY <2>5, <2>6
<1>5. /\ \A k \in Present(entities) : LabelsUnique(fields, {f \in Present(fields) : fields[f].entity = k})
      /\ \A f \in Present(fields) : OptionsFit(fields[f])
  BY DEF IInv, Valid, IsValid
<1> QED
  BY <1>2, <1>3, <1>4, <1>5 DEF IsValid

\* Restoring a field that is archived is accepted.
LEMMA RestoreFieldAccepted ==
    ASSUME AbsentAssumption, IInv, NEW f \in Present(fields)
    PROVE  IsValid(entities, Restore(fields, f), links)
<1> DEFINE F == Restore(fields, f)
<1>1. f \in FieldKeys /\ fields[f] \in FieldRow
  BY DEF Present, IInv, TypeOK
<1>2. F[f] = [fields[f] EXCEPT !.archived = FALSE]
  BY <1>1 DEF Restore, IInv, TypeOK
<1>3. F[f] \in FieldRow
  BY <1>1, <1>2 DEF FieldRow
<1>4. \A k \in FieldKeys : k # f => F[k] = fields[k]
  BY DEF Restore, IInv, TypeOK
<1>5. DOMAIN F = FieldKeys /\ DOMAIN fields = FieldKeys
  BY DEF Restore, IInv, TypeOK
<1>6. Present(F) = Present(fields)
  BY <1>1, <1>3, <1>4, <1>5 DEF Present, AbsentAssumption
<1>7. \A k \in Present(fields) : /\ F[k].label = fields[k].label
                                 /\ F[k].entity = fields[k].entity
                                 /\ F[k].type = fields[k].type
                                 /\ F[k].options = fields[k].options
  BY <1>1, <1>2, <1>4, <1>5 DEF Present, FieldRow
<1>8. \A k \in Present(F) : OptionsFit(F[k])
  BY <1>6, <1>7 DEF IInv, Valid, IsValid, OptionsFit
<1>9. ASSUME NEW e \in Present(entities)
      PROVE  LabelsUnique(F, {k \in Present(F) : F[k].entity = e})
  BY <1>6, <1>7 DEF IInv, Valid, IsValid, LabelsUnique
<1> QED
  BY <1>8, <1>9 DEF IInv, Valid, IsValid

\* Nothing that is archived is ever stuck, whatever was created or renamed.
THEOREM NothingIsStuck == Spec => []RestoreIsAccepted
<1>1. EngineAssumption /\ AbsentAssumption /\ IInv => RestoreIsAccepted
  BY RestoreEntityAccepted, RestoreFieldAccepted DEF RestoreIsAccepted
<1> QED
  BY <1>1, Invariance, EngineAssumption, AbsentAssumption, PTL

\* A link that is not archived is not marked, and its ends are active.
LEMMA ActiveLink ==
    ASSUME EngineAssumption, IInv, NEW l \in LinkKeys, links[l] # Absent, ~links[l].archived
    PROVE  /\ links[l].archived_by = None
           /\ links[l].from \in EntityKeys /\ ~entities[links[l].from].archived
           /\ links[l].to \in EntityKeys /\ ~entities[links[l].to].archived
           /\ [links[l] EXCEPT !.archived = FALSE, !.archived_by = None] = links[l]
<1>1. links[l] \in LinkRow /\ l \in Present(links)
  BY DEF IInv, TypeOK, Present
<1>2. LinkIsValid(entities, links[l])
  BY <1>1 DEF IInv, Valid, IsValid
<1> QED
  BY <1>1, <1>2 DEF LinkIsValid, Ends, LinkRow

\* A link that is archived waits for no entity type that is active.
LEMMA ArchivedLink ==
    ASSUME EngineAssumption, IInv, NEW l \in LinkKeys, links[l] # Absent, links[l].archived,
           NEW e \in EntityKeys, IsActive(e)
    PROVE  links[l].archived_by # e
<1>1. l \in Present(links)
  BY DEF IInv, TypeOK, Present
<1>2. e # None
  BY DEF EngineAssumption
<1> QED
  BY <1>1, <1>2, MarkedEnds DEF IsActive

\* Archiving an active entity type is accepted.
LEMMA ArchiveEntityAccepted ==
    ASSUME EngineAssumption, AbsentAssumption, IInv, NEW e \in EntityKeys, IsActive(e)
    PROVE  IsValid(Archive(entities, e), fields, Cascade(links, e))
<1> DEFINE E == Archive(entities, e)
           L == Cascade(links, e)
<1>1. /\ Present(E) = Present(entities)
      /\ \A k \in Present(entities) : E[k].label = entities[k].label
      /\ \A k \in EntityKeys : k # e => E[k] = entities[k]
  BY ArchiveKeepsLabels DEF IInv, IsActive
<1>2. LabelsUnique(E, Present(E))
  BY <1>1 DEF IInv, Valid, IsValid, LabelsUnique
<1>3. ASSUME NEW l \in Present(L)
      PROVE  LinkIsValid(E, L[l])
  <2>1. l \in LinkKeys /\ links[l] # Absent
    BY DEF Present, Cascade
  <2>2. links[l] \in LinkRow /\ l \in Present(links)
    BY <2>1 DEF IInv, TypeOK, Present
  <2>3. LinkIsValid(entities, links[l])
    BY <2>2 DEF IInv, Valid, IsValid
  <2>4. ASSUME NEW x \in Ends(links[l])
        PROVE  E[x] # Absent /\ (E[x].archived => x = e \/ entities[x].archived)
    <3>1. x \in EntityKeys /\ entities[x] # Absent
      BY <2>2, <2>3 DEF LinkIsValid, Ends, LinkRow
    <3>2. E[x] # Absent
      BY <1>1, <3>1 DEF Present, Archive, IInv, TypeOK
    <3> QED
      BY <1>1, <3>1, <3>2
  <2>5. CASE ~links[l].archived /\ e \in Ends(links[l])
    <3>1. L[l] = [links[l] EXCEPT !.archived = TRUE, !.archived_by = e]
      BY <2>1, <2>5 DEF Cascade
    <3>2. /\ L[l].from = links[l].from /\ L[l].to = links[l].to
          /\ L[l].archived = TRUE /\ L[l].archived_by = e
      BY <2>2, <3>1 DEF LinkRow
    <3> QED
      BY <2>4, <2>5, <3>2 DEF LinkIsValid, Ends
  <2>6. CASE links[l].archived \/ e \notin Ends(links[l])
    <3>1. L[l] = links[l]
      BY <2>1, <2>6 DEF Cascade
    <3> QED
      BY <2>3, <2>4, <2>6, <3>1 DEF LinkIsValid
  <2> QED
    BY <2>5, <2>6
<1>4. /\ \A k \in Present(entities) : LabelsUnique(fields, {f \in Present(fields) : fields[f].entity = k})
      /\ \A f \in Present(fields) : OptionsFit(fields[f])
  BY DEF IInv, Valid, IsValid
<1> QED
  BY <1>1, <1>2, <1>3, <1>4 DEF IsValid

\* To restore what was just archived gives the same entity types.
LEMMA RestoreArchived ==
    ASSUME TypeOK, NEW e \in EntityKeys, IsActive(e)
    PROVE  Restore(Archive(entities, e), e) = entities
<1>1. entities[e] \in EntityRow /\ entities[e].archived = FALSE
  BY DEF TypeOK, IsActive, EntityRow
<1>2. [[entities[e] EXCEPT !.archived = TRUE] EXCEPT !.archived = FALSE] = entities[e]
  BY <1>1 DEF EntityRow
<1>3. Restore(Archive(entities, e), e)[e] = entities[e]
  BY <1>2 DEF Restore, Archive, TypeOK
<1> QED
  BY <1>3 DEF Restore, Archive, TypeOK

\* Archiving an entity type and restoring it at once is to do nothing.
THEOREM ArchivingIsUndone == Spec => []ArchiveIsUndone
<1>1. ASSUME EngineAssumption, AbsentAssumption, IInv, NEW e \in EntityKeys, IsActive(e)
      PROVE  /\ IsValid(Archive(entities, e), fields, Cascade(links, e))
             /\ Uncascade(Restore(Archive(entities, e), e), Cascade(links, e), e) = links
  <2>1. Restore(Archive(entities, e), e) = entities
    BY <1>1, RestoreArchived DEF IInv
  <2>2. ASSUME NEW l \in LinkKeys
        PROVE  Uncascade(entities, Cascade(links, e), e)[l] = links[l]
    <3>1. CASE links[l] = Absent
      BY <3>1 DEF Uncascade, Cascade
    <3>2. CASE links[l] # Absent /\ (links[l].archived \/ e \notin Ends(links[l]))
      <4>1. links[l].archived_by # e
        BY <1>1, <3>2, ArchivedLink, ActiveLink DEF EngineAssumption
      <4> QED
        BY <3>2, <4>1 DEF Uncascade, Cascade
    <3>3. CASE links[l] # Absent /\ ~links[l].archived /\ e \in Ends(links[l])
      <4> DEFINE row == [links[l] EXCEPT !.archived = TRUE, !.archived_by = e]
      <4>1. Cascade(links, e)[l] = row
        BY <3>3 DEF Cascade
      <4>2. links[l] \in LinkRow
        BY <1>1, <3>3 DEF IInv, TypeOK
      <4>3. row \in LinkRow /\ row.archived_by = e
        BY <1>1, <4>2 DEF LinkRow
      <4>4. row # Absent
        BY <1>1, <4>3 DEF AbsentAssumption
      <4>5. ~entities[OtherEnd(row, e)].archived
        BY <1>1, <3>3, <4>2, ActiveLink DEF OtherEnd, LinkRow
      <4>6. Uncascade(entities, Cascade(links, e), e)[l]
               = [row EXCEPT !.archived = FALSE, !.archived_by = None]
        BY <4>1, <4>3, <4>4, <4>5 DEF Uncascade
      <4>7. [row EXCEPT !.archived = FALSE, !.archived_by = None]
               = [links[l] EXCEPT !.archived = FALSE, !.archived_by = None]
        BY <4>2 DEF LinkRow
      <4> QED
        BY <1>1, <3>3, <4>6, <4>7, ActiveLink
    <3> QED
      BY <3>1, <3>2, <3>3
  <2>3. Uncascade(entities, Cascade(links, e), e) = links
    BY <1>1, <2>2 DEF Uncascade, IInv, TypeOK
  <2> QED
    BY <1>1, <2>1, <2>3, ArchiveEntityAccepted
<1>2. EngineAssumption /\ AbsentAssumption /\ IInv => ArchiveIsUndone
  BY <1>1 DEF ArchiveIsUndone
<1> QED
  BY <1>2, Invariance, EngineAssumption, AbsentAssumption, PTL

\* The row of a link that is marked with e and then released again.
LEMMA MarkAndRelease ==
    ASSUME EngineAssumption, AbsentAssumption, IInv, NEW l \in LinkKeys,
           links[l] # Absent, ~links[l].archived, NEW e \in EntityKeys
    PROVE  LET row == [links[l] EXCEPT !.archived = TRUE, !.archived_by = e]
           IN  /\ row # Absent /\ row.archived = TRUE /\ row.archived_by = e /\ e # None
               /\ OtherEnd(row, e) = OtherEnd(links[l], e)
               /\ [row EXCEPT !.archived = FALSE, !.archived_by = None] = links[l]
<1> DEFINE row == [links[l] EXCEPT !.archived = TRUE, !.archived_by = e]
<1>1. links[l] \in LinkRow
  BY DEF IInv, TypeOK
<1>2. row \in LinkRow /\ row.archived = TRUE /\ row.archived_by = e
  BY <1>1 DEF LinkRow
<1>3. row # Absent /\ e # None
  BY <1>2 DEF AbsentAssumption, EngineAssumption
<1>4. OtherEnd(row, e) = OtherEnd(links[l], e)
  BY <1>1 DEF LinkRow, OtherEnd
<1>5. [row EXCEPT !.archived = FALSE, !.archived_by = None]
         = [links[l] EXCEPT !.archived = FALSE, !.archived_by = None]
  BY <1>1 DEF LinkRow
<1> QED
  BY <1>2, <1>3, <1>4, <1>5, ActiveLink

\* Restoring first one and then the other of two entity types, of which one was
\* archived first, brings every link back.  R is the table after the first restore.
LEMMA TwoRestores ==
    ASSUME EngineAssumption, AbsentAssumption, IInv,
           NEW a \in EntityKeys, NEW b \in EntityKeys, IsActive(a), IsActive(b), a # b,
           NEW first \in {a, b}, NEW second \in {a, b}, first # second,
           NEW R, R[second].archived, \A k \in EntityKeys : k # second => R[k] = entities[k]
    PROVE  Uncascade(entities, Uncascade(R, Cascade(Cascade(links, a), b), first), second) = links
<1> DEFINE L == Cascade(Cascade(links, a), b)
           M == Uncascade(R, L, first)
           N == Uncascade(entities, M, second)
<1>1. ASSUME NEW l \in LinkKeys
      PROVE  N[l] = links[l]
  <2>1. CASE links[l] = Absent
    BY <2>1 DEF Cascade, Uncascade
  <2>2. CASE links[l] # Absent /\ (links[l].archived \/ Ends(links[l]) \cap {a, b} = {})
    <3>1. links[l].archived_by # a /\ links[l].archived_by # b
      <4>1. CASE links[l].archived
        BY <2>2, <4>1, ArchivedLink
      <4>2. CASE ~links[l].archived
        <5>1. links[l].archived_by = None
          BY <2>2, <4>2, ActiveLink
        <5> QED
          BY <5>1 DEF EngineAssumption
      <4> QED
        BY <4>1, <4>2
    <3>2. L[l] = links[l]
      BY <2>2 DEF Cascade
    <3> QED
      BY <3>1, <3>2 DEF Uncascade
  <2>3. ASSUME links[l] # Absent, ~links[l].archived, NEW m \in {a, b},
               L[l] = [links[l] EXCEPT !.archived = TRUE, !.archived_by = m],
               m \in Ends(links[l])
        PROVE  N[l] = links[l]
    <3> DEFINE row(e) == [links[l] EXCEPT !.archived = TRUE, !.archived_by = e]
               other == OtherEnd(links[l], m)
    <3>1. other \in EntityKeys /\ ~entities[other].archived
      BY <2>3, ActiveLink DEF OtherEnd
    <3>2. \A e \in EntityKeys :
             /\ row(e) # Absent /\ row(e).archived_by = e /\ e # None
             /\ OtherEnd(row(e), e) = OtherEnd(links[l], e)
             /\ [row(e) EXCEPT !.archived = FALSE, !.archived_by = None] = links[l]
             /\ \A x : [row(e) EXCEPT !.archived_by = x] = row(x)
      <4> TAKE e \in EntityKeys
      <4>1. /\ row(e) # Absent /\ row(e).archived_by = e /\ e # None
            /\ OtherEnd(row(e), e) = OtherEnd(links[l], e)
        BY <2>3, MarkAndRelease
      <4>2. [row(e) EXCEPT !.archived = FALSE, !.archived_by = None] = links[l]
        BY <2>3, MarkAndRelease
      <4>3. \A x : [row(e) EXCEPT !.archived_by = x] = row(x)
        <5>1. links[l] \in LinkRow
          BY <2>3 DEF IInv, TypeOK
        <5> QED
          BY <5>1 DEF LinkRow
      <4> QED
        BY <4>1, <4>2, <4>3
    <3>3. links[l].archived_by = None
      BY <2>3, ActiveLink
    <3>4. L[l] = row(m) /\ m \in EntityKeys
      BY <2>3
    <3>a. second \in EntityKeys /\ first \in EntityKeys
      OBVIOUS
    <3> HIDE DEF row, L
    <3>5. ~entities[OtherEnd(links[l], second)].archived
      BY <2>3, ActiveLink DEF OtherEnd
    <3>6. ASSUME M[l] = row(second)
          PROVE  N[l] = links[l]
      <4>1. M[l] # Absent /\ M[l].archived_by = second
        BY <3>2, <3>a, <3>6
      <4>2. OtherEnd(M[l], second) = OtherEnd(links[l], second)
        BY <3>2, <3>a, <3>6
      <4> HIDE DEF M
      <4>3. N[l] = [M[l] EXCEPT !.archived = FALSE, !.archived_by = None]
        BY <3>5, <4>1, <4>2 DEF Uncascade
      <4> QED
        BY <3>2, <3>a, <3>6, <4>3
    <3>7. CASE m # first
      <4>1. m = second
        BY <2>3, <3>7
      <4>2. M[l] = row(second)
        <5>1. L[l].archived_by # first
          BY <3>2, <3>4, <3>7
        <5> QED
          BY <3>4, <4>1, <5>1 DEF Uncascade
      <4> QED
        BY <3>6, <4>2
    <3>8. CASE m = first /\ other = second
      <4>1. M[l] = row(second)
        <5>1. /\ L[l] # Absent /\ L[l].archived_by = first
              /\ OtherEnd(L[l], first) = second
          BY <3>2, <3>4, <3>8
        <5>2. M[l] = [L[l] EXCEPT !.archived_by = second]
          BY <5>1 DEF Uncascade
        <5> QED
          <6>1. [row(m) EXCEPT !.archived_by = second] = row(second)
            BY <3>2, <3>4
          <6> QED
            BY <3>4, <5>2, <6>1, Zenon
      <4> QED
        BY <3>6, <4>1
    <3>9. CASE m = first /\ other # second
      <4>1. ~R[other].archived
        BY <3>1, <3>9
      <4>2. M[l] = links[l]
        <5>1. /\ L[l] # Absent /\ L[l].archived_by = first
              /\ OtherEnd(L[l], first) = other
          BY <3>2, <3>4, <3>9
        <5>2. M[l] = [L[l] EXCEPT !.archived = FALSE, !.archived_by = None]
          BY <4>1, <5>1 DEF Uncascade
        <5> QED
          BY <3>2, <3>4, <5>2
      <4>3. links[l].archived_by # second
        BY <3>2, <3>3
      <4> QED
        <5> HIDE DEF M
        <5> QED
          BY <2>3, <4>2, <4>3 DEF Uncascade
    <3> QED
      BY <3>7, <3>8, <3>9
  <2>4. CASE links[l] # Absent /\ ~links[l].archived /\ a \in Ends(links[l])
    <3>1. Cascade(links, a)[l] = [links[l] EXCEPT !.archived = TRUE, !.archived_by = a]
      BY <2>4 DEF Cascade
    <3>2. Cascade(links, a)[l].archived
      <4>1. links[l] \in LinkRow
        BY <2>4 DEF IInv, TypeOK
      <4> QED
        BY <3>1, <4>1 DEF LinkRow
    <3>3. L[l] = [links[l] EXCEPT !.archived = TRUE, !.archived_by = a]
      BY <3>1, <3>2 DEF Cascade
    <3> QED
      BY <2>3, <2>4, <3>3
  <2>5. CASE /\ links[l] # Absent /\ ~links[l].archived
             /\ a \notin Ends(links[l]) /\ b \in Ends(links[l])
    <3>1. Cascade(links, a)[l] = links[l]
      BY <2>5 DEF Cascade
    <3>2. L[l] = [links[l] EXCEPT !.archived = TRUE, !.archived_by = b]
      BY <2>5, <3>1 DEF Cascade
    <3> QED
      BY <2>3, <2>5, <3>2
  <2> QED
    BY <2>1, <2>2, <2>4, <2>5
<1> QED
  BY <1>1 DEF Uncascade, IInv, TypeOK

\* Two entity types that were archived can be restored in either order.
THEOREM ArchivingCommutes == Spec => []ArchivesCommute
<1>1. ASSUME EngineAssumption, AbsentAssumption, IInv,
             NEW a \in EntityKeys, NEW b \in EntityKeys, IsActive(a), IsActive(b), a # b
      PROVE  LET E == Archive(Archive(entities, a), b)
                 L == Cascade(Cascade(links, a), b)
             IN  /\ Uncascade(entities, Uncascade(Restore(E, a), L, a), b) = links
                 /\ Uncascade(entities, Uncascade(Restore(E, b), L, b), a) = links
  <2> DEFINE E == Archive(Archive(entities, a), b)
  <2>1. entities[a] \in EntityRow /\ entities[b] \in EntityRow
    BY <1>1 DEF IsActive, IInv, TypeOK
  <2>2. entities[a].archived = FALSE /\ entities[b].archived = FALSE
    BY <1>1, <2>1 DEF IsActive, EntityRow
  <2>3. \A x \in {a, b} : /\ [entities[x] EXCEPT !.archived = TRUE].archived = TRUE
                          /\ [[entities[x] EXCEPT !.archived = TRUE] EXCEPT !.archived = FALSE]
                                = entities[x]
    BY <2>1, <2>2 DEF EntityRow
  <2>4. /\ E[a] = [entities[a] EXCEPT !.archived = TRUE]
        /\ E[b] = [entities[b] EXCEPT !.archived = TRUE]
        /\ \A k \in EntityKeys : k \notin {a, b} => E[k] = entities[k]
        /\ DOMAIN E = EntityKeys
    BY <1>1 DEF Archive, IInv, TypeOK
  <2> HIDE DEF E
  <2>5. /\ Restore(E, a)[b].archived
        /\ \A k \in EntityKeys : k # b => Restore(E, a)[k] = entities[k]
    BY <1>1, <2>3, <2>4 DEF Restore
  <2>6. /\ Restore(E, b)[a].archived
        /\ \A k \in EntityKeys : k # a => Restore(E, b)[k] = entities[k]
    BY <1>1, <2>3, <2>4 DEF Restore
  <2>7. Uncascade(entities, Uncascade(Restore(E, a), Cascade(Cascade(links, a), b), a), b) = links
    BY <1>1, <2>5, TwoRestores
  <2>8. Uncascade(entities, Uncascade(Restore(E, b), Cascade(Cascade(links, a), b), b), a) = links
    BY <1>1, <2>6, TwoRestores
  <2> QED
    BY <2>7, <2>8 DEF E
<1>2. EngineAssumption /\ AbsentAssumption /\ IInv => ArchivesCommute
  BY <1>1 DEF ArchivesCommute
<1> QED
  BY <1>2, Invariance, EngineAssumption, AbsentAssumption, PTL
-----------------------------------------------------------------------------
(* The engine implements LinkVisibility.                                    *)

\* Under the invariant, the links that are not archived are exactly those that
\* LinkVisibility shows.
LEMMA VisibleIsShown ==
    IInv => Visible = Visibility!Shown(Away, LinkEnds, Hidden)
<1> SUFFICES ASSUME IInv
             PROVE  Visible = Visibility!Shown(Away, LinkEnds, Hidden)
  OBVIOUS
<1> USE EngineAssumption, AbsentAssumption
<1>1. ASSUME NEW l \in LinkKeys
      PROVE  l \in Visible <=> l \in Visibility!Shown(Away, LinkEnds, Hidden)
  <2>1. CASE links[l] = Absent
    BY <2>1 DEF Visible, Visibility!Shown, LinkEnds, Present
  <2>2. CASE links[l] # Absent
    <3>1. links[l] \in LinkRow /\ l \in Present(links)
      BY <2>2 DEF IInv, TypeOK, Present
    <3>2. LinkIsValid(entities, links[l])
      BY <3>1 DEF IInv, Valid, IsValid
    <3>3. LinkEnds[l] = Ends(links[l]) /\ LinkEnds[l] # Absent
      BY <2>2, <3>1 DEF LinkEnds, Ends, LinkRow, AbsentAssumption
    <3>4. ASSUME ~links[l].archived
          PROVE  l \notin Hidden /\ LinkEnds[l] \cap Away = {}
      BY <3>2, <3>3, <3>4 DEF Hidden, Away, LinkIsValid
    <3>5. ASSUME links[l].archived, l \notin Hidden
          PROVE  LinkEnds[l] \cap Away # {}
      <4>1. links[l].archived_by # None
        BY <3>1, <3>5 DEF Hidden
      <4>2. links[l].archived_by \in Ends(links[l])
        BY <3>2, <4>1 DEF LinkIsValid
      <4>3. links[l].archived_by \in Away
        BY <3>1, <4>1, MarkedEnds DEF Away, Present, IInv, TypeOK
      <4> QED
        BY <3>3, <4>2, <4>3
    <3>6. l \in Visibility!Shown(Away, LinkEnds, Hidden)
            <=> l \notin Hidden /\ LinkEnds[l] \cap Away = {}
      BY <3>3 DEF Visibility!Shown
    <3>7. l \in Visible <=> ~links[l].archived
      BY <3>1 DEF Visible
    <3> QED
      BY <3>4, <3>5, <3>6, <3>7
  <2> QED
    BY <2>1, <2>2
<1>2. Visible \subseteq LinkKeys /\ Visibility!Shown(Away, LinkEnds, Hidden) \subseteq LinkKeys
  BY DEF Visible, Present, Visibility!Shown, IInv, TypeOK
<1> QED
  BY <1>1, <1>2

LEMMA VisibleIsShownNext ==
    ASSUME IInv'
    PROVE  Visible' = Visibility!Shown(Away', LinkEnds', Hidden')
<1>1. (Visible = Visibility!Shown(Away, LinkEnds, Hidden))'
  BY VisibleIsShown, PTL
<1> QED
  BY <1>1 DEF Visibility!Shown

\* What is the same when the entity types, or the links, are the same.
LEMMA SameEntities ==
    ASSUME entities' = entities PROVE There' = There /\ Away' = Away
BY DEF There, Away, Present

LEMMA SameLinks ==
    ASSUME links' = links
    PROVE  LinkEnds' = LinkEnds /\ Hidden' = Hidden /\ Visible' = Visible
BY DEF LinkEnds, Hidden, Visible, Present

\* An operation that only marks links keeps their ends, and those hidden by hand.
LEMMA OnlyMarks ==
    ASSUME links \in [LinkKeys -> LinkRow \cup {Absent}],
           links' \in [LinkKeys -> LinkRow \cup {Absent}],
           \A l \in LinkKeys :
              \/ links'[l] = links[l]
              \/ /\ links[l] # Absent /\ links'[l] # Absent
                 /\ links'[l].from = links[l].from /\ links'[l].to = links[l].to
                 /\ l \notin Hidden /\ l \notin Hidden'
    PROVE  LinkEnds' = LinkEnds /\ Hidden' = Hidden
<1>1. ASSUME NEW l \in LinkKeys
      PROVE  (l \in Hidden' <=> l \in Hidden) /\ LinkEnds'[l] = LinkEnds[l]
  BY DEF Hidden, Present, LinkEnds, Ends
<1>2. Hidden \subseteq LinkKeys /\ Hidden' \subseteq LinkKeys
  BY DEF Hidden, Present
<1>3. LinkEnds' = LinkEnds
  BY <1>1 DEF LinkEnds
<1> QED
  BY <1>1, <1>2, <1>3

\* What each operation on entity types is to the owner.
LEMMA EntityStepRefines ==
    ASSUME EngineAssumption, AbsentAssumption, IInv, IInv', NEW e \in EntityKeys, EntityStep(e)
    PROVE  [Visibility!Next]_(Visibility!vars)
<1>1. ASSUME NEW label \in Labels, CreateEntityType(e, label)
      PROVE  Visibility!Create(e)
  <2>1. links' = links /\ entities[e] = Absent
    BY <1>1 DEF CreateEntityType, Accept
  <2>2. /\ entities'[e] \in EntityRow /\ entities'[e].archived = FALSE
        /\ \A k \in EntityKeys : k # e => entities'[k] = entities[k]
    BY <1>1 DEF CreateEntityType, Accept, EntityRow, IInv, TypeOK
  <2>3. e \notin There \cup Away
    BY <2>1 DEF There, Away, Present
  <2>4. There' = There \cup {e} /\ Away' = Away
    BY <2>1, <2>2 DEF There, Away, Present, IInv, TypeOK, AbsentAssumption
  <2> QED
    BY <2>1, <2>3, <2>4, SameLinks DEF Visibility!Create
<1>2. ASSUME NEW label \in Labels, UpdateEntityType(e, label)
      PROVE  UNCHANGED Visibility!vars
  <2>1. links' = links /\ entities[e] \in EntityRow /\ ~entities[e].archived
    BY <1>2 DEF UpdateEntityType, IsActive, Accept, IInv, TypeOK
  <2>2. [entities[e] EXCEPT !.label = label] \in EntityRow
    BY <2>1 DEF EntityRow
  <2>3. /\ entities'[e] \in EntityRow /\ ~entities'[e].archived
        /\ \A k \in EntityKeys : k # e => entities'[k] = entities[k]
    BY <1>2, <2>1, <2>2 DEF UpdateEntityType, Accept, EntityRow, IInv, TypeOK
  <2>4. There' = There /\ Away' = Away
    BY <2>1, <2>3 DEF There, Away, Present, IInv, TypeOK, AbsentAssumption
  <2> QED
    BY <2>1, <2>4, SameLinks DEF Visibility!vars
<1>3. ASSUME ArchiveEntityType(e)
      PROVE  Visibility!PutAway(e)
  <2>1. /\ entities' = Archive(entities, e) /\ links' = Cascade(links, e)
        /\ entities[e] # Absent /\ ~entities[e].archived
    BY <1>3 DEF ArchiveEntityType, Accept, IsActive
  <2>2. /\ Present(entities') = Present(entities)
        /\ entities'[e].archived = TRUE
        /\ \A k \in EntityKeys : k # e => entities'[k] = entities[k]
    BY <2>1, ArchiveKeepsLabels DEF IInv
  <2>3. e \in There
    BY <2>1 DEF There, Present, IInv, TypeOK
  <2>4. There' = There \ {e} /\ Away' = Away \cup {e}
    BY <2>1, <2>2 DEF There, Away, Present, IInv, TypeOK
  <2>5. ASSUME NEW l \in LinkKeys, links'[l] # links[l]
        PROVE  /\ links[l] # Absent /\ links'[l] # Absent
               /\ links'[l].from = links[l].from /\ links'[l].to = links[l].to
               /\ l \notin Hidden /\ l \notin Hidden'
    <3>1. /\ links[l] # Absent /\ ~links[l].archived
          /\ links'[l] = [links[l] EXCEPT !.archived = TRUE, !.archived_by = e]
      BY <2>1, <2>5 DEF Cascade
    <3>2. links[l] \in LinkRow
      BY <3>1 DEF IInv, TypeOK
    <3>3. links'[l] \in LinkRow /\ links'[l].archived_by = e
      BY <3>1, <3>2 DEF LinkRow
    <3> QED
      BY <3>1, <3>2, <3>3 DEF LinkRow, AbsentAssumption, EngineAssumption, Hidden
  <2>6. LinkEnds' = LinkEnds /\ Hidden' = Hidden
    BY <2>5, OnlyMarks DEF IInv, TypeOK
  <2> QED
    BY <2>3, <2>4, <2>6, VisibleIsShownNext DEF Visibility!PutAway
<1>4. ASSUME RestoreEntityType(e)
      PROVE  Visibility!BringBack(e)
  <2> DEFINE E == Restore(entities, e)
  <2>1. /\ entities' = E /\ links' = Uncascade(E, links, e)
        /\ entities[e] # Absent /\ entities[e].archived
    BY <1>4 DEF RestoreEntityType, Accept
  <2>2. /\ Present(entities') = Present(entities)
        /\ entities'[e].archived = FALSE
        /\ \A k \in EntityKeys : k # e => entities'[k] = entities[k]
    BY <2>1, RestoreKeepsLabels DEF IInv
  <2>3. e \in Away
    BY <2>1 DEF Away, Present, IInv, TypeOK
  <2>4. There' = There \cup {e} /\ Away' = Away \ {e}
    BY <2>1, <2>2 DEF There, Away, Present, IInv, TypeOK
  <2>5. ASSUME NEW l \in LinkKeys, links'[l] # links[l]
        PROVE  /\ links[l] # Absent /\ links'[l] # Absent
               /\ links'[l].from = links[l].from /\ links'[l].to = links[l].to
               /\ l \notin Hidden /\ l \notin Hidden'
    <3> DEFINE other == OtherEnd(links[l], e)
    <3>1. links[l] # Absent /\ links[l].archived_by = e /\ e # None
      BY <2>1, <2>5 DEF Uncascade, EngineAssumption
    <3>2. links[l] \in LinkRow /\ other \in EntityKeys /\ other # None
      BY <3>1 DEF IInv, TypeOK, LinkRow, OtherEnd, EngineAssumption
    <3>3. \/ links'[l] = [links[l] EXCEPT !.archived_by = other]
          \/ links'[l] = [links[l] EXCEPT !.archived = FALSE, !.archived_by = None]
      BY <2>1, <3>1 DEF Uncascade
    <3>4. /\ links'[l] \in LinkRow
          /\ links'[l].from = links[l].from /\ links'[l].to = links[l].to
          /\ links'[l].archived_by = other \/ links'[l].archived = FALSE
      BY <3>2, <3>3 DEF LinkRow
    <3> QED
      BY <3>1, <3>2, <3>4 DEF AbsentAssumption, Hidden
  <2>6. LinkEnds' = LinkEnds /\ Hidden' = Hidden
    BY <2>5, OnlyMarks DEF IInv, TypeOK
  <2> QED
    BY <2>3, <2>4, <2>6, VisibleIsShownNext DEF Visibility!BringBack
<1> QED
  BY <1>1, <1>2, <1>3, <1>4 DEF EntityStep, Visibility!Next

\* What is the same when one link is written.
LEMMA OneLink ==
    ASSUME AbsentAssumption, TypeOK, NEW l \in LinkKeys, NEW row \in LinkRow,
           links' = [links EXCEPT ![l] = row]
    PROVE  /\ LinkEnds' = [LinkEnds EXCEPT ![l] = Ends(row)]
           /\ Hidden' = IF row.archived /\ row.archived_by = None THEN Hidden \cup {l}
                                                                  ELSE Hidden \ {l}
           /\ links'[l] = row
<1>1. /\ links'[l] = row /\ row # Absent
      /\ \A k \in LinkKeys : k # l => links'[k] = links[k]
      /\ DOMAIN links = LinkKeys /\ DOMAIN links' = LinkKeys
  BY DEF TypeOK, AbsentAssumption
<1>2. \A k \in LinkKeys : LinkEnds'[k] = IF k = l THEN Ends(row) ELSE LinkEnds[k]
  BY <1>1 DEF LinkEnds
<1>3. LinkEnds' = [LinkEnds EXCEPT ![l] = Ends(row)]
  BY <1>2 DEF LinkEnds
<1>4. Hidden' = IF row.archived /\ row.archived_by = None THEN Hidden \cup {l}
                                                          ELSE Hidden \ {l}
  BY <1>1 DEF Hidden, Present
<1> QED
  BY <1>1, <1>3, <1>4

\* What each operation on links is to the owner.
LEMMA LinkStepRefines ==
    ASSUME EngineAssumption, AbsentAssumption, IInv, IInv', NEW l \in LinkKeys, LinkStep(l)
    PROVE  [Visibility!Next]_(Visibility!vars)
<1>1. ASSUME NEW from \in EntityKeys, NEW to \in EntityKeys, AddLink(l, from, to)
      PROVE  Visibility!Connect(l, from, to)
  <2> DEFINE row == [from |-> from, to |-> to, archived |-> FALSE, archived_by |-> None]
  <2>1. links' = [links EXCEPT ![l] = row] /\ entities' = entities /\ links[l] = Absent
    BY <1>1 DEF AddLink, Accept
  <2>2. row \in LinkRow /\ row.archived = FALSE /\ Ends(row) = {from, to}
    BY DEF LinkRow, Ends
  <2>3. from \in There /\ to \in There
    BY <1>1 DEF AddLink, IsActive, There, Present, IInv, TypeOK
  <2>4. LinkEnds[l] = Absent /\ l \notin Hidden
    BY <2>1 DEF LinkEnds, Hidden, Present
  <2> HIDE DEF row
  <2>5. LinkEnds' = [LinkEnds EXCEPT ![l] = {from, to}] /\ Hidden' = Hidden
    <3>1. /\ LinkEnds' = [LinkEnds EXCEPT ![l] = Ends(row)]
          /\ Hidden' = IF row.archived /\ row.archived_by = None THEN Hidden \cup {l}
                                                                 ELSE Hidden \ {l}
          /\ links'[l] = row
      BY <2>1, <2>2, OneLink DEF IInv
    <3> QED
      BY <2>2, <2>4, <3>1
  <2> QED
    BY <2>1, <2>3, <2>4, <2>5, SameEntities, VisibleIsShownNext DEF Visibility!Connect
<1>2. ASSUME ArchiveLink(l)
      PROVE  Visibility!Hide(l)
  <2> DEFINE row == [links[l] EXCEPT !.archived = TRUE, !.archived_by = None]
  <2>1. links[l] # Absent /\ ~links[l].archived /\ entities' = entities
    BY <1>2 DEF ArchiveLink, Accept
  <2>2. links[l] \in LinkRow
    BY <2>1 DEF IInv, TypeOK
  <2>3. links' = [links EXCEPT ![l] = row]
    BY <1>2 DEF ArchiveLink, Accept, SetLinkArchived, IInv, TypeOK
  <2>4. row \in LinkRow /\ row.archived = TRUE /\ row.archived_by = None /\ Ends(row) = Ends(links[l])
    BY <2>2 DEF LinkRow, Ends
  <2>5. l \in Visible
    BY <2>1 DEF Visible, Present, IInv, TypeOK
  <2> HIDE DEF row
  <2>6. LinkEnds' = LinkEnds /\ Hidden' = Hidden \cup {l}
    <3>1. /\ LinkEnds' = [LinkEnds EXCEPT ![l] = Ends(row)]
          /\ Hidden' = IF row.archived /\ row.archived_by = None THEN Hidden \cup {l}
                                                                 ELSE Hidden \ {l}
          /\ links'[l] = row
      BY <2>3, <2>4, OneLink DEF IInv
    <3> QED
      BY <2>1, <2>4, <3>1 DEF LinkEnds
  <2> QED
    BY <2>1, <2>5, <2>6, SameEntities, VisibleIsShownNext DEF Visibility!Hide
<1>3. ASSUME RestoreLink(l)
      PROVE  Visibility!Unhide(l)
  <2> DEFINE row == [links[l] EXCEPT !.archived = FALSE, !.archived_by = None]
  <2>1. links[l] # Absent /\ links[l].archived /\ entities' = entities
    BY <1>3 DEF RestoreLink, Accept
  <2>2. links[l] \in LinkRow /\ l \in Present(links)
    BY <2>1 DEF IInv, TypeOK, Present
  <2>3. links' = [links EXCEPT ![l] = row]
    BY <1>3 DEF RestoreLink, Accept, SetLinkArchived, IInv, TypeOK
  <2>4. row \in LinkRow /\ row.archived = FALSE /\ Ends(row) = Ends(links[l])
    BY <2>2 DEF LinkRow, Ends
  <2> HIDE DEF row
  <2>5. LinkEnds' = LinkEnds /\ Hidden' = Hidden \ {l} /\ links'[l] = row
    <3>1. /\ LinkEnds' = [LinkEnds EXCEPT ![l] = Ends(row)]
          /\ Hidden' = IF row.archived /\ row.archived_by = None THEN Hidden \cup {l}
                                                                 ELSE Hidden \ {l}
          /\ links'[l] = row
      BY <2>3, <2>4, OneLink DEF IInv
    <3> QED
      BY <2>1, <2>4, <3>1 DEF LinkEnds
  <2>6. LinkIsValid(entities, row)
    <3>1. l \in Present(links')
      BY <2>3, <2>4, <2>5 DEF Present, IInv, TypeOK, AbsentAssumption
    <3> QED
      BY <2>1, <2>5, <3>1 DEF IInv, Valid, IsValid
  <2>7. Ends(links[l]) \subseteq There
    <3>1. \A x \in Ends(links[l]) : x \in EntityKeys /\ entities[x] # Absent /\ ~entities[x].archived
      BY <2>2, <2>4, <2>6 DEF LinkIsValid, Ends, LinkRow
    <3> QED
      BY <3>1 DEF There, Present, IInv, TypeOK
  <2>8. l \in Hidden
    <3>1. links[l].archived_by = None
      <4> SUFFICES ASSUME links[l].archived_by # None PROVE FALSE
        OBVIOUS
      <4>1. entities[links[l].archived_by].archived
        BY <2>2, MarkedEnds
      <4>2. links[l].archived_by \in Ends(links[l])
        BY <2>2 DEF IInv, Valid, IsValid, LinkIsValid
      <4> QED
        BY <2>7, <4>1, <4>2 DEF There
    <3> QED
      BY <2>1, <2>2, <3>1 DEF Hidden
  <2>9. LinkEnds[l] \subseteq There
    BY <2>1, <2>7 DEF LinkEnds
  <2> QED
    BY <2>1, <2>5, <2>8, <2>9, SameEntities, VisibleIsShownNext DEF Visibility!Unhide
<1> QED
  BY <1>1, <1>2, <1>3 DEF LinkStep, Visibility!Next

\* Cascades and marks keep exactly the visibility that LinkVisibility defines;
\* operations on fields are invisible there.
THEOREM EngineImplementsVisibility == Spec => ImplementsVisibility
<1>1. Init => Visibility!Init
  BY DEF Init, Visibility!Init, There, Away, LinkEnds, Hidden, Visible, Present
<1>2. IInv /\ IInv' /\ [Next]_vars => [Visibility!Next]_(Visibility!vars)
  <2> SUFFICES ASSUME IInv, IInv', [Next]_vars
               PROVE  [Visibility!Next]_(Visibility!vars)
    OBVIOUS
  <2>1. ASSUME NEW e \in EntityKeys, NEW f \in FieldKeys, FieldStep(e, f)
        PROVE  UNCHANGED Visibility!vars
    <3>1. entities' = entities /\ links' = links
      BY <2>1
      DEF FieldStep, AddField, UpdateField, ChangeFieldType, ArchiveField, RestoreField, Accept
    <3> QED
      BY <3>1, SameEntities, SameLinks DEF Visibility!vars
  <2>2. CASE UNCHANGED vars
    BY <2>2, SameEntities, SameLinks DEF vars, Visibility!vars
  <2> QED
    BY <2>1, <2>2, EntityStepRefines, LinkStepRefines, EngineAssumption, AbsentAssumption DEF Next
<1> QED
  BY <1>1, <1>2, Invariance, PTL DEF Spec, ImplementsVisibility, Visibility!Spec

-----------------------------------------------------------------------------
(* ProposalBatch.  What a list of operations works on, as a value.          *)

AllKeys == EntityKeys \cup FieldKeys \cup LinkKeys

\* What a list of operations works on, as a value
Now == [entities |-> entities, fields |-> fields, links |-> links,
        aliases |-> aliases, made |-> made]

Start(b) == [entities |-> b.entities, fields |-> b.fields, links |-> b.links,
             aliases |-> NoAliases, made |-> <<>>]

KeysOf(s) == Present(s.entities) \cup Present(s.fields) \cup Present(s.links)

\* Whatever a row or a ref stands for is there.
Closed(s) ==
    /\ s.entities \in [EntityKeys -> EntityRow \cup {Absent}]
    /\ s.fields \in [FieldKeys -> FieldRow \cup {Absent}]
    /\ s.links \in [LinkKeys -> LinkRow \cup {Absent}]
    /\ \A f \in Present(s.fields) : s.fields[f].entity \in Present(s.entities)
    /\ \A l \in Present(s.links) :
          /\ s.links[l].from \in Present(s.entities)
          /\ s.links[l].to \in Present(s.entities)
          /\ s.links[l].archived_by \in Present(s.entities) \cup {None}
    /\ s.aliases = [kind \in Kinds |-> s.aliases[kind]]
    /\ s.made \in Seq(AllKeys \cup {None})

-----------------------------------------------------------------------------
(* What an operation does to such a value, as far as its result is concerned. *)

Named(s, kind, ref, key, n) ==
    /\ n.made = Append(s.made, key)
    /\ n.aliases = IF ref = None THEN s.aliases
                   ELSE [s.aliases EXCEPT ![kind] =
                           [r \in DOMAIN @ \cup {ref} |-> IF r = ref THEN key ELSE @[r]]]

NamedNothing(s, n) == n.made = Append(s.made, None) /\ n.aliases = s.aliases

Meant(s, kind, name) == IF name \in DOMAIN s.aliases[kind] THEN s.aliases[kind][name] ELSE name

NewEntity(op) == [label |-> op.label, archived |-> FALSE]

NewField(s, op) == [entity |-> Meant(s, "entity", op.entity), label |-> op.label,
                    type |-> op.type, options |-> op.options, required |-> op.required,
                    archived |-> FALSE]

NewLink(s, op) == [from |-> Meant(s, "entity", op.from), to |-> Meant(s, "entity", op.to),
                   archived |-> FALSE, archived_by |-> None]

DidCreateEntity(s, op, key, n) ==
    /\ op.op = "create_entity_type"
    /\ key \in EntityKeys /\ s.entities[key] = Absent
    /\ n.entities = [s.entities EXCEPT ![key] = NewEntity(op)]
    /\ n.fields = s.fields /\ n.links = s.links
    /\ Named(s, "entity", op.ref, key, n)

DidAddField(s, op, key, n) ==
    /\ op.op = "add_field"
    /\ key \in FieldKeys /\ s.fields[key] = Absent
    /\ Meant(s, "entity", op.entity) \in Present(s.entities)
    /\ n.fields = [s.fields EXCEPT ![key] = NewField(s, op)]
    /\ n.entities = s.entities /\ n.links = s.links
    /\ Named(s, "field", op.ref, key, n)

DidAddLink(s, op, key, n) ==
    /\ op.op = "add_link"
    /\ key \in LinkKeys /\ s.links[key] = Absent
    /\ Meant(s, "entity", op.from) \in Present(s.entities)
    /\ Meant(s, "entity", op.to) \in Present(s.entities)
    /\ n.links = [s.links EXCEPT ![key] = NewLink(s, op)]
    /\ n.entities = s.entities /\ n.fields = s.fields
    /\ Named(s, "link", op.ref, key, n)

DidChangeEntity(s, op, key, n) ==
    LET e == Meant(s, "entity", op.entity) IN
    /\ key = None /\ e \in Present(s.entities)
    /\ \/ /\ op.op = "update_entity_type"
          /\ n.entities = [s.entities EXCEPT ![e].label = op.label] /\ n.links = s.links
       \/ /\ op.op = "archive_entity_type"
          /\ n.entities = Archive(s.entities, e) /\ n.links = Cascade(s.links, e)
       \/ /\ op.op = "restore_entity_type"
          /\ n.entities = Restore(s.entities, e)
          /\ n.links = Uncascade(n.entities, s.links, e)
    /\ n.fields = s.fields
    /\ NamedNothing(s, n)

\* The row of a field after an operation on it
NewRow(op, row) ==
    CASE op.op = "update_field" ->
           [row EXCEPT !.label = Given(op.label, @), !.options = Given(op.options, @),
                       !.required = Given(op.required, @)]
      [] op.op = "change_field_type" ->
           [row EXCEPT !.type = op.type,
                       !.options = IF op.type = "select" THEN Given(op.options, @) ELSE op.options]
      [] op.op = "archive_field" -> [row EXCEPT !.archived = TRUE]
      [] op.op = "restore_field" -> [row EXCEPT !.archived = FALSE]

DidChangeField(s, op, key, n) ==
    LET f == Meant(s, "field", op.field) IN
    /\ op.op \in {"update_field", "change_field_type", "archive_field", "restore_field"}
    /\ key = None /\ f \in Present(s.fields)
    /\ n.fields = [s.fields EXCEPT ![f] = NewRow(op, @)]
    /\ n.entities = s.entities /\ n.links = s.links
    /\ NamedNothing(s, n)

\* Whether an operation archives or restores
Yes == TRUE
No == FALSE
Mark(op) == IF op.op = "archive_link" THEN Yes ELSE No

SetArchived(L, l, b) == [L EXCEPT ![l].archived = b, ![l].archived_by = None]

DidChangeLink(s, op, key, n) ==
    LET l == Meant(s, "link", op.link) IN
    /\ op.op \in {"archive_link", "restore_link"}
    /\ key = None /\ l \in Present(s.links)
    /\ n.links = SetArchived(s.links, l, Mark(op))
    /\ n.entities = s.entities /\ n.fields = s.fields
    /\ NamedNothing(s, n)

Did(s, op, key, n) ==
    \/ DidCreateEntity(s, op, key, n) \/ DidAddField(s, op, key, n) \/ DidAddLink(s, op, key, n)
    \/ DidChangeEntity(s, op, key, n) \/ DidChangeField(s, op, key, n)
    \/ DidChangeLink(s, op, key, n)

\* What Perform does is what Did says.
LEMMA CreateDoes ==
    ASSUME TypeOK, NEW op \in Operations, Create(op)
    PROVE  \E key \in AllKeys : Did(Now, op, key, Now')
<1>1. ASSUME op.op = "create_entity_type", NEW e \in EntityKeys,
             CreateEntityType(e, op.label), Define("entity", op.ref, e)
      PROVE  DidCreateEntity(Now, op, e, Now')
  BY <1>1 DEF CreateEntityType, Accept, Define, DidCreateEntity, NewEntity, Named, Now
<1>2. ASSUME op.op = "add_field", NEW e \in Entity(op.entity), NEW f \in FieldKeys,
             AddField(e, f, op.label, op.type, op.options, op.required),
             Define("field", op.ref, f)
      PROVE  DidAddField(Now, op, f, Now')
  BY <1>2 DEF AddField, IsActive, Present, Accept, Define, DidAddField, NewField, Named, Now, Meant,
              Entity, Resolve, TypeOK
<1>3. ASSUME op.op = "add_link", NEW from \in Entity(op.from), NEW to \in Entity(op.to),
             NEW l \in LinkKeys, AddLink(l, from, to), Define("link", op.ref, l)
      PROVE  DidAddLink(Now, op, l, Now')
  BY <1>3 DEF AddLink, IsActive, Present, Accept, Define, DidAddLink, NewLink, Named, Now, Meant,
              Entity, Resolve, TypeOK
<1> QED
  BY <1>1, <1>2, <1>3 DEF Create, Did, AllKeys

LEMMA ChangeDoes ==
    ASSUME TypeOK, NEW op \in Operations, Perform(op), ~Create(op)
    PROVE  Did(Now, op, None, Now')
<1>1. ASSUME op.op \in {"update_entity_type", "archive_entity_type", "restore_entity_type"},
             ChangeEntity(op), DefineNothing
      PROVE  DidChangeEntity(Now, op, None, Now')
  BY <1>1 DEF ChangeEntity, UpdateEntityType, ArchiveEntityType, RestoreEntityType, IsActive,
              Present, Accept, DefineNothing, DidChangeEntity, NamedNothing, Now, Meant,
              Entity, Resolve, TypeOK
<1>2. ASSUME op.op \in {"update_field", "change_field_type", "archive_field", "restore_field"},
             ChangeField(op), DefineNothing
      PROVE  DidChangeField(Now, op, None, Now')
  <2>1. PICK e \in Entity(op.entity), f \in Field(op.field) :
          \/ op.op = "update_field" /\ UpdateField(e, f, op.label, op.options, op.required)
          \/ op.op = "change_field_type" /\ ChangeFieldType(e, f, op.type, op.options)
          \/ op.op = "archive_field" /\ ArchiveField(e, f)
          \/ op.op = "restore_field" /\ RestoreField(e, f)
    BY <1>2 DEF ChangeField
  <2>2. f = Meant(Now, "field", op.field) /\ f \in FieldKeys
    BY DEF Field, Resolve, Meant, Now
  <2>3. f \in Present(fields) /\ entities' = entities /\ links' = links
    BY <2>1, <2>2 DEF UpdateField, ChangeFieldType, ArchiveField, RestoreField, HasField, Present,
                 Accept, TypeOK
  <2>4. fields' = [fields EXCEPT ![f] = NewRow(op, @)]
    <3>1. CASE op.op = "update_field"
      BY <2>1, <3>1 DEF UpdateField, Accept, NewRow
    <3>2. CASE op.op = "change_field_type"
      BY <2>1, <3>2 DEF ChangeFieldType, Accept, NewRow
    <3>3. CASE op.op \in {"archive_field", "restore_field"}
      BY <2>1, <3>3 DEF ArchiveField, RestoreField, Archive, Restore, Accept, NewRow
    <3> QED
      BY <1>2, <3>1, <3>2, <3>3
  <2> QED
    BY <1>2, <2>2, <2>3, <2>4 DEF DidChangeField, DefineNothing, NamedNothing, Now
<1>3. ASSUME op.op \in {"archive_link", "restore_link"}, ChangeLink(op), DefineNothing
      PROVE  DidChangeLink(Now, op, None, Now')
  <2>1. PICK l \in Link(op.link) : \/ op.op = "archive_link" /\ ArchiveLink(l)
                                   \/ op.op = "restore_link" /\ RestoreLink(l)
    BY <1>3 DEF ChangeLink
  <2>2. l = Meant(Now, "link", op.link) /\ l \in Present(links)
    BY <2>1 DEF Link, Resolve, Meant, Now, ArchiveLink, RestoreLink, Present, TypeOK
  <2>3. PICK b \in BOOLEAN : b = Mark(op) /\ b = (op.op = "archive_link")
    BY <1>3 DEF Mark, Yes, No
  <2>4. links' = [links EXCEPT ![l].archived = b, ![l].archived_by = None]
        /\ entities' = entities /\ fields' = fields
    BY <2>1, <2>3 DEF ArchiveLink, RestoreLink, SetLinkArchived, Accept
  <2> QED
    BY <1>3, <2>2, <2>3, <2>4 DEF DidChangeLink, SetArchived, DefineNothing, NamedNothing, Now
<1> QED
  BY <1>1, <1>2, <1>3 DEF Perform, Did

-----------------------------------------------------------------------------
(* What is asked of such a value before, and that this is all of Perform.    *)

\* An entity type that can be used, a ref that can be given, a field that an operation
\* can be applied to
Lives(s, e) == e \in Present(s.entities) /\ ~s.entities[e].archived

RefIsFree(s, kind, ref) == ref # None => ref \notin DOMAIN s.aliases[kind] \cup AllKeys

FieldGuard(op, row) ==
    /\ op.op = "restore_field" <=> row.archived
    /\ op.op = "update_field" =>
          \E argument \in {op.label, op.options, op.required} : argument # None
    /\ op.op = "change_field_type" => (row.type = op.type => op.options # None)

\* What an operation asks of the definition it is applied to
Asks(s, op) ==
    /\ op.op = "create_entity_type" => RefIsFree(s, "entity", op.ref)
    /\ op.op = "add_field" =>
          Lives(s, Meant(s, "entity", op.entity)) /\ RefIsFree(s, "field", op.ref)
    /\ op.op = "add_link" =>
          /\ Lives(s, Meant(s, "entity", op.from)) /\ Lives(s, Meant(s, "entity", op.to))
          /\ RefIsFree(s, "link", op.ref)
    /\ op.op \in {"update_entity_type", "archive_entity_type"} =>
          Lives(s, Meant(s, "entity", op.entity))
    /\ op.op = "restore_entity_type" => s.entities[Meant(s, "entity", op.entity)].archived
    /\ op.op \in {"update_field", "change_field_type", "archive_field", "restore_field"} =>
          LET row == s.fields[Meant(s, "field", op.field)]
          IN  /\ Lives(s, row.entity) /\ row.entity = Meant(s, "entity", op.entity)
              /\ FieldGuard(op, row)
    /\ op.op = "archive_link" => ~s.links[Meant(s, "link", op.link)].archived
    /\ op.op = "restore_link" => s.links[Meant(s, "link", op.link)].archived

\* Perform asks it, and Did and Asks and a valid result are all that it asks.
LEMMA PerformAsks ==
    ASSUME TypeOK, NEW op \in Operations, Perform(op)
    PROVE  Asks(Now, op) /\ Valid'
<1>1. CASE Create(op)
  <2>1. ASSUME op.op = "create_entity_type", NEW e \in EntityKeys,
               CreateEntityType(e, op.label), Define("entity", op.ref, e)
        PROVE  Asks(Now, op) /\ Valid'
    BY <2>1 DEF CreateEntityType, Accept, Valid, Define, Asks, RefIsFree, AllKeys, Now
  <2>2. ASSUME op.op = "add_field", NEW e \in Entity(op.entity), NEW f \in FieldKeys,
               AddField(e, f, op.label, op.type, op.options, op.required),
               Define("field", op.ref, f)
        PROVE  Asks(Now, op) /\ Valid'
    BY <2>2 DEF AddField, IsActive, Present, Accept, Valid, Define, Asks, Lives, RefIsFree, AllKeys,
                Now, Meant, Entity, Resolve, TypeOK
  <2>3. ASSUME op.op = "add_link", NEW from \in Entity(op.from), NEW to \in Entity(op.to),
               NEW l \in LinkKeys, AddLink(l, from, to), Define("link", op.ref, l)
        PROVE  Asks(Now, op) /\ Valid'
    BY <2>3 DEF AddLink, IsActive, Present, Accept, Valid, Define, Asks, Lives, RefIsFree, AllKeys,
                Now, Meant, Entity, Resolve, TypeOK
  <2> QED
    BY <1>1, <2>1, <2>2, <2>3 DEF Create
<1>2. ASSUME op.op \in {"update_entity_type", "archive_entity_type", "restore_entity_type"},
             ChangeEntity(op)
      PROVE  Asks(Now, op) /\ Valid'
  BY <1>2 DEF ChangeEntity, UpdateEntityType, ArchiveEntityType, RestoreEntityType, IsActive,
              Present, Accept, Valid, Asks, Lives, Now, Meant, Entity, Resolve, TypeOK
<1>3. ASSUME op.op \in {"update_field", "change_field_type", "archive_field", "restore_field"},
             ChangeField(op)
      PROVE  Asks(Now, op) /\ Valid'
  <2>1. PICK e \in Entity(op.entity), f \in Field(op.field) :
          \/ op.op = "update_field" /\ UpdateField(e, f, op.label, op.options, op.required)
          \/ op.op = "change_field_type" /\ ChangeFieldType(e, f, op.type, op.options)
          \/ op.op = "archive_field" /\ ArchiveField(e, f)
          \/ op.op = "restore_field" /\ RestoreField(e, f)
    BY <1>3 DEF ChangeField
  <2>2. f = Meant(Now, "field", op.field) /\ e = Meant(Now, "entity", op.entity)
        /\ e \in EntityKeys
    BY DEF Field, Entity, Resolve, Meant, Now
  <2>3. HasField(e, f) /\ FieldGuard(op, fields[f]) /\ Valid'
    BY <2>1 DEF UpdateField, ChangeFieldType, ArchiveField, RestoreField, FieldGuard, Accept, Valid
  <2>4. Now.entities = entities /\ Now.fields = fields /\ DOMAIN entities = EntityKeys
    BY DEF Now, TypeOK
  <2>5. Lives(Now, e) /\ Now.fields[f].entity = e
    BY <2>2, <2>3, <2>4 DEF HasField, IsActive, Lives, Present
  <2> QED
    BY <1>3, <2>2, <2>3, <2>4, <2>5 DEF Asks
<1>4. ASSUME op.op \in {"archive_link", "restore_link"}, ChangeLink(op)
      PROVE  Asks(Now, op) /\ Valid'
  BY <1>4 DEF ChangeLink, ArchiveLink, RestoreLink, Accept, Valid, Asks, Now, Meant, Link, Resolve
<1> QED
  BY <1>1, <1>2, <1>3, <1>4 DEF Perform

LEMMA AskedPerforms ==
    ASSUME TypeOK, NEW op \in Operations, NEW key, Did(Now, op, key, Now'), Asks(Now, op), Valid'
    PROVE  Perform(op)
<1>1. /\ Now.entities = entities /\ Now.fields = fields /\ Now.links = links
      /\ Now.aliases = aliases /\ Now.made = made
      /\ Now'.entities = entities' /\ Now'.fields = fields' /\ Now'.links = links'
      /\ Now'.aliases = aliases' /\ Now'.made = made'
      /\ DOMAIN entities = EntityKeys /\ DOMAIN fields = FieldKeys /\ DOMAIN links = LinkKeys
  BY DEF Now, TypeOK
<1>2. \A kind, name : Meant(Now, kind, name) = Resolve(kind, name)
  BY <1>1 DEF Meant, Resolve
<1>3. \A e : Lives(Now, e) => IsActive(e) /\ e \in EntityKeys
  BY <1>1 DEF Lives, IsActive, Present
<1>4. ASSUME NEW kind, NEW ref, RefIsFree(Now, kind, ref), NEW k, Named(Now, kind, ref, k, Now')
      PROVE  Define(kind, ref, k)
  BY <1>1, <1>4 DEF RefIsFree, Named, Define, AllKeys
<1>5. ASSUME NamedNothing(Now, Now')
      PROVE  DefineNothing
  BY <1>1, <1>5 DEF NamedNothing, DefineNothing
<1>6. CASE DidCreateEntity(Now, op, key, Now')
  <2>1. /\ op.op = "create_entity_type" /\ key \in EntityKeys
        /\ CreateEntityType(key, op.label)
    BY <1>1, <1>6 DEF DidCreateEntity, CreateEntityType, Accept, Valid, NewEntity
  <2>2. Define("entity", op.ref, key)
    BY <1>4, <1>6 DEF DidCreateEntity, Asks
  <2> QED
    BY <2>1, <2>2 DEF Perform, Create
<1>7. CASE DidAddField(Now, op, key, Now')
  <2>1. PICK e : e = Resolve("entity", op.entity)
    OBVIOUS
  <2>2. IsActive(e) /\ e \in Entity(op.entity)
    BY <1>2, <1>3, <1>7, <2>1 DEF DidAddField, Asks, Entity
  <2>3. op.op = "add_field" /\ key \in FieldKeys
        /\ AddField(e, key, op.label, op.type, op.options, op.required)
    BY <1>1, <1>2, <1>7, <2>1, <2>2 DEF DidAddField, AddField, Accept, Valid, NewField
  <2>4. Define("field", op.ref, key)
    BY <1>4, <1>7 DEF DidAddField, Asks
  <2> QED
    BY <2>2, <2>3, <2>4 DEF Perform, Create
<1>8. CASE DidAddLink(Now, op, key, Now')
  <2>1. PICK from, to : from = Resolve("entity", op.from) /\ to = Resolve("entity", op.to)
    OBVIOUS
  <2>2. IsActive(from) /\ from \in Entity(op.from) /\ IsActive(to) /\ to \in Entity(op.to)
    BY <1>2, <1>3, <1>8, <2>1 DEF DidAddLink, Asks, Entity
  <2>3. op.op = "add_link" /\ key \in LinkKeys /\ AddLink(key, from, to)
    <3>1. links' = [links EXCEPT ![key] = NewLink(Now, op)]
      BY <1>1, <1>8 DEF DidAddLink
    <3>2. NewLink(Now, op) = [from |-> from, to |-> to, archived |-> FALSE, archived_by |-> None]
      BY <1>2, <2>1 DEF NewLink
    <3>3. /\ op.op = "add_link" /\ key \in LinkKeys /\ links[key] = Absent
          /\ entities' = entities /\ fields' = fields
      BY <1>1, <1>8 DEF DidAddLink
    <3>4. links' = [links EXCEPT ![key] = [from |-> from, to |-> to, archived |-> FALSE,
                                           archived_by |-> None]]
      BY <3>1, <3>2, Zenon
    <3>5. IsValid(entities', fields', links')
      BY DEF Valid
    <3> QED
      BY <2>2, <3>3, <3>4, <3>5, Zenon DEF AddLink, Accept
  <2>4. Define("link", op.ref, key)
    BY <1>4, <1>8 DEF DidAddLink, Asks
  <2> QED
    BY <2>2, <2>3, <2>4 DEF Perform, Create
<1>9. CASE DidChangeEntity(Now, op, key, Now')
  <2>1. PICK e : e = Resolve("entity", op.entity)
    OBVIOUS
  <2>2. e \in Entity(op.entity) /\ entities[e] # Absent
    BY <1>1, <1>2, <1>9, <2>1 DEF DidChangeEntity, Entity, Present
  <2>3. fields' = fields /\ DefineNothing
    BY <1>1, <1>5, <1>9 DEF DidChangeEntity
  <2>4. \/ op.op = "update_entity_type" /\ UpdateEntityType(e, op.label)
        \/ op.op = "archive_entity_type" /\ ArchiveEntityType(e)
        \/ op.op = "restore_entity_type" /\ RestoreEntityType(e)
    <3>1. \/ /\ op.op = "update_entity_type"
             /\ entities' = [entities EXCEPT ![e].label = op.label] /\ links' = links
          \/ /\ op.op = "archive_entity_type"
             /\ entities' = Archive(entities, e) /\ links' = Cascade(links, e)
          \/ /\ op.op = "restore_entity_type"
             /\ entities' = Restore(entities, e) /\ links' = Uncascade(entities', links, e)
      BY <1>1, <1>2, <1>9, <2>1 DEF DidChangeEntity
    <3>2. /\ op.op \in {"update_entity_type", "archive_entity_type"} => IsActive(e)
          /\ op.op = "restore_entity_type" => entities[e].archived
      BY <1>1, <1>2, <1>3, <2>1 DEF Asks
    <3> QED
      BY <2>2, <2>3, <3>1, <3>2
         DEF UpdateEntityType, ArchiveEntityType, RestoreEntityType, Accept, Valid
  <2> QED
    BY <2>2, <2>3, <2>4 DEF Perform, ChangeEntity
<1>10. CASE DidChangeField(Now, op, key, Now')
  <2>1. PICK e, f : e = Resolve("entity", op.entity) /\ f = Resolve("field", op.field)
    OBVIOUS
  <2>2. /\ op.op \in {"update_field", "change_field_type", "archive_field", "restore_field"}
        /\ f \in FieldKeys /\ fields[f] # Absent /\ DefineNothing
        /\ fields' = [fields EXCEPT ![f] = NewRow(op, @)] /\ entities' = entities /\ links' = links
    BY <1>1, <1>2, <1>5, <1>10, <2>1 DEF DidChangeField, Present
  <2>3. /\ Lives(Now, fields[f].entity) /\ fields[f].entity = e /\ FieldGuard(op, fields[f])
    BY <1>1, <1>2, <2>1, <2>2 DEF Asks
  <2>4. /\ e \in Entity(op.entity) /\ f \in Field(op.field) /\ HasField(e, f)
    BY <1>3, <2>1, <2>2, <2>3 DEF Entity, Field, HasField
  <2>5. fields[f] \in FieldRow
    BY <2>2 DEF TypeOK
  <2>6. \/ op.op = "update_field" /\ UpdateField(e, f, op.label, op.options, op.required)
        \/ op.op = "change_field_type" /\ ChangeFieldType(e, f, op.type, op.options)
        \/ op.op = "archive_field" /\ ArchiveField(e, f)
        \/ op.op = "restore_field" /\ RestoreField(e, f)
    <3>1. CASE op.op = "update_field"
      BY <2>2, <2>3, <2>4, <3>1 DEF UpdateField, FieldGuard, Accept, Valid, NewRow
    <3>2. CASE op.op = "change_field_type"
      BY <2>2, <2>3, <2>4, <3>2 DEF ChangeFieldType, FieldGuard, Accept, Valid, NewRow
    <3>3. CASE op.op = "archive_field"
      BY <2>2, <2>3, <2>4, <3>3 DEF ArchiveField, Archive, FieldGuard, Accept, Valid, NewRow
    <3>4. CASE op.op = "restore_field"
      BY <2>2, <2>3, <2>4, <3>4 DEF RestoreField, Restore, FieldGuard, Accept, Valid, NewRow
    <3> QED
      BY <2>2, <3>1, <3>2, <3>3, <3>4
  <2> QED
    BY <2>2, <2>4, <2>6 DEF Perform, ChangeField
<1>11. CASE DidChangeLink(Now, op, key, Now')
  <2>1. PICK l : l = Resolve("link", op.link)
    OBVIOUS
  <2>2. PICK b \in BOOLEAN : b = Mark(op) /\ b = (op.op = "archive_link")
    BY <1>11 DEF DidChangeLink, Mark, Yes, No
  <2>3. /\ op.op \in {"archive_link", "restore_link"} /\ l \in Link(op.link) /\ links[l] # Absent
        /\ links' = SetArchived(links, l, b) /\ entities' = entities /\ fields' = fields
        /\ DefineNothing
    BY <1>1, <1>2, <1>5, <1>11, <2>1, <2>2 DEF DidChangeLink, Present, Link
  <2>4. /\ op.op = "archive_link" => ~links[l].archived
        /\ op.op = "restore_link" => links[l].archived
    BY <1>1, <1>2, <2>1 DEF Asks
  <2>5. \/ op.op = "archive_link" /\ ArchiveLink(l)
        \/ op.op = "restore_link" /\ RestoreLink(l)
    BY <2>2, <2>3, <2>4 DEF ArchiveLink, RestoreLink, SetLinkArchived, SetArchived, Accept, Valid
  <2> QED
    BY <2>3, <2>5 DEF Perform, ChangeLink
<1> QED
  BY <1>6, <1>7, <1>8, <1>9, <1>10, <1>11 DEF Did

\* What one operation does, guards and validation included
Done(s, op, key, n) == /\ Did(s, op, key, n) /\ Asks(s, op)
                       /\ IsValid(n.entities, n.fields, n.links)

-----------------------------------------------------------------------------
(* Two values that differ in their keys: p takes the keys of s to those of t. *)

Ren(p, k) == IF k = None THEN None ELSE p[k]

Maps(p, s, t) ==
    /\ DOMAIN p = KeysOf(s)
    /\ \A j, k \in KeysOf(s) : p[j] = p[k] => j = k
    /\ \A e \in Present(s.entities) : p[e] \in Present(t.entities)
    /\ \A f \in Present(s.fields) : p[f] \in Present(t.fields)
    /\ \A l \in Present(s.links) : p[l] \in Present(t.links)
    /\ \A e \in Present(t.entities) : \E d \in Present(s.entities) : p[d] = e
    /\ \A f \in Present(t.fields) : \E g \in Present(s.fields) : p[g] = f
    /\ \A l \in Present(t.links) : \E m \in Present(s.links) : p[m] = l

EntitiesMatch(p, s, t) == \A e \in Present(s.entities) : t.entities[p[e]] = s.entities[e]

FieldsMatch(p, s, t) == \A f \in Present(s.fields) :
    t.fields[p[f]] = [s.fields[f] EXCEPT !.entity = p[@]]

LinkOf(from, to, archived, by) ==
    [from |-> from, to |-> to, archived |-> archived, archived_by |-> by]

LinkUnder(p, link) ==
    LinkOf(p[link.from], p[link.to], link.archived, Ren(p, link.archived_by))

LinksMatch(p, s, t) == \A l \in Present(s.links) :
    t.links[p[l]] = LinkUnder(p, s.links[l])

AliasesMatch(p, s, t) == \A kind \in Kinds :
    /\ DOMAIN s.aliases[kind] = DOMAIN t.aliases[kind]
    /\ \A r \in DOMAIN s.aliases[kind] : /\ s.aliases[kind][r] \in DOMAIN p
                                         /\ t.aliases[kind][r] = p[s.aliases[kind][r]]

MadeMatch(p, s, t) ==
    /\ Len(t.made) = Len(s.made)
    /\ \A i \in 1..Len(s.made) : /\ s.made[i] \in DOMAIN p \cup {None}
                                 /\ t.made[i] = Ren(p, s.made[i])

\* The keys of the version stay what they are, and the others were drawn.
BaseStays(b, p, s) ==
    /\ \A k \in KeysOf(b) : k \in DOMAIN p /\ p[k] = k
    /\ \A k \in DOMAIN p : k \in KeysOf(b) \/ \E i \in 1..Len(s.made) : s.made[i] = k

TablesMatch(p, s, t) == /\ Maps(p, s, t) /\ EntitiesMatch(p, s, t)
                        /\ FieldsMatch(p, s, t) /\ LinksMatch(p, s, t)

Corresponds(b, p, s, t) ==
    /\ TablesMatch(p, s, t)
    /\ AliasesMatch(p, s, t) /\ MadeMatch(p, s, t) /\ BaseStays(b, p, s)

-----------------------------------------------------------------------------

\* What an operation can hold and name
LEMMA OperationNames ==
    ASSUME NEW op \in Operations
    PROVE  /\ op.op = "create_entity_type" => op.label \in Labels
           /\ op.op = "add_field" =>
                /\ op.entity \in EntityNames /\ op.label \in Labels /\ op.type \in Types
                /\ op.options \in OptionLists \cup {None} /\ op.required \in BOOLEAN
           /\ op.op = "add_link" => op.from \in EntityNames /\ op.to \in EntityNames
           /\ op.op \in {"update_entity_type", "archive_entity_type", "restore_entity_type"} =>
                op.entity \in EntityNames
           /\ op.op = "update_entity_type" => op.label \in Labels
           /\ op.op = "update_field" =>
                /\ op.label \in Labels \cup {None} /\ op.options \in OptionLists \cup {None}
                /\ op.required \in BOOLEAN \cup {None}
           /\ op.op = "change_field_type" =>
                op.type \in Types /\ op.options \in OptionLists \cup {None}
           /\ op.op \in {"update_field", "change_field_type", "archive_field", "restore_field"} =>
                op.field \in FieldNames
           /\ op.op \in {"archive_link", "restore_link"} => op.link \in LinkNames
BY DEF Operations, Maybe

LEMMA ClosedKeys ==
    ASSUME NEW s, Closed(s)
    PROVE  /\ Present(s.entities) \subseteq EntityKeys
           /\ Present(s.fields) \subseteq FieldKeys
           /\ Present(s.links) \subseteq LinkKeys
           /\ KeysOf(s) \subseteq AllKeys
           /\ None \notin KeysOf(s)
BY EngineAssumption, BatchAssumption DEF Closed, Present, KeysOf, AllKeys

\* A name means in the one what it means in the other.
LEMMA SameMeaning ==
    ASSUME NEW b \in Bases, NEW p, NEW s, NEW t, Closed(s), Corresponds(b, p, s, t),
           NEW kind \in Kinds, NEW name, name \in KeysOf(b) \cup Refs,
           Meant(s, kind, name) \in KeysOf(s)
    PROVE  Meant(t, kind, name) = p[Meant(s, kind, name)]
<1>1. CASE name \in DOMAIN s.aliases[kind]
  BY <1>1 DEF Corresponds, AliasesMatch, Meant
<1>2. CASE name \notin DOMAIN s.aliases[kind]
  <2>1. name \in AllKeys
    BY <1>2, ClosedKeys DEF Meant
  <2>2. name \in KeysOf(b)
    BY <2>1, BatchAssumption DEF AllKeys, KeysOf
  <2> QED
    BY <1>2, <2>2 DEF Corresponds, AliasesMatch, BaseStays, Meant
<1> QED
  BY <1>1, <1>2

Extended(p, j, k) == [i \in DOMAIN p \cup {j} |-> IF i = j THEN k ELSE p[i]]

\* An operation that creates something extends the renaming.
LEMMA ExtendedNames ==
    ASSUME NEW b, NEW p, NEW s, NEW t, NEW n, NEW m, Closed(s), Closed(t),
           AliasesMatch(p, s, t), MadeMatch(p, s, t), BaseStays(b, p, s),
           NEW j \in AllKeys, NEW k \in AllKeys, j \notin DOMAIN p,
           NEW kind \in Kinds, NEW ref, Named(s, kind, ref, j, n), Named(t, kind, ref, k, m),
           NEW q, q = Extended(p, j, k)
    PROVE  AliasesMatch(q, n, m) /\ MadeMatch(q, n, m) /\ BaseStays(b, q, n)
<1>1. /\ DOMAIN q = DOMAIN p \cup {j} /\ q[j] = k
      /\ \A i \in DOMAIN p : q[i] = p[i]
  BY DEF Extended
<1>0. j # None /\ k # None
  BY EngineAssumption, BatchAssumption DEF AllKeys
<1>2. MadeMatch(q, n, m)
  <2>1. /\ Len(n.made) = Len(s.made) + 1 /\ Len(m.made) = Len(t.made) + 1
        /\ Len(s.made) \in Nat /\ Len(t.made) = Len(s.made)
        /\ n.made[Len(s.made) + 1] = j /\ m.made[Len(s.made) + 1] = k
        /\ \A i \in 1..Len(s.made) : n.made[i] = s.made[i] /\ m.made[i] = t.made[i]
    BY DEF Named, Closed, MadeMatch
  <2> SUFFICES ASSUME NEW i \in 1..Len(n.made)
               PROVE  n.made[i] \in DOMAIN q \cup {None} /\ m.made[i] = Ren(q, n.made[i])
    BY <2>1 DEF MadeMatch
  <2>2. CASE i = Len(s.made) + 1
    BY <2>1, <2>2, <1>1, <1>0 DEF Ren
  <2>3. CASE i \in 1..Len(s.made)
    BY <2>1, <2>3, <1>1 DEF Ren, MadeMatch
  <2> QED
    BY <2>1, <2>2, <2>3
<1>3. AliasesMatch(q, n, m)
  <2> SUFFICES ASSUME NEW kind2 \in Kinds
               PROVE  /\ DOMAIN n.aliases[kind2] = DOMAIN m.aliases[kind2]
                      /\ \A r \in DOMAIN n.aliases[kind2] :
                            /\ n.aliases[kind2][r] \in DOMAIN q
                            /\ m.aliases[kind2][r] = q[n.aliases[kind2][r]]
    BY DEF AliasesMatch
  <2>1. CASE ref = None \/ kind2 # kind
    <3>1. n.aliases[kind2] = s.aliases[kind2] /\ m.aliases[kind2] = t.aliases[kind2]
      BY <2>1 DEF Named, Closed
    <3> QED
      BY <3>1, <1>1 DEF AliasesMatch
  <2>2. CASE ref # None /\ kind2 = kind
    <3>1. /\ n.aliases[kind2] = [r \in DOMAIN s.aliases[kind2] \cup {ref} |->
                                   IF r = ref THEN j ELSE s.aliases[kind2][r]]
          /\ m.aliases[kind2] = [r \in DOMAIN t.aliases[kind2] \cup {ref} |->
                                   IF r = ref THEN k ELSE t.aliases[kind2][r]]
      BY <2>2 DEF Named, Closed
    <3> QED
      BY <3>1, <1>1 DEF AliasesMatch
  <2> QED
    BY <2>1, <2>2
<1>4. BaseStays(b, q, n)
  <2>1. /\ Len(n.made) = Len(s.made) + 1 /\ Len(s.made) \in Nat
        /\ n.made[Len(s.made) + 1] = j
        /\ \A i \in 1..Len(s.made) : n.made[i] = s.made[i]
    BY DEF Named, Closed
  <2>2. \A x \in KeysOf(b) : x \in DOMAIN q /\ q[x] = x
    BY <1>1 DEF BaseStays
  <2> SUFFICES ASSUME NEW x \in DOMAIN q, x \notin KeysOf(b)
               PROVE  \E i \in 1..Len(n.made) : n.made[i] = x
    BY <2>2 DEF BaseStays
  <2>3. CASE x = j
    BY <2>1, <2>3
  <2>4. CASE x \in DOMAIN p
    <3>1. PICK i \in 1..Len(s.made) : s.made[i] = x
      BY <2>4 DEF BaseStays
    <3>2. i \in 1..Len(n.made) /\ n.made[i] = x
      BY <2>1, <3>1
    <3> QED
      BY <3>2
  <2> QED
    BY <1>1, <2>3, <2>4
<1> QED
  BY <1>2, <1>3, <1>4

\* One that creates nothing leaves the renaming as it is.
LEMMA SameNames ==
    ASSUME NEW b, NEW p, NEW s, NEW t, NEW n, NEW m, Closed(s), Closed(t),
           AliasesMatch(p, s, t), MadeMatch(p, s, t), BaseStays(b, p, s),
           NamedNothing(s, n), NamedNothing(t, m)
    PROVE  AliasesMatch(p, n, m) /\ MadeMatch(p, n, m) /\ BaseStays(b, p, n)
<1>1. AliasesMatch(p, n, m)
  BY DEF AliasesMatch, NamedNothing
<1>2. /\ Len(n.made) = Len(s.made) + 1 /\ Len(m.made) = Len(t.made) + 1
      /\ Len(s.made) \in Nat /\ Len(t.made) = Len(s.made)
      /\ n.made[Len(s.made) + 1] = None /\ m.made[Len(s.made) + 1] = None
      /\ \A i \in 1..Len(s.made) : n.made[i] = s.made[i] /\ m.made[i] = t.made[i]
  BY DEF NamedNothing, Closed, MadeMatch
<1>3. MadeMatch(p, n, m)
  <2> SUFFICES ASSUME NEW i \in 1..Len(n.made)
               PROVE  n.made[i] \in DOMAIN p \cup {None} /\ m.made[i] = Ren(p, n.made[i])
    BY <1>2 DEF MadeMatch
  <2>2. CASE i = Len(s.made) + 1
    BY <1>2, <2>2 DEF Ren
  <2>3. CASE i \in 1..Len(s.made)
    BY <1>2, <2>3 DEF MadeMatch
  <2> QED
    BY <1>2, <2>2, <2>3
<1>4. BaseStays(b, p, n)
  <2> SUFFICES ASSUME NEW x \in DOMAIN p, x \notin KeysOf(b)
               PROVE  \E i \in 1..Len(n.made) : n.made[i] = x
    BY DEF BaseStays
  <2>1. PICK i \in 1..Len(s.made) : s.made[i] = x
    BY DEF BaseStays
  <2>2. i \in 1..Len(n.made) /\ n.made[i] = x
    BY <1>2, <2>1
  <2> QED
    BY <2>2
<1> QED
  BY <1>1, <1>3, <1>4

\* What has key k was added to one of the three tables.
Added(s, k, n) ==
    /\ k \notin KeysOf(s)
    /\ \/ /\ k \in EntityKeys /\ Present(n.entities) = Present(s.entities) \cup {k}
          /\ n.fields = s.fields /\ n.links = s.links
       \/ /\ k \in FieldKeys /\ Present(n.fields) = Present(s.fields) \cup {k}
          /\ n.entities = s.entities /\ n.links = s.links
       \/ /\ k \in LinkKeys /\ Present(n.links) = Present(s.links) \cup {k}
          /\ n.entities = s.entities /\ n.fields = s.fields

SameKind(j, k) == \E K \in {EntityKeys, FieldKeys, LinkKeys} : j \in K /\ k \in K

\* With a row added on each side, the longer renaming takes the one to the other.
LEMMA ExtendedMaps ==
    ASSUME NEW p, NEW s, NEW t, NEW n, NEW m, Maps(p, s, t), NEW j, NEW k,
           SameKind(j, k), Added(s, j, n), Added(t, k, m), NEW q, q = Extended(p, j, k)
    PROVE  Maps(q, n, m)
<1>1. /\ DOMAIN q = KeysOf(s) \cup {j} /\ q[j] = k
      /\ \A i \in KeysOf(s) : q[i] = p[i]
  BY DEF Extended, Maps, Added
<1>2. KeysOf(n) = KeysOf(s) \cup {j} /\ j \notin KeysOf(s) /\ k \notin KeysOf(t)
  BY DEF KeysOf, Added
<1>3. \A i \in KeysOf(s) : p[i] \in KeysOf(t)
  BY DEF Maps, KeysOf
<1>4. \A x, y \in KeysOf(n) : q[x] = q[y] => x = y
  BY <1>1, <1>2, <1>3 DEF Maps
<1>5. CASE j \in EntityKeys /\ k \in EntityKeys
  <2>1. /\ Present(n.entities) = Present(s.entities) \cup {j}
        /\ Present(m.entities) = Present(t.entities) \cup {k}
        /\ n.fields = s.fields /\ n.links = s.links /\ m.fields = t.fields /\ m.links = t.links
    BY <1>5, BatchAssumption DEF Added
  <2> QED
    BY <1>1, <1>2, <1>4, <2>1 DEF Maps, KeysOf
<1>6. CASE j \in FieldKeys /\ k \in FieldKeys
  <2>1. /\ Present(n.fields) = Present(s.fields) \cup {j}
        /\ Present(m.fields) = Present(t.fields) \cup {k}
        /\ n.entities = s.entities /\ n.links = s.links
        /\ m.entities = t.entities /\ m.links = t.links
    BY <1>6, BatchAssumption DEF Added
  <2> QED
    BY <1>1, <1>2, <1>4, <2>1 DEF Maps, KeysOf
<1>7. CASE j \in LinkKeys /\ k \in LinkKeys
  <2>1. /\ Present(n.links) = Present(s.links) \cup {j}
        /\ Present(m.links) = Present(t.links) \cup {k}
        /\ n.entities = s.entities /\ n.fields = s.fields
        /\ m.entities = t.entities /\ m.fields = t.fields
    BY <1>7, BatchAssumption DEF Added
  <2> QED
    BY <1>1, <1>2, <1>4, <2>1 DEF Maps, KeysOf
<1> QED
  BY <1>5, <1>6, <1>7 DEF SameKind

RowsMatch(p, s, t) == EntitiesMatch(p, s, t) /\ FieldsMatch(p, s, t) /\ LinksMatch(p, s, t)

\* What a renaming says of other keys does not matter to the rows that are there.
LEMMA SameRows ==
    ASSUME NEW p, NEW q, NEW s, NEW t, Closed(s), TablesMatch(p, s, t),
           \A i \in KeysOf(s) : q[i] = p[i]
    PROVE  RowsMatch(q, s, t)
<1>1. EntitiesMatch(q, s, t)
  BY DEF TablesMatch, EntitiesMatch, KeysOf
<1>2. FieldsMatch(q, s, t)
  BY DEF TablesMatch, FieldsMatch, KeysOf, Closed
<1>3. LinksMatch(q, s, t)
  <2> SUFFICES ASSUME NEW l \in Present(s.links)
               PROVE  t.links[q[l]] = LinkUnder(q, s.links[l])
    BY DEF LinksMatch
  <2>1. /\ s.links[l].from \in KeysOf(s) /\ s.links[l].to \in KeysOf(s)
        /\ s.links[l].archived_by \in KeysOf(s) \cup {None}
    BY DEF Closed, KeysOf
  <2>2. Ren(q, s.links[l].archived_by) = Ren(p, s.links[l].archived_by)
    BY <2>1 DEF Ren
  <2>3. q[l] = p[l]
    BY DEF KeysOf
  <2> QED
    BY <2>1, <2>2, <2>3 DEF TablesMatch, LinksMatch, LinkUnder
<1> QED
  BY <1>1, <1>2, <1>3 DEF RowsMatch

\* What an operation that creates adds, and that the other rows stay.
LEMMA EntityAdded ==
    ASSUME NEW s, NEW n, NEW op \in Operations, NEW j, Closed(s), DidCreateEntity(s, op, j, n)
    PROVE  Added(s, j, n) /\ n.entities[j] = NewEntity(op)
           /\ \A e \in Present(s.entities) : n.entities[e] = s.entities[e]
<1> DEFINE row == NewEntity(op)
<1>1. row \in EntityRow
  <2>1. op.label \in Labels
    BY OperationNames DEF DidCreateEntity
  <2> QED
    BY <2>1 DEF NewEntity, EntityRow
<1>2. row # Absent
  BY <1>1, AbsentAssumption
<1>3. /\ n.entities = [s.entities EXCEPT ![j] = row]
      /\ j \in EntityKeys /\ s.entities[j] = Absent
      /\ n.fields = s.fields /\ n.links = s.links
  BY DEF DidCreateEntity
<1> HIDE DEF row
<1>4. Present(n.entities) = Present(s.entities) \cup {j}
  BY <1>2, <1>3 DEF Present, Closed
<1>5. j \notin KeysOf(s)
  BY <1>3, ClosedKeys, BatchAssumption DEF KeysOf, Present
<1> QED
  BY <1>3, <1>4, <1>5 DEF Added, Closed, Present, row

LEMMA FieldAdded ==
    ASSUME NEW s, NEW n, NEW op \in Operations, NEW j, Closed(s), DidAddField(s, op, j, n)
    PROVE  /\ Added(s, j, n)
           /\ n.fields[j] = NewField(s, op)
           /\ \A f \in Present(s.fields) : n.fields[f] = s.fields[f]
<1> DEFINE row == NewField(s, op)
<1>1. row \in FieldRow
  <2>1. /\ op.label \in Labels /\ op.type \in Types
        /\ op.options \in OptionLists \cup {None} /\ op.required \in BOOLEAN
    BY OperationNames DEF DidAddField
  <2>2. Meant(s, "entity", op.entity) \in EntityKeys
    BY ClosedKeys DEF DidAddField
  <2> QED
    BY <2>1, <2>2 DEF NewField, FieldRow
<1>2. row # Absent
  BY <1>1, AbsentAssumption
<1>3. /\ n.fields = [s.fields EXCEPT ![j] = row]
      /\ j \in FieldKeys /\ s.fields[j] = Absent
      /\ n.entities = s.entities /\ n.links = s.links
  BY DEF DidAddField
<1> HIDE DEF row
<1>4. Present(n.fields) = Present(s.fields) \cup {j}
  BY <1>2, <1>3 DEF Present, Closed
<1>5. j \notin KeysOf(s)
  BY <1>3, ClosedKeys, BatchAssumption DEF KeysOf, Present
<1> QED
  BY <1>3, <1>4, <1>5 DEF Added, Closed, Present, row

LEMMA LinkAdded ==
    ASSUME NEW s, NEW n, NEW op \in Operations, NEW j, Closed(s), DidAddLink(s, op, j, n)
    PROVE  /\ Added(s, j, n)
           /\ n.links[j] = NewLink(s, op)
           /\ \A l \in Present(s.links) : n.links[l] = s.links[l]
<1> DEFINE row == NewLink(s, op)
<1>1. row \in LinkRow
  <2>1. Meant(s, "entity", op.from) \in EntityKeys /\ Meant(s, "entity", op.to) \in EntityKeys
    BY ClosedKeys DEF DidAddLink
  <2> QED
    BY <2>1, EngineAssumption DEF NewLink, LinkRow
<1>2. row # Absent
  BY <1>1, AbsentAssumption
<1>3. /\ n.links = [s.links EXCEPT ![j] = row]
      /\ j \in LinkKeys /\ s.links[j] = Absent
      /\ n.entities = s.entities /\ n.fields = s.fields
  BY DEF DidAddLink
<1> HIDE DEF row
<1>4. Present(n.links) = Present(s.links) \cup {j}
  BY <1>2, <1>3 DEF Present, Closed
<1>5. j \notin KeysOf(s)
  BY <1>3, ClosedKeys, BatchAssumption DEF KeysOf, Present
<1> QED
  BY <1>3, <1>4, <1>5 DEF Added, Closed, Present, row

\* SameMeaning for the names of each kind
LEMMA EntityNameMeans ==
    ASSUME NEW p, NEW s, NEW t, base \in Bases, Closed(s), Corresponds(base, p, s, t),
           NEW name \in EntityNames, Meant(s, "entity", name) \in Present(s.entities)
    PROVE  Meant(t, "entity", name) = p[Meant(s, "entity", name)]
BY SameMeaning DEF EntityNames, KeysOf, Kinds

LEMMA FieldNameMeans ==
    ASSUME NEW p, NEW s, NEW t, base \in Bases, Closed(s), Corresponds(base, p, s, t),
           NEW name \in FieldNames, Meant(s, "field", name) \in Present(s.fields)
    PROVE  Meant(t, "field", name) = p[Meant(s, "field", name)]
BY SameMeaning DEF FieldNames, KeysOf, Kinds

LEMMA LinkNameMeans ==
    ASSUME NEW p, NEW s, NEW t, base \in Bases, Closed(s), Corresponds(base, p, s, t),
           NEW name \in LinkNames, Meant(s, "link", name) \in Present(s.links)
    PROVE  Meant(t, "link", name) = p[Meant(s, "link", name)]
BY SameMeaning DEF LinkNames, KeysOf, Kinds

\* Two operations that create correspond, and so do the keys they draw.
LEMMA SameCreation ==
    ASSUME NEW p, NEW s, NEW t, NEW n, NEW m, base \in Bases, Closed(s), Closed(t),
           Corresponds(base, p, s, t), NEW op \in Operations, NEW j, NEW k,
           \/ DidCreateEntity(s, op, j, n) /\ DidCreateEntity(t, op, k, m)
           \/ DidAddField(s, op, j, n) /\ DidAddField(t, op, k, m)
           \/ DidAddLink(s, op, j, n) /\ DidAddLink(t, op, k, m)
    PROVE  \E q : Corresponds(base, q, n, m)
<1>1. PICK q : q = Extended(p, j, k)
  OBVIOUS
<1>2. Added(s, j, n) /\ Added(t, k, m) /\ SameKind(j, k) /\ j \in AllKeys /\ k \in AllKeys
  BY EntityAdded, FieldAdded, LinkAdded
     DEF SameKind, AllKeys, DidCreateEntity, DidAddField, DidAddLink
<1>3. Maps(q, n, m) /\ q[j] = k /\ \A i \in KeysOf(s) : q[i] = p[i]
  <2>1. Maps(p, s, t)
    BY DEF Corresponds, TablesMatch
  <2>2. Maps(q, n, m)
    BY <1>1, <1>2, <2>1, ExtendedMaps
  <2>3. DOMAIN p = KeysOf(s) /\ j \notin KeysOf(s)
    BY <1>2, <2>1 DEF Maps, Added
  <2> QED
    BY <1>1, <2>2, <2>3 DEF Extended
<1>4. RowsMatch(q, s, t)
  BY <1>3, SameRows DEF Corresponds
<1>5. \E kind \in Kinds : \E ref : Named(s, kind, ref, j, n) /\ Named(t, kind, ref, k, m)
  BY DEF DidCreateEntity, DidAddField, DidAddLink, Kinds
<1>6. j \notin DOMAIN p
  BY <1>2 DEF Added, Corresponds, TablesMatch, Maps
<1>7. AliasesMatch(q, n, m) /\ MadeMatch(q, n, m) /\ BaseStays(base, q, n)
  BY <1>1, <1>2, <1>5, <1>6, ExtendedNames DEF Corresponds
<1>8. Present(s.entities) \cup Present(s.fields) \cup Present(s.links) = KeysOf(s)
  BY DEF KeysOf
<1>9. /\ \A e \in Present(s.entities) : q[e] \in Present(t.entities)
      /\ \A f \in Present(s.fields) : q[f] \in Present(t.fields)
      /\ \A l \in Present(s.links) : q[l] \in Present(t.links)
  BY <1>3, <1>8 DEF Corresponds, TablesMatch, Maps
<1>10. CASE DidCreateEntity(s, op, j, n) /\ DidCreateEntity(t, op, k, m)
  <2>1. n.fields = s.fields /\ m.fields = t.fields /\ n.links = s.links /\ m.links = t.links
    BY <1>10 DEF DidCreateEntity
  <2>2. Present(n.entities) = Present(s.entities) \cup {j}
    BY <1>10, <1>2, BatchAssumption DEF Added, DidCreateEntity
  <2>3. EntitiesMatch(q, n, m)
    <3>1. /\ n.entities[j] = NewEntity(op)
          /\ \A e \in Present(s.entities) : n.entities[e] = s.entities[e]
      BY <1>10, EntityAdded
    <3>2. /\ m.entities[k] = NewEntity(op)
          /\ \A e \in Present(t.entities) : m.entities[e] = t.entities[e]
      BY <1>10, EntityAdded
    <3> QED
      BY <1>3, <1>4, <1>9, <2>2, <3>1, <3>2 DEF EntitiesMatch, RowsMatch
  <2>4. FieldsMatch(q, n, m) /\ LinksMatch(q, n, m)
    BY <1>4, <2>1 DEF FieldsMatch, LinksMatch, RowsMatch
  <2> QED
    BY <1>3, <1>7, <2>3, <2>4 DEF Corresponds, TablesMatch
<1>11. CASE DidAddField(s, op, j, n) /\ DidAddField(t, op, k, m)
  <2>1. n.entities = s.entities /\ m.entities = t.entities /\ n.links = s.links
        /\ m.links = t.links
    BY <1>11 DEF DidAddField
  <2>2. Present(n.fields) = Present(s.fields) \cup {j}
    BY <1>11, <1>2, BatchAssumption DEF Added, DidAddField
  <2>3. Meant(t, "entity", op.entity) = q[Meant(s, "entity", op.entity)]
    BY <1>3, <1>8, <1>11, EntityNameMeans, OperationNames DEF DidAddField
  <2>4. m.fields[k] = [n.fields[j] EXCEPT !.entity = q[@]]
    <3>1. n.fields[j] = NewField(s, op)
      BY <1>11, FieldAdded
    <3>2. m.fields[k] = NewField(t, op)
      BY <1>11, FieldAdded
    <3>3. PICK no \in BOOLEAN : no = FALSE
      OBVIOUS
    <3>4. /\ n.fields[j] = [entity |-> Meant(s, "entity", op.entity), label |-> op.label,
                            type |-> op.type, options |-> op.options,
                            required |-> op.required, archived |-> no]
          /\ m.fields[k] = [entity |-> Meant(t, "entity", op.entity), label |-> op.label,
                            type |-> op.type, options |-> op.options,
                            required |-> op.required, archived |-> no]
      BY <3>1, <3>2, <3>3, Zenon DEF NewField
    <3> QED
      BY <2>3, <3>4
  <2>5. \A f \in Present(s.fields) : m.fields[q[f]] = [n.fields[f] EXCEPT !.entity = q[@]]
    <3>1. \A f \in Present(s.fields) : n.fields[f] = s.fields[f]
      BY <1>11, FieldAdded
    <3>2. \A f \in Present(t.fields) : m.fields[f] = t.fields[f]
      BY <1>11, FieldAdded
    <3> QED
      BY <1>4, <1>9, <3>1, <3>2 DEF RowsMatch, FieldsMatch
  <2>6. FieldsMatch(q, n, m)
    BY <1>3, <2>2, <2>4, <2>5 DEF FieldsMatch
  <2>7. EntitiesMatch(q, n, m) /\ LinksMatch(q, n, m)
    BY <1>4, <2>1 DEF EntitiesMatch, LinksMatch, RowsMatch
  <2> QED
    BY <1>3, <1>7, <2>6, <2>7 DEF Corresponds, TablesMatch
<1>12. CASE DidAddLink(s, op, j, n) /\ DidAddLink(t, op, k, m)
  <2>1. n.entities = s.entities /\ m.entities = t.entities /\ n.fields = s.fields
        /\ m.fields = t.fields
    BY <1>12 DEF DidAddLink
  <2>2. Present(n.links) = Present(s.links) \cup {j}
    BY <1>12, <1>2, BatchAssumption DEF Added, DidAddLink
  <2>3. /\ Meant(t, "entity", op.from) = q[Meant(s, "entity", op.from)]
        /\ Meant(t, "entity", op.to) = q[Meant(s, "entity", op.to)]
    BY <1>3, <1>8, <1>12, EntityNameMeans, OperationNames DEF DidAddLink
  <2>4. m.links[k] = LinkUnder(q, n.links[j])
    <3>1. n.links[j] = NewLink(s, op)
      BY <1>12, LinkAdded
    <3>2. m.links[k] = NewLink(t, op)
      BY <1>12, LinkAdded
    <3>3. PICK no \in BOOLEAN : no = FALSE
      OBVIOUS
    <3>4. /\ n.links[j] = [from |-> Meant(s, "entity", op.from), to |-> Meant(s, "entity", op.to),
                           archived |-> no, archived_by |-> None]
          /\ m.links[k] = [from |-> Meant(t, "entity", op.from), to |-> Meant(t, "entity", op.to),
                           archived |-> no, archived_by |-> None]
      BY <3>1, <3>2, <3>3, Zenon DEF NewLink
    <3>5. Ren(q, None) = None
      BY DEF Ren
    <3> QED
      BY <2>3, <3>4, <3>5 DEF LinkUnder, LinkOf
  <2>5. \A l \in Present(s.links) :
           m.links[q[l]] = LinkUnder(q, n.links[l])
    <3>1. \A l \in Present(s.links) : n.links[l] = s.links[l]
      BY <1>12, LinkAdded
    <3>2. \A l \in Present(t.links) : m.links[l] = t.links[l]
      BY <1>12, LinkAdded
    <3> QED
      BY <1>4, <1>9, <3>1, <3>2 DEF RowsMatch, LinksMatch
  <2>6. LinksMatch(q, n, m)
    BY <1>3, <2>2, <2>4, <2>5 DEF LinksMatch
  <2>7. EntitiesMatch(q, n, m) /\ FieldsMatch(q, n, m)
    BY <1>4, <2>1 DEF EntitiesMatch, FieldsMatch, RowsMatch
  <2> QED
    BY <1>3, <1>7, <2>6, <2>7 DEF Corresponds, TablesMatch
<1> QED
  BY <1>10, <1>11, <1>12

\* A change to a field leaves its entity type alone.
LEMMA NewRowUnder ==
    ASSUME NEW op, NEW row \in FieldRow, NEW d,
           op.op \in {"update_field", "change_field_type", "archive_field", "restore_field"}
    PROVE  NewRow(op, [row EXCEPT !.entity = d]) = [NewRow(op, row) EXCEPT !.entity = d]
<1>1. PICK e, label, type, options, required, archived :
          row = [entity |-> e, label |-> label, type |-> type, options |-> options,
                 required |-> required, archived |-> archived]
  BY DEF FieldRow
<1> DEFINE record(c) == [entity |-> c, label |-> label, type |-> type, options |-> options,
                         required |-> required, archived |-> archived]
<1>2. row = record(e) /\ [row EXCEPT !.entity = d] = record(d)
  BY <1>1
<1>3. NewRow(op, record(d)) = [NewRow(op, record(e)) EXCEPT !.entity = d]
  <2>1. CASE op.op = "update_field"
    <3> DEFINE new(c) == [entity |-> c, label |-> Given(op.label, label), type |-> type,
                          options |-> Given(op.options, options),
                          required |-> Given(op.required, required), archived |-> archived]
    <3>1. NewRow(op, record(e)) = new(e) /\ NewRow(op, record(d)) = new(d)
      BY <2>1 DEF NewRow
    <3>2. [new(e) EXCEPT !.entity = d] = new(d)
      OBVIOUS
    <3> QED
      BY <3>1, <3>2, Zenon
  <2>2. CASE op.op = "change_field_type"
    <3>1. PICK given : given = IF op.type = "select" THEN Given(op.options, options)
                                                     ELSE op.options
      OBVIOUS
    <3> DEFINE new(c) == [entity |-> c, label |-> label, type |-> op.type, options |-> given,
                          required |-> required, archived |-> archived]
    <3>2. NewRow(op, record(e)) = new(e) /\ NewRow(op, record(d)) = new(d)
      BY <2>2, <3>1 DEF NewRow
    <3>3. [new(e) EXCEPT !.entity = d] = new(d)
      OBVIOUS
    <3> QED
      BY <3>2, <3>3, Zenon
  <2>3. CASE op.op \in {"archive_field", "restore_field"}
    <3>1. PICK b \in BOOLEAN : b = (op.op = "archive_field")
      OBVIOUS
    <3> DEFINE new(c) == [entity |-> c, label |-> label, type |-> type, options |-> options,
                          required |-> required, archived |-> b]
    <3>2. NewRow(op, record(e)) = new(e) /\ NewRow(op, record(d)) = new(d)
      BY <2>3, <3>1 DEF NewRow
    <3>3. [new(e) EXCEPT !.entity = d] = new(d)
      OBVIOUS
    <3> QED
      BY <3>2, <3>3, Zenon
  <2> QED
    BY <2>1, <2>2, <2>3
<1> QED
  BY <1>2, <1>3

LEMMA NewRowType ==
    ASSUME NEW op \in Operations, NEW row \in FieldRow,
           op.op \in {"update_field", "change_field_type", "archive_field", "restore_field"}
    PROVE  NewRow(op, row) \in FieldRow
<1>1. PICK e \in EntityKeys, label \in Labels, type \in Types, options \in OptionLists \cup {None},
           required \in BOOLEAN, archived \in BOOLEAN :
          row = [entity |-> e, label |-> label, type |-> type, options |-> options,
                 required |-> required, archived |-> archived]
  BY DEF FieldRow
<1>2. CASE op.op = "update_field"
  <2>1. /\ Given(op.label, label) \in Labels
        /\ Given(op.options, options) \in OptionLists \cup {None}
        /\ Given(op.required, required) \in BOOLEAN
    BY <1>2, OperationNames DEF Given
  <2>2. NewRow(op, row) = [entity |-> e, label |-> Given(op.label, label), type |-> type,
                          options |-> Given(op.options, options),
                          required |-> Given(op.required, required), archived |-> archived]
    BY <1>1, <1>2 DEF NewRow
  <2> QED
    BY <2>1, <2>2 DEF FieldRow
<1>3. CASE op.op = "change_field_type"
  <2>1. PICK given \in OptionLists \cup {None} :
          given = IF op.type = "select" THEN Given(op.options, options) ELSE op.options
    BY <1>3, OperationNames DEF Given
  <2>2. NewRow(op, row) = [entity |-> e, label |-> label, type |-> op.type, options |-> given,
                          required |-> required, archived |-> archived]
    BY <1>1, <1>3, <2>1 DEF NewRow
  <2>3. op.type \in Types
    BY <1>3, OperationNames
  <2> QED
    BY <2>2, <2>3 DEF FieldRow
<1>4. CASE op.op \in {"archive_field", "restore_field"}
  <2>1. PICK b \in BOOLEAN : b = (op.op = "archive_field")
    OBVIOUS
  <2>2. NewRow(op, row) = [entity |-> e, label |-> label, type |-> type, options |-> options,
                          required |-> required, archived |-> b]
    BY <1>1, <1>4, <2>1 DEF NewRow
  <2> QED
    BY <2>2 DEF FieldRow
<1> QED
  BY <1>2, <1>3, <1>4

LEMMA SameKeys ==
    ASSUME NEW p, NEW s, NEW t, NEW n, NEW m, Maps(p, s, t),
           Present(n.entities) = Present(s.entities), Present(m.entities) = Present(t.entities),
           Present(n.fields) = Present(s.fields), Present(m.fields) = Present(t.fields),
           Present(n.links) = Present(s.links), Present(m.links) = Present(t.links)
    PROVE  Maps(p, n, m)
BY DEF Maps, KeysOf

\* The same change to a field, to a link and to an entity type
LEMMA SameFieldChange ==
    ASSUME NEW p, NEW s, NEW t, NEW n, NEW m, base \in Bases, Closed(s), Closed(t),
           Corresponds(base, p, s, t), NEW op \in Operations,
           DidChangeField(s, op, None, n), DidChangeField(t, op, None, m)
    PROVE  Corresponds(base, p, n, m)
<1>1. PICK f, g : f = Meant(s, "field", op.field) /\ g = Meant(t, "field", op.field)
  OBVIOUS
<1>2. /\ op.op \in {"update_field", "change_field_type", "archive_field", "restore_field"}
      /\ f \in Present(s.fields) /\ g \in Present(t.fields)
      /\ n.fields = [s.fields EXCEPT ![f] = NewRow(op, s.fields[f])]
      /\ m.fields = [t.fields EXCEPT ![g] = NewRow(op, t.fields[g])]
      /\ n.entities = s.entities /\ n.links = s.links
      /\ m.entities = t.entities /\ m.links = t.links
      /\ NamedNothing(s, n) /\ NamedNothing(t, m)
  BY <1>1 DEF DidChangeField
<1>3. g = p[f]
  BY <1>1, <1>2, FieldNameMeans, OperationNames
<1>4. s.fields[f] \in FieldRow /\ t.fields[g] \in FieldRow
  BY <1>2 DEF Closed, Present
<1>5. NewRow(op, s.fields[f]) \in FieldRow /\ NewRow(op, t.fields[g]) \in FieldRow
  BY <1>2, <1>4, NewRowType
<1>6. NewRow(op, s.fields[f]) # Absent /\ NewRow(op, t.fields[g]) # Absent
  BY <1>5, AbsentAssumption
<1>7. /\ Present(n.fields) = Present(s.fields) /\ n.fields[f] = NewRow(op, s.fields[f])
      /\ \A j \in Present(s.fields) : j # f => n.fields[j] = s.fields[j]
  <2>1. PICK row : row = NewRow(op, s.fields[f])
    OBVIOUS
  <2> QED
    BY <1>2, <1>6, <2>1 DEF Closed, Present
<1>8. /\ Present(m.fields) = Present(t.fields) /\ m.fields[g] = NewRow(op, t.fields[g])
      /\ \A j \in Present(t.fields) : j # g => m.fields[j] = t.fields[j]
  <2>1. PICK row : row = NewRow(op, t.fields[g])
    OBVIOUS
  <2> QED
    BY <1>2, <1>6, <2>1 DEF Closed, Present
<1>9. Maps(p, s, t)
  BY DEF Corresponds, TablesMatch
<1>10. Maps(p, n, m)
  BY <1>2, <1>7, <1>8, <1>9, SameKeys
<1>11. FieldsMatch(p, n, m)
  <2> SUFFICES ASSUME NEW h \in Present(s.fields)
               PROVE  m.fields[p[h]] = [n.fields[h] EXCEPT !.entity = p[@]]
    BY <1>7 DEF FieldsMatch
  <2>1. t.fields[p[h]] = [s.fields[h] EXCEPT !.entity = p[@]]
    BY DEF Corresponds, TablesMatch, FieldsMatch
  <2>2. CASE h = f
    <3>1. PICK d : d = p[s.fields[f].entity]
      OBVIOUS
    <3>2. NewRow(op, s.fields[f]).entity = s.fields[f].entity
      BY <1>2, <1>4 DEF NewRow
    <3>3. t.fields[g] = [s.fields[f] EXCEPT !.entity = d]
      BY <1>3, <2>1, <2>2, <3>1
    <3>4. m.fields[g] = [n.fields[f] EXCEPT !.entity = d]
      BY <1>2, <1>4, <1>7, <1>8, <3>3, NewRowUnder
    <3> QED
      BY <1>3, <1>7, <2>2, <3>1, <3>2, <3>4
  <2>3. CASE h # f
    <3>1. p[h] # g /\ p[h] \in Present(t.fields)
      BY <1>2, <1>3, <1>9, <2>3 DEF Maps, KeysOf
    <3> QED
      BY <1>7, <1>8, <2>1, <2>3, <3>1
  <2> QED
    BY <2>2, <2>3
<1>12. EntitiesMatch(p, n, m) /\ LinksMatch(p, n, m)
  BY <1>2 DEF Corresponds, TablesMatch, EntitiesMatch, LinksMatch
<1>13. AliasesMatch(p, n, m) /\ MadeMatch(p, n, m) /\ BaseStays(base, p, n)
  BY <1>2, SameNames DEF Corresponds
<1> QED
  BY <1>10, <1>11, <1>12, <1>13 DEF Corresponds, TablesMatch

Marked(link, archived, by) == [link EXCEPT !.archived = archived, !.archived_by = by]

LEMMA RowSet ==
    ASSUME NEW from, NEW to, NEW c, NEW d, NEW b, NEW e
    PROVE  Marked(LinkOf(from, to, c, d), b, e) = LinkOf(from, to, b, e)
<1>1. [LinkOf(from, to, c, d) EXCEPT !.archived = b] = LinkOf(from, to, b, d)
  BY DEF LinkOf
<1>2. [LinkOf(from, to, b, d) EXCEPT !.archived_by = e] = LinkOf(from, to, b, e)
  BY DEF LinkOf
<1> QED
  BY <1>1, <1>2, Zenon DEF Marked

LEMMA RowIsLink ==
    ASSUME NEW row \in LinkRow
    PROVE  row = LinkOf(row.from, row.to, row.archived, row.archived_by)
BY DEF LinkRow, LinkOf

LEMMA LinkOfUnder ==
    ASSUME NEW p, NEW from, NEW to, NEW c, NEW d
    PROVE  LinkUnder(p, LinkOf(from, to, c, d)) = LinkOf(p[from], p[to], c, Ren(p, d))
BY DEF LinkUnder, LinkOf

LEMMA LinkSet ==
    ASSUME NEW s, NEW n, Closed(s), NEW l \in Present(s.links), NEW op,
           n.links = SetArchived(s.links, l, Mark(op))
    PROVE  /\ Present(n.links) = Present(s.links)
           /\ n.links[l] = LinkOf(s.links[l].from, s.links[l].to, Mark(op), None)
           /\ \A k \in Present(s.links) : k # l => n.links[k] = s.links[k]
<1>1. s.links \in [LinkKeys -> LinkRow \cup {Absent}] /\ l \in LinkKeys /\ s.links[l] \in LinkRow
  BY DEF Closed, Present
<1>2. PICK from \in EntityKeys, to \in EntityKeys, c \in BOOLEAN, d \in EntityKeys \cup {None} :
          s.links[l] = LinkOf(from, to, c, d)
  BY <1>1 DEF LinkRow, LinkOf
<1> Mark(op) \in BOOLEAN
  BY DEF Mark, Yes, No
<1> DEFINE row == LinkOf(from, to, Mark(op), None)
<1>3. row \in LinkRow
  BY DEF LinkRow, LinkOf
<1>4. row # Absent
  BY <1>3, AbsentAssumption
<1>5. n.links[l] = row /\ s.links[l].from = from /\ s.links[l].to = to
  <2>1. n.links[l] = Marked(s.links[l], Mark(op), None)
    BY <1>1 DEF Marked, SetArchived
  <2>2. n.links[l] = row
    BY <1>2, <2>1, RowSet
  <2> QED
    BY <1>2, <2>2 DEF LinkOf
<1>6. DOMAIN n.links = LinkKeys /\ \A k \in LinkKeys : k # l => n.links[k] = s.links[k]
  BY <1>1 DEF SetArchived
<1>7. Present(n.links) = Present(s.links)
  <2> HIDE DEF row
  <2> QED
    BY <1>1, <1>4, <1>5, <1>6 DEF Present
<1>8. \A k \in Present(s.links) : k # l => n.links[k] = s.links[k]
  BY <1>1, <1>6 DEF Present
<1> QED
  BY <1>5, <1>7, <1>8

LEMMA SameLinkChange ==
    ASSUME NEW p, NEW s, NEW t, NEW n, NEW m, base \in Bases, Closed(s), Closed(t),
           Corresponds(base, p, s, t), NEW op \in Operations,
           DidChangeLink(s, op, None, n), DidChangeLink(t, op, None, m)
    PROVE  Corresponds(base, p, n, m)
<1>1. PICK f, g : f = Meant(s, "link", op.link) /\ g = Meant(t, "link", op.link)
  OBVIOUS
<1>3. /\ op.op \in {"archive_link", "restore_link"}
      /\ f \in Present(s.links) /\ g \in Present(t.links)
      /\ n.links = SetArchived(s.links, f, Mark(op))
      /\ m.links = SetArchived(t.links, g, Mark(op))
      /\ n.entities = s.entities /\ n.fields = s.fields
      /\ m.entities = t.entities /\ m.fields = t.fields
      /\ NamedNothing(s, n) /\ NamedNothing(t, m)
  BY <1>1 DEF DidChangeLink
<1>4. g = p[f]
  BY <1>1, <1>3, LinkNameMeans, OperationNames
<1>5. /\ Present(n.links) = Present(s.links)
      /\ n.links[f] = LinkOf(s.links[f].from, s.links[f].to, Mark(op), None)
      /\ \A k \in Present(s.links) : k # f => n.links[k] = s.links[k]
  BY <1>3, LinkSet
<1>6. /\ Present(m.links) = Present(t.links)
      /\ m.links[g] = LinkOf(t.links[g].from, t.links[g].to, Mark(op), None)
      /\ \A k \in Present(t.links) : k # g => m.links[k] = t.links[k]
  BY <1>3, LinkSet
<1>7. Maps(p, s, t)
  BY DEF Corresponds, TablesMatch
<1>8. Maps(p, n, m)
  BY <1>3, <1>5, <1>6, <1>7, SameKeys
<1>9. LinksMatch(p, n, m)
  <2> SUFFICES ASSUME NEW h \in Present(s.links)
               PROVE  m.links[p[h]] = LinkUnder(p, n.links[h])
    BY <1>5 DEF LinksMatch
  <2>1. t.links[p[h]] = LinkUnder(p, s.links[h])
    BY DEF Corresponds, TablesMatch, LinksMatch
  <2>2. CASE h = f
    <3>1. t.links[g].from = p[s.links[f].from] /\ t.links[g].to = p[s.links[f].to]
      BY <1>4, <2>1, <2>2 DEF LinkUnder, LinkOf
    <3>2. Ren(p, None) = None
      BY DEF Ren
    <3> QED
      BY <1>4, <1>5, <1>6, <2>2, <3>1, <3>2, LinkOfUnder
  <2>3. CASE h # f
    <3>1. p[h] # g /\ p[h] \in Present(t.links)
      BY <1>3, <1>4, <1>7, <2>3 DEF Maps, KeysOf
    <3> QED
      BY <1>5, <1>6, <2>1, <2>3, <3>1
  <2> QED
    BY <2>2, <2>3
<1>10. EntitiesMatch(p, n, m) /\ FieldsMatch(p, n, m)
  BY <1>3 DEF Corresponds, TablesMatch, EntitiesMatch, FieldsMatch
<1>11. AliasesMatch(p, n, m) /\ MadeMatch(p, n, m) /\ BaseStays(base, p, n)
  BY <1>3, SameNames DEF Corresponds
<1> QED
  BY <1>8, <1>9, <1>10, <1>11 DEF Corresponds, TablesMatch

-----------------------------------------------------------------------------

\* What archiving and restoring an entity type makes of one link
LEMMA CascadeRow ==
    ASSUME NEW L, NEW l \in LinkKeys, L[l] # Absent, L[l] \in LinkRow, NEW e
    PROVE  Cascade(L, e)[l] = IF ~L[l].archived /\ e \in Ends(L[l])
                              THEN LinkOf(L[l].from, L[l].to, Yes, e) ELSE L[l]
<1>1. Cascade(L, e)[l] = IF ~L[l].archived /\ e \in Ends(L[l]) THEN Marked(L[l], Yes, e) ELSE L[l]
  BY Zenon DEF Cascade, Marked, Yes
<1>2. Marked(L[l], Yes, e) = LinkOf(L[l].from, L[l].to, Yes, e)
  BY RowIsLink, RowSet
<1> QED
  BY <1>1, <1>2

Released(E, link, other) == IF E[other].archived
                            THEN LinkOf(link.from, link.to, link.archived, other)
                            ELSE LinkOf(link.from, link.to, No, None)

LEMMA UncascadeRow ==
    ASSUME NEW E, NEW L, NEW l \in LinkKeys, L[l] # Absent, L[l] \in LinkRow, NEW e
    PROVE  Uncascade(E, L, e)[l] = IF L[l].archived_by # e THEN L[l]
                                   ELSE Released(E, L[l], OtherEnd(L[l], e))
<1>1. PICK other : other = OtherEnd(L[l], e)
  OBVIOUS
<1>2. Uncascade(E, L, e)[l] =
        IF L[l].archived_by # e THEN L[l]
        ELSE IF E[other].archived THEN [L[l] EXCEPT !.archived_by = other]
             ELSE Marked(L[l], No, None)
  BY <1>1, Zenon DEF Uncascade, Marked, No
<1>3. Marked(L[l], No, None) = LinkOf(L[l].from, L[l].to, No, None)
  BY RowIsLink, RowSet
<1>4. [L[l] EXCEPT !.archived_by = other] = LinkOf(L[l].from, L[l].to, L[l].archived, other)
  BY DEF LinkOf, LinkRow
<1> QED
  BY <1>1, <1>2, <1>3, <1>4 DEF Released

\* A link and its image
LEMMA LinkThere ==
    ASSUME NEW p, NEW s, NEW t, Closed(s), Closed(t), TablesMatch(p, s, t),
           NEW l \in Present(s.links)
    PROVE  /\ l \in LinkKeys /\ s.links[l] # Absent /\ s.links[l] \in LinkRow
           /\ p[l] \in LinkKeys /\ t.links[p[l]] # Absent /\ t.links[p[l]] \in LinkRow
           /\ s.links[l].from \in Present(s.entities) /\ s.links[l].to \in Present(s.entities)
           /\ s.links[l].archived_by \in Present(s.entities) \cup {None}
           /\ t.links[p[l]].from = p[s.links[l].from] /\ t.links[p[l]].to = p[s.links[l].to]
           /\ t.links[p[l]].archived = s.links[l].archived
           /\ t.links[p[l]].archived_by = Ren(p, s.links[l].archived_by)
           /\ t.links[p[l]] = LinkUnder(p, s.links[l])
<1>1. t.links[p[l]] = LinkUnder(p, s.links[l])
  BY DEF TablesMatch, LinksMatch
<1>2. p[l] \in Present(t.links)
  BY DEF TablesMatch, Maps
<1>3. /\ t.links[p[l]].from = p[s.links[l].from] /\ t.links[p[l]].to = p[s.links[l].to]
      /\ t.links[p[l]].archived = s.links[l].archived
      /\ t.links[p[l]].archived_by = Ren(p, s.links[l].archived_by)
  BY <1>1 DEF LinkUnder, LinkOf
<1> QED
  BY <1>1, <1>2, <1>3 DEF Closed, Present

LEMMA SameEnds ==
    ASSUME NEW p, NEW s, NEW t, Closed(s), Closed(t), TablesMatch(p, s, t)
    PROVE  /\ \A x, y \in Present(s.entities) : p[x] = p[y] => x = y
           /\ \A x \in Present(s.entities) : x # None /\ Ren(p, x) = p[x] /\ p[x] # None
<1>1. \A x \in Present(s.entities) : x # None
  BY ClosedKeys DEF KeysOf
<1>2. \A x \in Present(t.entities) : x # None
  BY ClosedKeys DEF KeysOf
<1> QED
  BY <1>1, <1>2 DEF Ren, TablesMatch, Maps, KeysOf

\* The cascade of an archive, and its release, commute with the renaming.
LEMMA CascadeUnder ==
    ASSUME NEW p, NEW s, NEW t, Closed(s), Closed(t), TablesMatch(p, s, t),
           NEW e \in Present(s.entities), NEW l \in Present(s.links)
    PROVE  Cascade(t.links, p[e])[p[l]] = LinkUnder(p, Cascade(s.links, e)[l])
<1>1. PICK row, image : row = s.links[l] /\ image = t.links[p[l]]
  OBVIOUS
<1>2. /\ row.from \in Present(s.entities) /\ row.to \in Present(s.entities)
      /\ image.from = p[row.from] /\ image.to = p[row.to] /\ image.archived = row.archived
      /\ image = LinkUnder(p, row)
  BY <1>1, LinkThere
<1>3. (p[e] \in Ends(image)) <=> (e \in Ends(row))
  BY <1>2, SameEnds DEF Ends
<1>4. Cascade(s.links, e)[l] = IF ~row.archived /\ e \in Ends(row)
                               THEN LinkOf(row.from, row.to, Yes, e) ELSE row
  BY <1>1, LinkThere, CascadeRow
<1>5. Cascade(t.links, p[e])[p[l]] = IF ~image.archived /\ p[e] \in Ends(image)
                                     THEN LinkOf(image.from, image.to, Yes, p[e]) ELSE image
  BY <1>1, LinkThere, CascadeRow
<1>6. LinkUnder(p, LinkOf(row.from, row.to, Yes, e)) = LinkOf(image.from, image.to, Yes, p[e])
  BY <1>2, SameEnds, LinkOfUnder
<1> QED
  BY <1>2, <1>3, <1>4, <1>5, <1>6

SameTable(p, s, E, F) == \A x \in Present(s.entities) : F[p[x]] = E[x]

LEMMA UncascadeUnder ==
    ASSUME NEW p, NEW s, NEW t, Closed(s), Closed(t), TablesMatch(p, s, t),
           NEW e \in Present(s.entities), NEW l \in Present(s.links), NEW E, NEW F,
           SameTable(p, s, E, F)
    PROVE  Uncascade(F, t.links, p[e])[p[l]] = LinkUnder(p, Uncascade(E, s.links, e)[l])
<1>1. PICK row, image : row = s.links[l] /\ image = t.links[p[l]]
  OBVIOUS
<1>2. /\ row.from \in Present(s.entities) /\ row.to \in Present(s.entities)
      /\ row.archived_by \in Present(s.entities) \cup {None}
      /\ image.from = p[row.from] /\ image.to = p[row.to] /\ image.archived = row.archived
      /\ image.archived_by = Ren(p, row.archived_by)
      /\ image = LinkUnder(p, row)
  BY <1>1, LinkThere
<1>3. PICK o : o = OtherEnd(row, e)
  OBVIOUS
<1>4. o \in Present(s.entities) /\ OtherEnd(image, p[e]) = p[o]
  BY <1>2, <1>3, SameEnds DEF OtherEnd
<1>5. (image.archived_by = p[e]) <=> (row.archived_by = e)
  <2>1. CASE row.archived_by = None
    BY <1>2, <2>1, SameEnds DEF Ren
  <2>2. CASE row.archived_by \in Present(s.entities)
    BY <1>2, <2>2, SameEnds
  <2> QED
    BY <1>2, <2>1, <2>2
<1>6. Uncascade(E, s.links, e)[l] = IF row.archived_by # e THEN row ELSE Released(E, row, o)
  BY <1>1, <1>3, LinkThere, UncascadeRow
<1>7. Uncascade(F, t.links, p[e])[p[l]] =
        IF image.archived_by # p[e] THEN image ELSE Released(F, image, p[o])
  BY <1>1, <1>4, LinkThere, UncascadeRow
<1>8. F[p[o]] = E[o]
  BY <1>4 DEF SameTable
<1>9. /\ LinkUnder(p, LinkOf(row.from, row.to, row.archived, o))
            = LinkOf(image.from, image.to, image.archived, p[o])
      /\ LinkUnder(p, LinkOf(row.from, row.to, No, None)) = LinkOf(image.from, image.to, No, None)
  BY <1>2, <1>4, SameEnds, LinkOfUnder DEF Ren
<1>10. Released(F, image, p[o]) = LinkUnder(p, Released(E, row, o))
  BY <1>8, <1>9 DEF Released
<1> QED
  BY <1>2, <1>5, <1>6, <1>7, <1>10

LEMMA LinkOfType ==
    ASSUME NEW from \in EntityKeys, NEW to \in EntityKeys, NEW c, c \in BOOLEAN,
           NEW d \in EntityKeys \cup {None}
    PROVE  LinkOf(from, to, c, d) \in LinkRow /\ LinkOf(from, to, c, d) # Absent
<1>1. LinkOf(from, to, c, d) \in LinkRow
  BY DEF LinkOf, LinkRow
<1> QED
  BY <1>1, AbsentAssumption

LEMMA MarksAreBoolean == Yes \in BOOLEAN /\ No \in BOOLEAN
BY DEF Yes, No

LEMMA CascadeKeepsLinks ==
    ASSUME NEW s, Closed(s), NEW e \in Present(s.entities)
    PROVE  Present(Cascade(s.links, e)) = Present(s.links)
<1>1. e \in EntityKeys
  BY ClosedKeys
<1>2. DOMAIN Cascade(s.links, e) = LinkKeys /\ DOMAIN s.links = LinkKeys
  BY DEF Cascade, Closed
<1>3. ASSUME NEW l \in LinkKeys, s.links[l] = Absent
      PROVE  Cascade(s.links, e)[l] = Absent
  BY <1>3 DEF Cascade
<1>4. ASSUME NEW l \in LinkKeys, s.links[l] # Absent
      PROVE  Cascade(s.links, e)[l] # Absent
  <2>1. s.links[l] \in LinkRow
    BY <1>4 DEF Closed
  <2>2. s.links[l].from \in EntityKeys /\ s.links[l].to \in EntityKeys
    BY <2>1 DEF LinkRow
  <2> QED
    BY <1>1, <1>4, <2>1, <2>2, CascadeRow, LinkOfType, MarksAreBoolean
<1> QED
  BY <1>2, <1>3, <1>4 DEF Present

LEMMA UncascadeKeepsLinks ==
    ASSUME NEW s, Closed(s), NEW e, NEW E
    PROVE  Present(Uncascade(E, s.links, e)) = Present(s.links)
<1>2. DOMAIN Uncascade(E, s.links, e) = LinkKeys /\ DOMAIN s.links = LinkKeys
  BY DEF Uncascade, Closed
<1>3. ASSUME NEW l \in LinkKeys, s.links[l] = Absent
      PROVE  Uncascade(E, s.links, e)[l] = Absent
  BY <1>3 DEF Uncascade
<1>4. ASSUME NEW l \in LinkKeys, s.links[l] # Absent
      PROVE  Uncascade(E, s.links, e)[l] # Absent
  <2>1. s.links[l] \in LinkRow
    BY <1>4 DEF Closed
  <2>2. /\ s.links[l].from \in EntityKeys /\ s.links[l].to \in EntityKeys
        /\ s.links[l].archived \in BOOLEAN
    BY <2>1 DEF LinkRow
  <2>3. PICK o \in EntityKeys : o = OtherEnd(s.links[l], e)
    BY <2>2 DEF OtherEnd
  <2>4. Released(E, s.links[l], o) # Absent
    BY <2>2, LinkOfType, MarksAreBoolean DEF Released
  <2> QED
    BY <1>4, <2>1, <2>3, <2>4, UncascadeRow
<1> QED
  BY <1>2, <1>3, <1>4 DEF Present

\* An entity type after an operation on it
Changed(op, row) ==
    CASE op.op = "update_entity_type" -> [row EXCEPT !.label = op.label]
      [] op.op = "archive_entity_type" -> [row EXCEPT !.archived = TRUE]
      [] op.op = "restore_entity_type" -> [row EXCEPT !.archived = FALSE]

LEMMA EntityChanged ==
    ASSUME NEW s, NEW n, Closed(s), NEW op \in Operations, DidChangeEntity(s, op, None, n),
           NEW e, e = Meant(s, "entity", op.entity)
    PROVE  /\ e \in Present(s.entities) /\ Present(n.entities) = Present(s.entities)
           /\ n.entities[e] = Changed(op, s.entities[e])
           /\ \A d \in Present(s.entities) : d # e => n.entities[d] = s.entities[d]
           /\ Present(n.links) = Present(s.links)
           /\ n.fields = s.fields /\ NamedNothing(s, n)
<1>1. e \in Present(s.entities) /\ n.fields = s.fields /\ NamedNothing(s, n)
  BY DEF DidChangeEntity
<1>2. e \in EntityKeys /\ s.entities[e] \in EntityRow
  BY <1>1 DEF Closed, Present
<1>3. n.entities = [s.entities EXCEPT ![e] = Changed(op, s.entities[e])]
  <2>1. CASE op.op = "update_entity_type"
    BY <2>1 DEF DidChangeEntity, Changed
  <2>2. CASE op.op = "archive_entity_type"
    BY <2>2 DEF DidChangeEntity, Changed, Archive
  <2>3. CASE op.op = "restore_entity_type"
    BY <2>3 DEF DidChangeEntity, Changed, Restore
  <2> QED
    BY <2>1, <2>2, <2>3 DEF DidChangeEntity
<1>4. Changed(op, s.entities[e]) \in EntityRow
  <2>1. CASE op.op = "update_entity_type"
    <3>1. op.label \in Labels
      BY <2>1, OperationNames
    <3> QED
      BY <1>2, <2>1, <3>1 DEF Changed, EntityRow
  <2>2. CASE op.op = "archive_entity_type"
    BY <1>2, <2>2 DEF Changed, EntityRow
  <2>3. CASE op.op = "restore_entity_type"
    BY <1>2, <2>3 DEF Changed, EntityRow
  <2> QED
    BY <2>1, <2>2, <2>3 DEF DidChangeEntity
<1>5. PICK row : row = Changed(op, s.entities[e])
  OBVIOUS
<1>6. row # Absent
  BY <1>4, <1>5, AbsentAssumption
<1>7. /\ Present(n.entities) = Present(s.entities) /\ n.entities[e] = row
      /\ \A d \in Present(s.entities) : d # e => n.entities[d] = s.entities[d]
  BY <1>1, <1>2, <1>3, <1>5, <1>6 DEF Closed, Present
<1>8. Present(n.links) = Present(s.links)
  BY <1>1, CascadeKeepsLinks, UncascadeKeepsLinks DEF DidChangeEntity
<1> QED
  BY <1>1, <1>5, <1>7, <1>8

LEMMA SameEntityChange ==
    ASSUME NEW p, NEW s, NEW t, NEW n, NEW m, base \in Bases, Closed(s), Closed(t),
           Corresponds(base, p, s, t), NEW op \in Operations,
           DidChangeEntity(s, op, None, n), DidChangeEntity(t, op, None, m)
    PROVE  Corresponds(base, p, n, m)
<1>1. PICK e, g : e = Meant(s, "entity", op.entity) /\ g = Meant(t, "entity", op.entity)
  OBVIOUS
<1>2. /\ e \in Present(s.entities) /\ Present(n.entities) = Present(s.entities)
      /\ n.entities[e] = Changed(op, s.entities[e])
      /\ \A d \in Present(s.entities) : d # e => n.entities[d] = s.entities[d]
      /\ Present(n.links) = Present(s.links)
      /\ n.fields = s.fields /\ NamedNothing(s, n)
  BY <1>1, EntityChanged
<1>3. /\ g \in Present(t.entities) /\ Present(m.entities) = Present(t.entities)
      /\ m.entities[g] = Changed(op, t.entities[g])
      /\ \A d \in Present(t.entities) : d # g => m.entities[d] = t.entities[d]
      /\ Present(m.links) = Present(t.links)
      /\ m.fields = t.fields /\ NamedNothing(t, m)
  BY <1>1, EntityChanged
<1>4. op.op \in {"update_entity_type", "archive_entity_type", "restore_entity_type"}
  BY DEF DidChangeEntity
<1>5. g = p[e]
  BY <1>1, <1>2, <1>4, EntityNameMeans, OperationNames
<1>6. TablesMatch(p, s, t) /\ Maps(p, s, t)
  BY DEF Corresponds, TablesMatch
<1>7. Maps(p, n, m)
  BY <1>2, <1>3, <1>6, SameKeys
<1>8. SameTable(p, s, n.entities, m.entities)
  <2> SUFFICES ASSUME NEW d \in Present(s.entities)
               PROVE  m.entities[p[d]] = n.entities[d]
    BY DEF SameTable
  <2>1. t.entities[p[d]] = s.entities[d] /\ p[d] \in Present(t.entities)
    BY <1>6 DEF TablesMatch, EntitiesMatch, Maps
  <2>2. d # e => p[d] # g
    BY <1>2, <1>5, <1>6, SameEnds
  <2> QED
    BY <1>2, <1>3, <1>5, <2>1, <2>2
<1>9. EntitiesMatch(p, n, m)
  BY <1>2, <1>8 DEF EntitiesMatch, SameTable
<1>10. FieldsMatch(p, n, m)
  BY <1>2, <1>3, <1>6 DEF TablesMatch, FieldsMatch
<1>11. LinksMatch(p, n, m)
  <2> SUFFICES ASSUME NEW l \in Present(s.links)
               PROVE  m.links[p[l]] = LinkUnder(p, n.links[l])
    BY <1>2 DEF LinksMatch
  <2>1. CASE op.op = "update_entity_type"
    BY <1>6, <2>1 DEF DidChangeEntity, TablesMatch, LinksMatch
  <2>2. CASE op.op = "archive_entity_type"
    <3>1. n.links = Cascade(s.links, e) /\ m.links = Cascade(t.links, g)
      BY <1>1, <2>2 DEF DidChangeEntity
    <3> QED
      BY <1>2, <1>5, <1>6, <3>1, CascadeUnder
  <2>3. CASE op.op = "restore_entity_type"
    <3>1. n.links = Uncascade(n.entities, s.links, e) /\ m.links = Uncascade(m.entities, t.links, g)
      BY <1>1, <2>3 DEF DidChangeEntity
    <3> QED
      BY <1>2, <1>5, <1>6, <1>8, <3>1, UncascadeUnder
  <2> QED
    BY <1>4, <2>1, <2>2, <2>3
<1>12. AliasesMatch(p, n, m) /\ MadeMatch(p, n, m) /\ BaseStays(base, p, n)
  BY <1>2, <1>3, SameNames DEF Corresponds
<1> QED
  BY <1>7, <1>9, <1>10, <1>11, <1>12 DEF Corresponds, TablesMatch

\* The same operation does the same to two definitions that differ in their keys.
LEMMA SameStep ==
    ASSUME NEW p, NEW s, NEW t, NEW n, NEW m, base \in Bases, Closed(s), Closed(t),
           Corresponds(base, p, s, t), NEW op \in Operations, NEW j, NEW k,
           Did(s, op, j, n), Did(t, op, k, m)
    PROVE  \E q : Corresponds(base, q, n, m)
<1>1. CASE op.op \in {"create_entity_type", "add_field", "add_link"}
  <2>1. \/ DidCreateEntity(s, op, j, n) /\ DidCreateEntity(t, op, k, m)
        \/ DidAddField(s, op, j, n) /\ DidAddField(t, op, k, m)
        \/ DidAddLink(s, op, j, n) /\ DidAddLink(t, op, k, m)
    BY <1>1 DEF Did, DidCreateEntity, DidAddField, DidAddLink, DidChangeEntity, DidChangeField,
                DidChangeLink
  <2> QED
    BY <2>1, SameCreation
<1>2. CASE op.op \in {"update_entity_type", "archive_entity_type", "restore_entity_type"}
  <2>1. DidChangeEntity(s, op, None, n) /\ DidChangeEntity(t, op, None, m)
    BY <1>2 DEF Did, DidCreateEntity, DidAddField, DidAddLink, DidChangeEntity, DidChangeField,
                DidChangeLink
  <2> QED
    BY <2>1, SameEntityChange
<1>3. CASE op.op \in {"update_field", "change_field_type", "archive_field", "restore_field"}
  <2>1. DidChangeField(s, op, None, n) /\ DidChangeField(t, op, None, m)
    BY <1>3 DEF Did, DidCreateEntity, DidAddField, DidAddLink, DidChangeEntity, DidChangeField,
                DidChangeLink
  <2> QED
    BY <2>1, SameFieldChange
<1>4. CASE op.op \in {"archive_link", "restore_link"}
  <2>1. DidChangeLink(s, op, None, n) /\ DidChangeLink(t, op, None, m)
    BY <1>4 DEF Did, DidCreateEntity, DidAddField, DidAddLink, DidChangeEntity, DidChangeField,
                DidChangeLink
  <2> QED
    BY <2>1, SameLinkChange
<1> QED
  BY <1>1, <1>2, <1>3, <1>4 DEF Did, DidCreateEntity, DidAddField, DidAddLink, DidChangeEntity,
                                DidChangeField, DidChangeLink

-----------------------------------------------------------------------------
(* What is accepted on one side of a renaming is accepted on the other.      *)

\* The guards do not look at keys.
LEMMA LivesUnder ==
    ASSUME NEW p, NEW s, NEW t, TablesMatch(p, s, t), NEW e, Lives(s, e)
    PROVE  Lives(t, p[e])
BY DEF TablesMatch, Maps, EntitiesMatch, Lives

LEMMA RefStaysFree ==
    ASSUME NEW p, NEW s, NEW t, AliasesMatch(p, s, t), NEW kind \in Kinds, NEW ref,
           RefIsFree(s, kind, ref)
    PROVE  RefIsFree(t, kind, ref)
BY DEF AliasesMatch, RefIsFree

LEMMA AsksUnder ==
    ASSUME NEW p, NEW s, NEW t, NEW n, base \in Bases, Closed(s), Closed(t),
           Corresponds(base, p, s, t), NEW op \in Operations, NEW j, Did(s, op, j, n), Asks(s, op)
    PROVE  Asks(t, op)
<1>1. TablesMatch(p, s, t) /\ AliasesMatch(p, s, t)
  BY DEF Corresponds
<1>2. CASE op.op = "create_entity_type"
  <2>1. RefIsFree(t, "entity", op.ref)
    BY <1>1, <1>2, RefStaysFree DEF Asks, Kinds
  <2> QED
    BY <1>2, <2>1 DEF Asks
<1>3. CASE op.op = "add_field"
  <2>1. RefIsFree(t, "field", op.ref)
    BY <1>1, <1>3, RefStaysFree DEF Asks, Kinds
  <2>2. PICK e : e = Meant(s, "entity", op.entity)
    OBVIOUS
  <2>3. Lives(s, e) /\ e \in Present(s.entities) /\ op.entity \in EntityNames
    BY <1>3, <2>2, OperationNames DEF Asks, Lives
  <2>4. Meant(t, "entity", op.entity) = p[e]
    BY <2>2, <2>3, EntityNameMeans
  <2>5. Lives(t, p[e])
    BY <1>1, <2>3, LivesUnder
  <2> QED
    BY <1>3, <2>1, <2>4, <2>5 DEF Asks
<1>4. CASE op.op = "add_link"
  <2>1. RefIsFree(t, "link", op.ref)
    BY <1>1, <1>4, RefStaysFree DEF Asks, Kinds
  <2>2. PICK d, e : d = Meant(s, "entity", op.from) /\ e = Meant(s, "entity", op.to)
    OBVIOUS
  <2>3. /\ Lives(s, d) /\ d \in Present(s.entities) /\ op.from \in EntityNames
        /\ Lives(s, e) /\ e \in Present(s.entities) /\ op.to \in EntityNames
    BY <1>4, <2>2, OperationNames DEF Asks, Lives
  <2>4. Meant(t, "entity", op.from) = p[d] /\ Meant(t, "entity", op.to) = p[e]
    BY <2>2, <2>3, EntityNameMeans
  <2>5. Lives(t, p[d]) /\ Lives(t, p[e])
    BY <1>1, <2>3, LivesUnder
  <2> QED
    BY <1>4, <2>1, <2>4, <2>5 DEF Asks
<1>5. CASE op.op \in {"update_entity_type", "archive_entity_type", "restore_entity_type"}
  <2>1. PICK e : e = Meant(s, "entity", op.entity)
    OBVIOUS
  <2>2. e \in Present(s.entities) /\ op.entity \in EntityNames
    BY <1>5, <2>1, OperationNames
       DEF Did, DidCreateEntity, DidAddField, DidAddLink, DidChangeEntity, DidChangeField,
           DidChangeLink
  <2>3. Meant(t, "entity", op.entity) = p[e]
    BY <2>1, <2>2, EntityNameMeans
  <2>4. t.entities[p[e]] = s.entities[e]
    BY <1>1, <2>2 DEF TablesMatch, EntitiesMatch
  <2>5. Lives(s, e) => Lives(t, p[e])
    BY <1>1, LivesUnder
  <2> QED
    BY <1>5, <2>1, <2>3, <2>4, <2>5 DEF Asks
<1>6. CASE op.op \in {"update_field", "change_field_type", "archive_field", "restore_field"}
  <2>1. PICK f : f = Meant(s, "field", op.field)
    OBVIOUS
  <2>2. PICK row, image : row = s.fields[f] /\ image = t.fields[p[f]]
    OBVIOUS
  <2>3. f \in Present(s.fields) /\ op.field \in FieldNames
    BY <1>6, <2>1, OperationNames
       DEF Did, DidCreateEntity, DidAddField, DidAddLink, DidChangeEntity, DidChangeField,
           DidChangeLink
  <2>4. Meant(t, "field", op.field) = p[f]
    BY <2>1, <2>3, FieldNameMeans
  <2>5. Lives(s, row.entity) /\ row.entity = Meant(s, "entity", op.entity) /\ FieldGuard(op, row)
    BY <1>6, <2>1, <2>2 DEF Asks
  <2>6. op.entity \in EntityNames
    BY <1>6 DEF Operations
  <2>7. Meant(t, "entity", op.entity) = p[row.entity]
    BY <2>5, <2>6, EntityNameMeans DEF Lives
  <2>8. image = [row EXCEPT !.entity = p[@]] /\ row \in FieldRow
    BY <1>1, <2>2, <2>3 DEF TablesMatch, FieldsMatch, Closed, Present
  <2>9. image.entity = p[row.entity] /\ image.archived = row.archived /\ image.type = row.type
    BY <2>8 DEF FieldRow
  <2>10. Lives(t, image.entity) /\ FieldGuard(op, image)
    BY <1>1, <2>5, <2>9, LivesUnder DEF FieldGuard
  <2> QED
    BY <1>6, <2>2, <2>4, <2>7, <2>9, <2>10 DEF Asks
<1>7. CASE op.op \in {"archive_link", "restore_link"}
  <2>1. PICK l : l = Meant(s, "link", op.link)
    OBVIOUS
  <2>2. l \in Present(s.links) /\ op.link \in LinkNames
    BY <1>7, <2>1, OperationNames
       DEF Did, DidCreateEntity, DidAddField, DidAddLink, DidChangeEntity, DidChangeField,
           DidChangeLink
  <2>3. Meant(t, "link", op.link) = p[l]
    BY <2>1, <2>2, LinkNameMeans
  <2>4. t.links[p[l]].archived = s.links[l].archived
    BY <1>1, <2>2, LinkThere
  <2> QED
    BY <1>7, <2>1, <2>3, <2>4 DEF Asks
<1> QED
  BY <1>2, <1>3, <1>4, <1>5, <1>6, <1>7
     DEF Did, DidCreateEntity, DidAddField, DidAddLink, DidChangeEntity, DidChangeField,
         DidChangeLink

\* The validator does not look at keys.
LEMMA ValidUnder ==
    ASSUME NEW p, NEW s, NEW t, Closed(s), TablesMatch(p, s, t),
           IsValid(s.entities, s.fields, s.links)
    PROVE  IsValid(t.entities, t.fields, t.links)
<1>1. LabelsUnique(t.entities, Present(t.entities))
  <2> SUFFICES ASSUME NEW d \in Present(t.entities), NEW e \in Present(t.entities),
                      Norm[t.entities[d].label] = Norm[t.entities[e].label]
               PROVE  d = e
    BY DEF LabelsUnique
  <2>1. PICK d0 \in Present(s.entities), e0 \in Present(s.entities) : p[d0] = d /\ p[e0] = e
    BY DEF TablesMatch, Maps
  <2>2. t.entities[d] = s.entities[d0] /\ t.entities[e] = s.entities[e0]
    BY <2>1 DEF TablesMatch, EntitiesMatch
  <2>3. d0 = e0
    BY <2>2 DEF IsValid, LabelsUnique
  <2> QED
    BY <2>1, <2>3
<1>2. ASSUME NEW f \in Present(t.fields)
      PROVE  \E g \in Present(s.fields) :
                /\ p[g] = f /\ s.fields[g] \in FieldRow
                /\ s.fields[g].entity \in Present(s.entities)
                /\ t.fields[f] = [s.fields[g] EXCEPT !.entity = p[@]]
                /\ t.fields[f].entity = p[s.fields[g].entity]
                /\ t.fields[f].label = s.fields[g].label
                /\ t.fields[f].type = s.fields[g].type
                /\ t.fields[f].options = s.fields[g].options
  <2>1. PICK g \in Present(s.fields) : p[g] = f
    BY DEF TablesMatch, Maps
  <2>2. PICK row : row = s.fields[g]
    OBVIOUS
  <2>3. row \in FieldRow /\ row.entity \in Present(s.entities)
    BY <2>2 DEF Closed, Present
  <2>4. t.fields[f] = [row EXCEPT !.entity = p[@]]
    BY <2>1, <2>2 DEF TablesMatch, FieldsMatch
  <2>5. /\ t.fields[f].entity = p[row.entity] /\ t.fields[f].label = row.label
        /\ t.fields[f].type = row.type /\ t.fields[f].options = row.options
    BY <2>3, <2>4 DEF FieldRow
  <2> QED
    BY <2>1, <2>2, <2>3, <2>4, <2>5
<1>3. ASSUME NEW e \in Present(t.entities)
      PROVE  LabelsUnique(t.fields, {f \in Present(t.fields) : t.fields[f].entity = e})
  <2> SUFFICES ASSUME NEW f \in Present(t.fields), NEW g \in Present(t.fields),
                      t.fields[f].entity = e, t.fields[g].entity = e,
                      Norm[t.fields[f].label] = Norm[t.fields[g].label]
               PROVE  f = g
    BY DEF LabelsUnique
  <2>1. PICK f0 \in Present(s.fields) :
          /\ p[f0] = f /\ s.fields[f0].entity \in Present(s.entities)
          /\ t.fields[f].entity = p[s.fields[f0].entity] /\ t.fields[f].label = s.fields[f0].label
    BY <1>2
  <2>2. PICK g0 \in Present(s.fields) :
          /\ p[g0] = g /\ s.fields[g0].entity \in Present(s.entities)
          /\ t.fields[g].entity = p[s.fields[g0].entity] /\ t.fields[g].label = s.fields[g0].label
    BY <1>2
  <2>3. s.fields[f0].entity = s.fields[g0].entity
    BY <2>1, <2>2 DEF TablesMatch, Maps, KeysOf
  <2>4. f0 = g0
    BY <2>1, <2>2, <2>3 DEF IsValid, LabelsUnique
  <2> QED
    BY <2>1, <2>2, <2>4
<1>4. ASSUME NEW f \in Present(t.fields)
      PROVE  OptionsFit(t.fields[f])
  <2>1. PICK g \in Present(s.fields) : /\ t.fields[f].type = s.fields[g].type
                                      /\ t.fields[f].options = s.fields[g].options
    BY <1>2
  <2>2. OptionsFit(s.fields[g])
    BY DEF IsValid
  <2> QED
    BY <2>1, <2>2 DEF OptionsFit
<1>5. ASSUME NEW k \in Present(t.links)
      PROVE  LinkIsValid(t.entities, t.links[k])
  <2>1. PICK l \in Present(s.links) : p[l] = k
    BY DEF TablesMatch, Maps
  <2>2. PICK row, image : row = s.links[l] /\ image = t.links[k]
    OBVIOUS
  <2>3. image = LinkUnder(p, row)
    BY <2>1, <2>2 DEF TablesMatch, LinksMatch
  <2>4. /\ image.from = p[row.from] /\ image.to = p[row.to] /\ image.archived = row.archived
        /\ image.archived_by = Ren(p, row.archived_by)
    BY <2>3 DEF LinkUnder, LinkOf
  <2>5. LinkIsValid(s.entities, row)
    BY <2>2 DEF IsValid
  <2>6. ASSUME NEW e \in Ends(image)
        PROVE  t.entities[e] # Absent /\ (t.entities[e].archived => image.archived)
    <3>1. PICK d \in Ends(row) : e = p[d]
      BY <2>4 DEF Ends
    <3>2. d \in Present(s.entities)
      BY <2>2 DEF Ends, Closed
    <3>3. t.entities[e] = s.entities[d] /\ s.entities[d] # Absent
      BY <3>1, <3>2 DEF TablesMatch, EntitiesMatch, Present
    <3> QED
      BY <2>4, <2>5, <3>3 DEF LinkIsValid
  <2>7. image.archived_by # None => image.archived /\ image.archived_by \in Ends(image)
    BY <2>4, <2>5 DEF LinkIsValid, Ends, Ren
  <2> QED
    BY <2>2, <2>6, <2>7 DEF LinkIsValid
<1> QED
  BY <1>1, <1>3, <1>4, <1>5 DEF IsValid

\* Where a key is unused on one side of a renaming, one is unused on the other.
LEMMA FreshKey ==
    ASSUME NEW K, IsFiniteSet(K), NEW A \in SUBSET K, NEW B \in SUBSET K, NEW p,
           \A y \in B : \E x \in A : p[x] = y, NEW j \in K, j \notin A
    PROVE  \E k \in K : k \notin B
<1> DEFINE C == {x \in A : p[x] \in B}
           f == [x \in C |-> p[x]]
<1>1. IsFiniteSet(C) /\ IsFiniteSet(K \ {j}) /\ C \in SUBSET (K \ {j})
  BY FS_Subset, FS_RemoveElement
<1>2. f \in Surjection(C, B)
  <2>1. f \in [C -> B]
    OBVIOUS
  <2>2. \A y \in B : \E x \in C : f[x] = y
    OBVIOUS
  <2> QED
    BY <2>1, <2>2 DEF Surjection
<1>3. Cardinality(B) <= Cardinality(C)
  BY <1>1, <1>2, FS_Surjection
<1>4. Cardinality(C) <= Cardinality(K \ {j})
  BY <1>1, FS_Subset
<1>5. Cardinality(K \ {j}) = Cardinality(K) - 1 /\ Cardinality(K) \in Nat
  BY FS_RemoveElement, FS_CardinalityType
<1>6. Cardinality(B) \in Nat /\ Cardinality(C) \in Nat
  BY <1>1, FS_Subset, FS_CardinalityType
<1>7. B # K
  BY <1>3, <1>4, <1>5, <1>6
<1> QED
  BY <1>7

\* The same for the keys of each kind
LEMMA FreshEntity ==
    ASSUME NEW p, NEW s, NEW t, Closed(s), Closed(t), TablesMatch(p, s, t),
           NEW j \in EntityKeys, s.entities[j] = Absent
    PROVE  \E k \in EntityKeys : t.entities[k] = Absent
<1>1. PICK K, A, B : K = EntityKeys /\ A = Present(s.entities) /\ B = Present(t.entities)
  OBVIOUS
<1>2. /\ IsFiniteSet(K) /\ A \in SUBSET K /\ B \in SUBSET K /\ j \in K /\ j \notin A
      /\ \A y \in B : \E x \in A : p[x] = y
  BY <1>1, ClosedKeys, BatchAssumption DEF TablesMatch, Maps, Present
<1>3. \E k \in K : k \notin B
  BY <1>2, FreshKey
<1> QED
  BY <1>1, <1>3 DEF Present, Closed

LEMMA FreshField ==
    ASSUME NEW p, NEW s, NEW t, Closed(s), Closed(t), TablesMatch(p, s, t),
           NEW j \in FieldKeys, s.fields[j] = Absent
    PROVE  \E k \in FieldKeys : t.fields[k] = Absent
<1>1. PICK K, A, B : K = FieldKeys /\ A = Present(s.fields) /\ B = Present(t.fields)
  OBVIOUS
<1>2. /\ IsFiniteSet(K) /\ A \in SUBSET K /\ B \in SUBSET K /\ j \in K /\ j \notin A
      /\ \A y \in B : \E x \in A : p[x] = y
  BY <1>1, ClosedKeys, BatchAssumption DEF TablesMatch, Maps, Present
<1>3. \E k \in K : k \notin B
  BY <1>2, FreshKey
<1> QED
  BY <1>1, <1>3 DEF Present, Closed

LEMMA FreshLink ==
    ASSUME NEW p, NEW s, NEW t, Closed(s), Closed(t), TablesMatch(p, s, t),
           NEW j \in LinkKeys, s.links[j] = Absent
    PROVE  \E k \in LinkKeys : t.links[k] = Absent
<1>1. PICK K, A, B : K = LinkKeys /\ A = Present(s.links) /\ B = Present(t.links)
  OBVIOUS
<1>2. /\ IsFiniteSet(K) /\ A \in SUBSET K /\ B \in SUBSET K /\ j \in K /\ j \notin A
      /\ \A y \in B : \E x \in A : p[x] = y
  BY <1>1, ClosedKeys, BatchAssumption DEF TablesMatch, Maps, Present
<1>3. \E k \in K : k \notin B
  BY <1>2, FreshKey
<1> QED
  BY <1>1, <1>3 DEF Present, Closed

\* A value made of its five parts
Whole(E, F, L, A, M) == [entities |-> E, fields |-> F, links |-> L, aliases |-> A, made |-> M]

LEMMA WholeParts ==
    ASSUME NEW E, NEW F, NEW L, NEW A, NEW M, NEW n, n = Whole(E, F, L, A, M)
    PROVE  n.entities = E /\ n.fields = F /\ n.links = L /\ n.aliases = A /\ n.made = M
BY DEF Whole

\* There is a result for every operation of the other side.
LEMMA CanFollow ==
    ASSUME NEW p, NEW s, NEW t, NEW n, base \in Bases, Closed(s), Closed(t),
           Corresponds(base, p, s, t), NEW op \in Operations, NEW j, Did(s, op, j, n)
    PROVE  \E k \in AllKeys \cup {None} : \E E, F, L, A, M : Did(t, op, k, Whole(E, F, L, A, M))
<1>1. TablesMatch(p, s, t)
  BY DEF Corresponds
<1>2. \A kind, ref, k : \E A, M : \A E, F, L : Named(t, kind, ref, k, Whole(E, F, L, A, M))
  <2> SUFFICES ASSUME NEW kind, NEW ref, NEW k
               PROVE  \E A, M : \A E, F, L : Named(t, kind, ref, k, Whole(E, F, L, A, M))
    OBVIOUS
  <2>1. PICK A : A = IF ref = None THEN t.aliases
                     ELSE [t.aliases EXCEPT ![kind] =
                             [r \in DOMAIN @ \cup {ref} |-> IF r = ref THEN k ELSE @[r]]]
    OBVIOUS
  <2>2. PICK M : M = Append(t.made, k)
    OBVIOUS
  <2>3. ASSUME NEW E, NEW F, NEW L
        PROVE  Named(t, kind, ref, k, Whole(E, F, L, A, M))
    <3>1. PICK m : m = Whole(E, F, L, A, M)
      OBVIOUS
    <3>2. m.aliases = A /\ m.made = M
      BY <3>1, WholeParts
    <3>3. Named(t, kind, ref, k, m)
      BY <2>1, <2>2, <3>2, Zenon DEF Named
    <3> QED
      BY <3>1, <3>3
  <2> QED
    BY <2>3
<1>3. \E A, M : \A E, F, L : NamedNothing(t, Whole(E, F, L, A, M))
  <2>1. PICK A, M : A = t.aliases /\ M = Append(t.made, None)
    OBVIOUS
  <2>2. ASSUME NEW E, NEW F, NEW L
        PROVE  NamedNothing(t, Whole(E, F, L, A, M))
    <3>1. PICK m : m = Whole(E, F, L, A, M)
      OBVIOUS
    <3>2. m.aliases = A /\ m.made = M
      BY <3>1, WholeParts
    <3> QED
      BY <2>1, <3>1, <3>2 DEF NamedNothing
  <2> QED
    BY <2>2
<1>4. CASE DidCreateEntity(s, op, j, n)
  <2>1. PICK k \in EntityKeys : t.entities[k] = Absent
    BY <1>1, <1>4, FreshEntity DEF DidCreateEntity
  <2>2. PICK A, M : \A E, F, L : Named(t, "entity", op.ref, k, Whole(E, F, L, A, M))
    BY <1>2
  <2>3. PICK E : E = [t.entities EXCEPT ![k] = NewEntity(op)]
    OBVIOUS
  <2>4. PICK m : m = Whole(E, t.fields, t.links, A, M)
    OBVIOUS
  <2>5. m.entities = E /\ m.fields = t.fields /\ m.links = t.links
    BY <2>4, WholeParts
  <2>6. Named(t, "entity", op.ref, k, m)
    BY <2>2, <2>4
  <2>7. DidCreateEntity(t, op, k, m)
    BY <1>4, <2>1, <2>3, <2>5, <2>6 DEF DidCreateEntity
  <2> QED
    BY <2>4, <2>7 DEF Did, AllKeys
<1>5. CASE DidAddField(s, op, j, n)
  <2>1. PICK k \in FieldKeys : t.fields[k] = Absent
    BY <1>1, <1>5, FreshField DEF DidAddField
  <2>2. PICK A, M : \A E, F, L : Named(t, "field", op.ref, k, Whole(E, F, L, A, M))
    BY <1>2
  <2>3. PICK F : F = [t.fields EXCEPT ![k] = NewField(t, op)]
    OBVIOUS
  <2>4. PICK m : m = Whole(t.entities, F, t.links, A, M)
    OBVIOUS
  <2>5. m.entities = t.entities /\ m.fields = F /\ m.links = t.links
    BY <2>4, WholeParts
  <2>6. Named(t, "field", op.ref, k, m)
    BY <2>2, <2>4
  <2>7. Meant(t, "entity", op.entity) \in Present(t.entities)
    <3>1. op.entity \in EntityNames /\ Meant(s, "entity", op.entity) \in Present(s.entities)
      BY <1>5, OperationNames DEF DidAddField
    <3> QED
      BY <1>1, <3>1, EntityNameMeans DEF TablesMatch, Maps
  <2>8. DidAddField(t, op, k, m)
    BY <1>5, <2>1, <2>3, <2>5, <2>6, <2>7 DEF DidAddField
  <2> QED
    BY <2>4, <2>8 DEF Did, AllKeys
<1>6. CASE DidAddLink(s, op, j, n)
  <2>1. PICK k \in LinkKeys : t.links[k] = Absent
    BY <1>1, <1>6, FreshLink DEF DidAddLink
  <2>2. PICK A, M : \A E, F, L : Named(t, "link", op.ref, k, Whole(E, F, L, A, M))
    BY <1>2
  <2>3. PICK L : L = [t.links EXCEPT ![k] = NewLink(t, op)]
    OBVIOUS
  <2>4. PICK m : m = Whole(t.entities, t.fields, L, A, M)
    OBVIOUS
  <2>5. m.entities = t.entities /\ m.fields = t.fields /\ m.links = L
    BY <2>4, WholeParts
  <2>6. Named(t, "link", op.ref, k, m)
    BY <2>2, <2>4
  <2>7. Meant(t, "entity", op.from) \in Present(t.entities)
        /\ Meant(t, "entity", op.to) \in Present(t.entities)
    <3>1. /\ op.from \in EntityNames /\ Meant(s, "entity", op.from) \in Present(s.entities)
          /\ op.to \in EntityNames /\ Meant(s, "entity", op.to) \in Present(s.entities)
      BY <1>6, OperationNames DEF DidAddLink
    <3> QED
      BY <1>1, <3>1, EntityNameMeans DEF TablesMatch, Maps
  <2>8. DidAddLink(t, op, k, m)
    BY <1>6, <2>1, <2>3, <2>5, <2>6, <2>7 DEF DidAddLink
  <2> QED
    BY <2>4, <2>8 DEF Did, AllKeys
<1>7. CASE DidChangeEntity(s, op, j, n)
  <2>1. PICK d, e : d = Meant(s, "entity", op.entity) /\ e = Meant(t, "entity", op.entity)
    OBVIOUS
  <2>2. /\ op.op \in {"update_entity_type", "archive_entity_type", "restore_entity_type"}
        /\ d \in Present(s.entities)
    BY <1>7, <2>1 DEF DidChangeEntity
  <2>3. e \in Present(t.entities)
    <3>1. op.entity \in EntityNames
      BY <2>2, OperationNames
    <3> QED
      BY <1>1, <2>1, <2>2, <3>1, EntityNameMeans DEF TablesMatch, Maps
  <2>4. PICK A, M : \A E, F, L : NamedNothing(t, Whole(E, F, L, A, M))
    BY <1>3
  <2>5. PICK E, L :
          \/ /\ op.op = "update_entity_type"
             /\ E = [t.entities EXCEPT ![e].label = op.label] /\ L = t.links
          \/ /\ op.op = "archive_entity_type"
             /\ E = Archive(t.entities, e) /\ L = Cascade(t.links, e)
          \/ /\ op.op = "restore_entity_type"
             /\ E = Restore(t.entities, e) /\ L = Uncascade(E, t.links, e)
    <3>1. CASE op.op = "update_entity_type"
      BY <3>1
    <3>2. CASE op.op = "archive_entity_type"
      BY <3>2
    <3>3. CASE op.op = "restore_entity_type"
      BY <3>3
    <3> QED
      BY <2>2, <3>1, <3>2, <3>3
  <2>6. PICK m : m = Whole(E, t.fields, L, A, M)
    OBVIOUS
  <2>7. m.entities = E /\ m.fields = t.fields /\ m.links = L
    BY <2>6, WholeParts
  <2>8. NamedNothing(t, m)
    BY <2>4, <2>6
  <2>9. DidChangeEntity(t, op, None, m)
    BY <2>1, <2>3, <2>5, <2>7, <2>8 DEF DidChangeEntity
  <2> QED
    BY <2>6, <2>9 DEF Did
<1>8. CASE DidChangeField(s, op, j, n)
  <2>1. PICK f, g : f = Meant(s, "field", op.field) /\ g = Meant(t, "field", op.field)
    OBVIOUS
  <2>2. /\ op.op \in {"update_field", "change_field_type", "archive_field", "restore_field"}
        /\ f \in Present(s.fields)
    BY <1>8, <2>1 DEF DidChangeField
  <2>3. g \in Present(t.fields)
    <3>1. op.field \in FieldNames
      BY <2>2, OperationNames
    <3> QED
      BY <1>1, <2>1, <2>2, <3>1, FieldNameMeans DEF TablesMatch, Maps
  <2>4. PICK A, M : \A E, F, L : NamedNothing(t, Whole(E, F, L, A, M))
    BY <1>3
  <2>5. PICK F : F = [t.fields EXCEPT ![g] = NewRow(op, @)]
    OBVIOUS
  <2>6. PICK m : m = Whole(t.entities, F, t.links, A, M)
    OBVIOUS
  <2>7. m.entities = t.entities /\ m.fields = F /\ m.links = t.links
    BY <2>6, WholeParts
  <2>8. NamedNothing(t, m)
    BY <2>4, <2>6
  <2>9. DidChangeField(t, op, None, m)
    BY <2>1, <2>2, <2>3, <2>5, <2>7, <2>8 DEF DidChangeField
  <2> QED
    BY <2>6, <2>9 DEF Did
<1>9. CASE DidChangeLink(s, op, j, n)
  <2>1. PICK l, k : l = Meant(s, "link", op.link) /\ k = Meant(t, "link", op.link)
    OBVIOUS
  <2>2. op.op \in {"archive_link", "restore_link"} /\ l \in Present(s.links)
    BY <1>9, <2>1 DEF DidChangeLink
  <2>3. k \in Present(t.links)
    <3>1. op.link \in LinkNames
      BY <2>2, OperationNames
    <3> QED
      BY <1>1, <2>1, <2>2, <3>1, LinkNameMeans DEF TablesMatch, Maps
  <2>4. PICK A, M : \A E, F, L : NamedNothing(t, Whole(E, F, L, A, M))
    BY <1>3
  <2>5. PICK L : L = SetArchived(t.links, k, Mark(op))
    OBVIOUS
  <2>6. PICK m : m = Whole(t.entities, t.fields, L, A, M)
    OBVIOUS
  <2>7. m.entities = t.entities /\ m.fields = t.fields /\ m.links = L
    BY <2>6, WholeParts
  <2>8. NamedNothing(t, m)
    BY <2>4, <2>6
  <2>9. DidChangeLink(t, op, None, m)
    BY <2>1, <2>2, <2>3, <2>5, <2>7, <2>8 DEF DidChangeLink
  <2> QED
    BY <2>6, <2>9 DEF Did
<1> QED
  BY <1>4, <1>5, <1>6, <1>7, <1>8, <1>9 DEF Did

-----------------------------------------------------------------------------
(* What an operation keeps                                                  *)

\* The fields of a value are those of its entity types.
AtHome(s) == \A f \in Present(s.fields) : s.fields[f].entity \in Present(s.entities)

\* An operation leaves no field without its entity type.
LEMMA HomesKept ==
    ASSUME NEW s, NEW n, Closed(s), NEW op \in Operations, NEW key, Did(s, op, key, n)
    PROVE  AtHome(n)
<1>0. AtHome(s)
  BY DEF Closed, AtHome
<1>1. CASE DidCreateEntity(s, op, key, n)
  <2>1. Present(s.entities) \subseteq Present(n.entities)
    BY <1>1, EntityAdded DEF Added, DidCreateEntity, Present, Closed
  <2> QED
    BY <1>0, <1>1, <2>1 DEF DidCreateEntity, AtHome
<1>2. CASE DidAddField(s, op, key, n)
  <2>1. n.entities = s.entities /\ Meant(s, "entity", op.entity) \in Present(s.entities)
    BY <1>2 DEF DidAddField
  <2>2. /\ n.fields[key] = NewField(s, op)
        /\ \A f \in Present(s.fields) : n.fields[f] = s.fields[f]
    BY <1>2, FieldAdded
  <2>3. Present(n.fields) \subseteq Present(s.fields) \cup {key}
    BY <1>2 DEF DidAddField, Present, Closed
  <2> QED
    BY <1>0, <2>1, <2>2, <2>3 DEF AtHome, NewField
<1>3. CASE DidAddLink(s, op, key, n) \/ DidChangeLink(s, op, key, n)
  BY <1>0, <1>3 DEF DidAddLink, DidChangeLink, AtHome
<1>4. CASE DidChangeEntity(s, op, key, n)
  <2>1. key = None
    BY <1>4 DEF DidChangeEntity
  <2>2. Present(n.entities) = Present(s.entities) /\ n.fields = s.fields
    BY <1>4, <2>1, EntityChanged
  <2> QED
    BY <1>0, <2>2 DEF AtHome
<1>5. CASE DidChangeField(s, op, key, n)
  <2>1. PICK f : f = Meant(s, "field", op.field)
    OBVIOUS
  <2>2. PICK row : row = NewRow(op, s.fields[f])
    OBVIOUS
  <2>3. /\ op.op \in {"update_field", "change_field_type", "archive_field", "restore_field"}
        /\ f \in Present(s.fields) /\ n.fields = [s.fields EXCEPT ![f] = row]
        /\ n.entities = s.entities
    BY <1>5, <2>1, <2>2 DEF DidChangeField
  <2>4. s.fields[f] \in FieldRow
    BY <2>3 DEF Closed, Present
  <2>5. row.entity = s.fields[f].entity
    BY <2>2, <2>3, <2>4 DEF NewRow
  <2> QED
    BY <1>0, <2>3, <2>5 DEF AtHome, Present, Closed
<1> QED
  BY <1>1, <1>2, <1>3, <1>4, <1>5 DEF Did

\* Every operation adds one entry to the list of keys.
LEMMA NamesKept ==
    ASSUME NEW s, NEW n, Closed(s), NEW op, NEW key \in AllKeys \cup {None}, Did(s, op, key, n)
    PROVE  /\ n.aliases = [kind \in Kinds |-> n.aliases[kind]]
           /\ n.made \in Seq(AllKeys \cup {None}) /\ Len(n.made) = Len(s.made) + 1
<1>1. \/ NamedNothing(s, n) /\ key = None
      \/ \E kind \in Kinds : \E ref : Named(s, kind, ref, key, n)
  BY DEF Did, DidCreateEntity, DidAddField, DidAddLink, DidChangeEntity, DidChangeField,
         DidChangeLink, Kinds
<1>2. n.made = Append(s.made, key)
  BY <1>1 DEF NamedNothing, Named
<1>3. n.aliases = [kind \in Kinds |-> n.aliases[kind]]
  BY <1>1 DEF NamedNothing, Named, Closed
<1> QED
  BY <1>2, <1>3 DEF Closed

-----------------------------------------------------------------------------
(* What is true of the state between two operations.                        *)

BatchTypes ==
    /\ base \in Bases
    /\ IInv
    /\ AtHome(Now)
    /\ phase \in {"draft", "replay", "done"}
    /\ index \in Nat
    /\ aliases = [kind \in Kinds |-> aliases[kind]]
    /\ made \in Seq(AllKeys \cup {None})
    /\ ops \in Seq(Operations)

LEMMA ValidIsClosed ==
    ASSUME NEW s, AtHome(s), IsValid(s.entities, s.fields, s.links),
           s.entities \in [EntityKeys -> EntityRow \cup {Absent}],
           s.fields \in [FieldKeys -> FieldRow \cup {Absent}],
           s.links \in [LinkKeys -> LinkRow \cup {Absent}],
           s.aliases = [kind \in Kinds |-> s.aliases[kind]], s.made \in Seq(AllKeys \cup {None})
    PROVE  Closed(s)
<1>1. ASSUME NEW l \in Present(s.links)
      PROVE  /\ s.links[l].from \in Present(s.entities) /\ s.links[l].to \in Present(s.entities)
             /\ s.links[l].archived_by \in Present(s.entities) \cup {None}
  <2>1. s.links[l] \in LinkRow
    BY DEF Present
  <2>2. LinkIsValid(s.entities, s.links[l])
    BY DEF IsValid
  <2>3. \A e \in Ends(s.links[l]) : e \in Present(s.entities)
    BY <2>1, <2>2 DEF LinkIsValid, Ends, Present, LinkRow
  <2> QED
    BY <2>2, <2>3 DEF LinkIsValid, Ends
<1> QED
  BY <1>1 DEF Closed, AtHome

LEMMA NowIsClosed ==
    ASSUME BatchTypes
    PROVE  Closed(Now)
BY ValidIsClosed DEF Now, BatchTypes, IInv, TypeOK, Valid

LEMMA StartIsClosed ==
    ASSUME NEW b \in Bases
    PROVE  AtHome(Start(b)) /\ Closed(Start(b))
<1>1. PICK s : s = Start(b)
  OBVIOUS
<1>2. /\ s.entities = b.entities /\ s.fields = b.fields /\ s.links = b.links
      /\ s.aliases = NoAliases /\ s.made = <<>>
  BY <1>1 DEF Start
<1>3. AtHome(s)
  BY <1>2, BatchAssumption DEF AtHome
<1>4. s.aliases = [kind \in Kinds |-> s.aliases[kind]] /\ s.made \in Seq(AllKeys \cup {None})
  BY <1>2 DEF NoAliases
<1>5. Closed(s)
  BY <1>2, <1>3, <1>4, ValidIsClosed, BatchAssumption
<1> QED
  BY <1>1, <1>3, <1>5

\* An operation of a list is a step of SpecEngine.
LEMMA PerformIsStep ==
    ASSUME NEW op \in Operations, Perform(op)
    PROVE  Next
<1>1. CASE Create(op)
  <2>1. ASSUME op.op = "create_entity_type", NEW e \in EntityKeys, CreateEntityType(e, op.label)
        PROVE  Next
    <3>1. op.label \in Labels
      BY <2>1, OperationNames
    <3> QED
      BY <2>1, <3>1 DEF Next, EntityStep
  <2>2. ASSUME op.op = "add_field", NEW e \in EntityKeys, NEW f \in FieldKeys,
               AddField(e, f, op.label, op.type, op.options, op.required)
        PROVE  Next
    <3>1. /\ op.label \in Labels /\ op.type \in Types
          /\ op.options \in OptionLists \cup {None} /\ op.required \in BOOLEAN
      BY <2>2, OperationNames
    <3> QED
      BY <2>2, <3>1 DEF Next, FieldStep
  <2>3. ASSUME op.op = "add_link", NEW from \in EntityKeys, NEW to \in EntityKeys,
               NEW l \in LinkKeys, AddLink(l, from, to)
        PROVE  Next
    BY <2>3 DEF Next, LinkStep
  <2> QED
    BY <1>1, <2>1, <2>2, <2>3 DEF Create, Entity
<1>2. CASE op.op \in {"update_entity_type", "archive_entity_type", "restore_entity_type"}
           /\ ChangeEntity(op)
  <2>1. PICK e \in EntityKeys :
          \/ op.op = "update_entity_type" /\ UpdateEntityType(e, op.label)
          \/ op.op = "archive_entity_type" /\ ArchiveEntityType(e)
          \/ op.op = "restore_entity_type" /\ RestoreEntityType(e)
    BY <1>2 DEF ChangeEntity, Entity
  <2>2. op.op = "update_entity_type" => op.label \in Labels
    BY OperationNames
  <2> QED
    BY <2>1, <2>2 DEF Next, EntityStep
<1>3. CASE op.op \in {"update_field", "change_field_type", "archive_field", "restore_field"}
           /\ ChangeField(op)
  <2>1. PICK e \in EntityKeys, f \in FieldKeys :
          \/ op.op = "update_field" /\ UpdateField(e, f, op.label, op.options, op.required)
          \/ op.op = "change_field_type" /\ ChangeFieldType(e, f, op.type, op.options)
          \/ op.op = "archive_field" /\ ArchiveField(e, f)
          \/ op.op = "restore_field" /\ RestoreField(e, f)
    BY <1>3 DEF ChangeField, Entity, Field
  <2>2. /\ op.op = "update_field" =>
             /\ op.label \in Labels \cup {None} /\ op.options \in OptionLists \cup {None}
             /\ op.required \in BOOLEAN \cup {None}
        /\ op.op = "change_field_type" =>
             op.type \in Types /\ op.options \in OptionLists \cup {None}
    BY OperationNames
  <2> QED
    BY <2>1, <2>2 DEF Next, FieldStep
<1>4. CASE op.op \in {"archive_link", "restore_link"} /\ ChangeLink(op)
  BY <1>4 DEF ChangeLink, Link, Next, LinkStep
<1> QED
  BY <1>1, <1>2, <1>3, <1>4 DEF Perform

LEMMA PerformKeeps ==
    ASSUME BatchTypes, NEW op \in Operations, Perform(op)
    PROVE  /\ IInv' /\ AtHome(Now)' /\ Closed(Now')
           /\ (aliases = [kind \in Kinds |-> aliases[kind]])'
           /\ (made \in Seq(AllKeys \cup {None}))'
           /\ \E key \in AllKeys \cup {None} : Done(Now, op, key, Now')
<1>1. IInv'
  BY PerformIsStep, StepKeeps, EngineAssumption, AbsentAssumption DEF BatchTypes
<1>2. PICK key \in AllKeys \cup {None} : Did(Now, op, key, Now')
  BY CreateDoes, ChangeDoes DEF BatchTypes, IInv
<1>3. PICK s, n : s = Now /\ n = Now'
  OBVIOUS
<1>4. Closed(s) /\ Did(s, op, key, n)
  BY <1>2, <1>3, NowIsClosed
<1>5. AtHome(n)
  BY <1>4, HomesKept
<1>6. /\ n.aliases = [kind \in Kinds |-> n.aliases[kind]]
      /\ n.made \in Seq(AllKeys \cup {None})
  BY <1>4, NamesKept
<1>7. n.aliases = aliases' /\ n.made = made'
  BY <1>3 DEF Now
<1>8. Closed(Now')
  BY <1>1, <1>3, <1>5, <1>6, ValidIsClosed DEF Now, IInv, TypeOK, Valid
<1>9. Done(Now, op, key, Now')
  <2>1. Asks(Now, op) /\ Valid'
    BY PerformAsks DEF BatchTypes, IInv
  <2>2. /\ (Now').entities = entities' /\ (Now').fields = fields' /\ (Now').links = links'
    BY DEF Now
  <2> QED
    BY <1>2, <2>1, <2>2 DEF Done, Valid
<1> QED
  BY <1>1, <1>3, <1>5, <1>6, <1>7, <1>8, <1>9

\* h is what a list of operations went through, from the definition b on.
IsRun(b, list, h) ==
    /\ h[0] = Start(b)
    /\ \A i \in 0..Len(list) : Closed(h[i])
    /\ \A i \in 1..Len(list) : \E key : Done(h[i - 1], list[i], key, h[i])

RunEnds(b, list, n) == \E h : IsRun(b, list, h) /\ h[Len(list)] = n

DraftIsRun == phase = "draft" => RunEnds(base, ops, Now)

\* Replaying follows the run h that was drafted, with the keys that p gives.
Follows(b, list, D, i, ph, s, h, p) ==
    /\ IsRun(b, list, h)
    /\ D = [tables |-> [entities |-> h[Len(list)].entities, fields |-> h[Len(list)].fields,
                        links |-> h[Len(list)].links],
            made |-> h[Len(list)].made]
    /\ i \in 0..Len(list)
    /\ Corresponds(b, p, h[i], s)
    /\ ph = "done" => i = Len(list)

ReplayFollows == phase # "draft" =>
    \E h, p : Follows(base, ops, drafted, index, phase, Now, h, p)

BatchInv == BatchTypes /\ DraftIsRun /\ ReplayFollows

\* A run is followed by one more operation.
LEMMA LongerRun ==
    ASSUME NEW b, NEW O, NEW list \in Seq(O), NEW last, RunEnds(b, list, last),
           NEW op \in O, NEW key, NEW n, Done(last, op, key, n), Closed(n),
           NEW more, more = Append(list, op)
    PROVE  RunEnds(b, more, n)
<1>0. PICK h : IsRun(b, list, h) /\ h[Len(list)] = last
  BY DEF RunEnds
<1> DEFINE g == [i \in 0..Len(more) |-> IF i = Len(more) THEN n ELSE h[i]]
<1>1. /\ Len(more) = Len(list) + 1 /\ Len(list) \in Nat /\ more[Len(more)] = op
      /\ \A i \in 1..Len(list) : more[i] = list[i]
  OBVIOUS
<1>2. g[Len(more)] = n /\ \A i \in 0..Len(list) : g[i] = h[i]
  BY <1>1
<1> HIDE DEF g
<1>3. g[0] = Start(b)
  BY <1>0, <1>1, <1>2 DEF IsRun
<1>4. \A i \in 0..Len(more) : Closed(g[i])
  <2> SUFFICES ASSUME NEW i \in 0..Len(more)
               PROVE  Closed(g[i])
    OBVIOUS
  <2>1. i = Len(more) \/ i \in 0..Len(list)
    BY <1>1
  <2> QED
    BY <1>0, <1>2, <2>1 DEF IsRun
<1>5. \A i \in 1..Len(more) : \E k : Done(g[i - 1], more[i], k, g[i])
  <2> SUFFICES ASSUME NEW i \in 1..Len(more)
               PROVE  \E k : Done(g[i - 1], more[i], k, g[i])
    OBVIOUS
  <2>1. CASE i = Len(more)
    BY <1>0, <1>1, <1>2, <2>1
  <2>2. CASE i # Len(more)
    <3>1. i \in 1..Len(list) /\ i - 1 \in 0..Len(list) /\ i \in 0..Len(list)
      BY <1>1, <2>2
    <3>2. \E k : Done(h[i - 1], list[i], k, h[i])
      BY <1>0, <3>1 DEF IsRun
    <3> QED
      BY <1>1, <1>2, <3>1, <3>2
  <2> QED
    BY <2>1, <2>2
<1>6. IsRun(b, more, g)
  BY <1>3, <1>4, <1>5 DEF IsRun
<1> QED
  BY <1>2, <1>6 DEF RunEnds

\* A definition corresponds to itself.
LEMMA StartCorresponds ==
    ASSUME NEW b \in Bases, Closed(Start(b))
    PROVE  Corresponds(b, [k \in KeysOf(b) |-> k], Start(b), Start(b))
<1> DEFINE p == [k \in KeysOf(b) |-> k]
           s == Start(b)
<1>1. /\ s.entities = b.entities /\ s.fields = b.fields /\ s.links = b.links
      /\ s.aliases = NoAliases /\ s.made = <<>>
  BY DEF Start
<1>2. KeysOf(s) = KeysOf(b) /\ DOMAIN p = KeysOf(s) /\ \A k \in KeysOf(s) : p[k] = k
  BY <1>1 DEF KeysOf
<1> HIDE DEF p, s
<1>3. Maps(p, s, s)
  BY <1>2 DEF Maps, KeysOf
<1>4. EntitiesMatch(p, s, s)
  BY <1>2 DEF EntitiesMatch, KeysOf
<1>5. FieldsMatch(p, s, s)
  <2> SUFFICES ASSUME NEW f \in Present(s.fields)
               PROVE  s.fields[p[f]] = [s.fields[f] EXCEPT !.entity = p[@]]
    BY DEF FieldsMatch
  <2>1. s.fields[f] \in FieldRow /\ s.fields[f].entity \in KeysOf(s) /\ f \in KeysOf(s)
    BY DEF Closed, Present, KeysOf, s
  <2> QED
    BY <1>2, <2>1 DEF FieldRow
<1>6. LinksMatch(p, s, s)
  <2> SUFFICES ASSUME NEW l \in Present(s.links)
               PROVE  s.links[p[l]] = LinkUnder(p, s.links[l])
    BY DEF LinksMatch
  <2>1. PICK row : row = s.links[l]
    OBVIOUS
  <2>2. /\ row \in LinkRow /\ l \in KeysOf(s)
        /\ row.from \in KeysOf(s) /\ row.to \in KeysOf(s)
        /\ row.archived_by \in KeysOf(s) \cup {None}
    BY <2>1 DEF Closed, Present, KeysOf, s
  <2>3. p[row.from] = row.from /\ p[row.to] = row.to /\ Ren(p, row.archived_by) = row.archived_by
    BY <1>2, <2>2 DEF Ren
  <2> QED
    BY <1>2, <2>1, <2>2, <2>3, RowIsLink DEF LinkUnder
<1>7. AliasesMatch(p, s, s)
  BY <1>1 DEF AliasesMatch, NoAliases
<1>8. MadeMatch(p, s, s)
  BY <1>1 DEF MadeMatch
<1>9. BaseStays(b, p, s)
  BY <1>2 DEF BaseStays
<1> QED
  BY <1>3, <1>4, <1>5, <1>6, <1>7, <1>8, <1>9 DEF Corresponds, TablesMatch, p, s

LEMMA BatchInitHolds == BatchInit => BatchInv
<1> SUFFICES ASSUME BatchInit
             PROVE  BatchInv
  OBVIOUS
<1>1. /\ base \in Bases /\ entities = base.entities /\ fields = base.fields /\ links = base.links
      /\ aliases = NoAliases /\ made = <<>> /\ ops = <<>> /\ index = 0 /\ phase = "draft"
  BY DEF BatchInit
<1>2. TypeOK /\ Valid
  BY <1>1, BatchAssumption DEF TypeOK, Valid
<1>3. MarksAreTrue
  BY <1>1, BatchAssumption DEF MarksAreTrue
<1>4. Now = Start(base)
  BY <1>1 DEF Now, Start
<1>5. AtHome(Now) /\ Closed(Start(base))
  BY <1>1, <1>4, StartIsClosed
<1>6. BatchTypes
  BY <1>1, <1>2, <1>3, <1>5 DEF BatchTypes, IInv, NoAliases
<1>7. DraftIsRun
  <2>1. PICK h : h = [i \in {0} |-> Start(base)]
    OBVIOUS
  <2>2. h[0] = Start(base)
    BY <2>1
  <2>3. IsRun(base, ops, h) /\ h[Len(ops)] = Now
    BY <1>1, <1>4, <1>5, <2>2 DEF IsRun
  <2> QED
    BY <2>3 DEF DraftIsRun, RunEnds
<1> QED
  BY <1>1, <1>6, <1>7 DEF BatchInv, ReplayFollows

LEMMA SameOperations == base' = base => Operations' = Operations
BY DEF Operations, EntityNames, FieldNames, LinkNames, Maybe

LEMMA ApplyKeeps ==
    ASSUME BatchInv, NEW op \in Operations, Apply(op)
    PROVE  BatchInv'
<1>1. /\ phase = "draft" /\ Perform(op) /\ ops' = Append(ops, op) /\ index' = index + 1
      /\ base' = base /\ phase' = phase
  BY DEF Apply, Stored
<1>2. /\ IInv' /\ AtHome(Now)' /\ Closed(Now')
      /\ (aliases = [kind \in Kinds |-> aliases[kind]])'
      /\ (made \in Seq(AllKeys \cup {None}))'
      /\ \E key \in AllKeys \cup {None} : Done(Now, op, key, Now')
  BY <1>1, PerformKeeps DEF BatchInv
<1>3. ops' \in Seq(Operations')
  BY <1>1, SameOperations DEF BatchInv, BatchTypes
<1>4. BatchTypes'
  BY <1>1, <1>2, <1>3 DEF BatchInv, BatchTypes
<1>6. RunEnds(base, ops', Now')
  <2>1. PICK key : Done(Now, op, key, Now')
    BY <1>2
  <2>2. PICK b, O, list, more : b = base /\ O = Operations /\ list = ops /\ more = ops'
    OBVIOUS
  <2>3. PICK n, last : n = Now' /\ last = Now
    OBVIOUS
  <2>4. /\ list \in Seq(O) /\ op \in O /\ more = Append(list, op)
        /\ RunEnds(b, list, last)
    BY <1>1, <2>2, <2>3 DEF BatchInv, BatchTypes, DraftIsRun
  <2>5. Closed(n) /\ Done(last, op, key, n)
    BY <1>2, <2>1, <2>3
  <2>6. RunEnds(b, more, n)
    BY <2>4, <2>5, LongerRun
  <2> QED
    BY <2>2, <2>3, <2>6
<1>8. DraftIsRun'
  BY <1>1, <1>6 DEF DraftIsRun
<1> QED
  BY <1>1, <1>4, <1>8 DEF BatchInv, ReplayFollows

LEMMA RefuseKeeps ==
    ASSUME BatchInv, Refuse
    PROVE  BatchInv'
<1>1. /\ phase = "draft" /\ phase' = phase /\ index' = index + 1
      /\ base' = base /\ ops' = ops /\ aliases' = aliases /\ made' = made
      /\ entities' = entities /\ fields' = fields /\ links' = links
  BY DEF Refuse, vars
<1>2. IInv' /\ Now' = Now
  BY <1>1 DEF BatchInv, BatchTypes, IInv, TypeOK, Valid, MarksAreTrue, Now
<1>3. AtHome(Now)'
  BY <1>2 DEF BatchInv, BatchTypes
<1>4. BatchTypes'
  BY <1>1, <1>2, <1>3, SameOperations DEF BatchInv, BatchTypes
<1>5. DraftIsRun'
  BY <1>1, <1>2 DEF BatchInv, DraftIsRun
<1> QED
  BY <1>1, <1>4, <1>5 DEF BatchInv, ReplayFollows

LEMMA ApproveKeeps ==
    ASSUME BatchInv, Approve
    PROVE  BatchInv'
<1>1. /\ phase = "draft" /\ phase' = "replay" /\ index' = 0 /\ base' = base /\ ops' = ops
      /\ drafted' = [tables |-> Tables, made |-> made]
      /\ entities' = base.entities /\ fields' = base.fields /\ links' = base.links
      /\ aliases' = NoAliases /\ made' = <<>>
  BY DEF Approve
<1>2. base \in Bases
  BY DEF BatchInv, BatchTypes
<1>3. TypeOK' /\ Valid'
  BY <1>1, <1>2, BatchAssumption DEF TypeOK, Valid
<1>4. MarksAreTrue'
  BY <1>1, <1>2, BatchAssumption DEF MarksAreTrue
<1>5. Now' = Start(base)
  BY <1>1 DEF Now, Start
<1>6. PICK b : b = base
  OBVIOUS
<1>7. AtHome(Start(b)) /\ Closed(Start(b))
  BY <1>2, <1>6, StartIsClosed
<1>8. (aliases = [kind \in Kinds |-> aliases[kind]])' /\ (made \in Seq(AllKeys \cup {None}))'
  BY <1>1 DEF NoAliases
<1>9. AtHome(Now')
  BY <1>5, <1>6, <1>7
<1>10. BatchTypes'
  BY <1>1, <1>2, <1>3, <1>4, <1>8, <1>9, SameOperations DEF BatchInv, BatchTypes, IInv
<1>11. DraftIsRun'
  BY <1>1 DEF DraftIsRun
<1>12. ReplayFollows'
  <2>1. PICK h : IsRun(base, ops, h) /\ h[Len(ops)] = Now
    BY <1>1 DEF BatchInv, DraftIsRun, RunEnds
  <2>2. PICK p : p = [k \in KeysOf(b) |-> k]
    OBVIOUS
  <2>3. Corresponds(b, p, Start(b), Start(b))
    BY <1>2, <1>6, <1>7, <2>2, StartCorresponds
  <2>4. h[0] = Start(b)
    BY <1>6, <2>1 DEF IsRun
  <2>5. drafted' = [tables |-> [entities |-> h[Len(ops)].entities, fields |-> h[Len(ops)].fields,
                                links |-> h[Len(ops)].links],
                    made |-> h[Len(ops)].made]
    BY <1>1, <2>1 DEF Now, Tables
  <2>6. Len(ops) \in Nat
    BY DEF BatchInv, BatchTypes
  <2>7. Follows(base', ops', drafted', index', phase', Now', h, p)
    BY <1>1, <1>5, <1>6, <2>1, <2>3, <2>4, <2>5, <2>6 DEF Follows
  <2> QED
    BY <2>7 DEF ReplayFollows
<1> QED
  BY <1>10, <1>11, <1>12 DEF BatchInv

LEMMA ReplayKeeps ==
    ASSUME BatchInv, Replay
    PROVE  BatchInv'
<1> DEFINE op == ops[index + 1]
<1>1. /\ phase = "replay" /\ index < Len(ops) /\ Perform(op) /\ index' = index + 1
      /\ phase' = phase /\ base' = base /\ ops' = ops /\ drafted' = drafted
  BY DEF Replay
<1>2. op \in Operations /\ index \in Nat /\ Len(ops) \in Nat
      /\ index + 1 \in 1..Len(ops) /\ base \in Bases
  BY <1>1 DEF BatchInv, BatchTypes
<1> HIDE DEF op
<1>3. /\ IInv' /\ AtHome(Now)' /\ Closed(Now')
      /\ (aliases = [kind \in Kinds |-> aliases[kind]])'
      /\ (made \in Seq(AllKeys \cup {None}))'
      /\ \E key \in AllKeys \cup {None} : Done(Now, op, key, Now')
  BY <1>1, <1>2, PerformKeeps DEF BatchInv
<1>4. BatchTypes'
  BY <1>1, <1>2, <1>3, SameOperations DEF BatchInv, BatchTypes
<1>5. ReplayFollows'
  <2>1. PICK h, p : Follows(base, ops, drafted, index, phase, Now, h, p)
    BY <1>1 DEF BatchInv, ReplayFollows
  <2>2. PICK s, t, n, m, i, b : /\ s = h[index] /\ t = Now /\ n = h[index + 1] /\ m = Now'
                                /\ i = index + 1 /\ b = base
    OBVIOUS
  <2>3. PICK k : Did(t, op, k, m)
    BY <1>3, <2>2 DEF Done
  <2>4. PICK j : Did(s, op, j, n)
    <3>1. \A a \in 1..Len(ops) : \E key : Done(h[a - 1], ops[a], key, h[a])
      BY <2>1 DEF Follows, IsRun
    <3>2. \E key : Done(h[i - 1], ops[i], key, h[i])
      BY <1>2, <2>2, <3>1
    <3>3. i - 1 = index
      BY <1>2, <2>2
    <3> QED
      BY <2>2, <3>2, <3>3 DEF op, Done
  <2>5. Closed(s) /\ Closed(n)
    BY <1>2, <2>1, <2>2 DEF Follows, IsRun
  <2>6. Closed(t) /\ Closed(m)
    BY <1>3, <2>2, NowIsClosed DEF BatchInv
  <2>7. Corresponds(b, p, s, t)
    BY <2>1, <2>2 DEF Follows
  <2>8. PICK q : Corresponds(b, q, n, m)
    BY <1>2, <2>2, <2>3, <2>4, <2>5, <2>6, <2>7, SameStep
  <2>9. Follows(base', ops', drafted', index', phase', Now', h, q)
    BY <1>1, <1>2, <2>1, <2>2, <2>8 DEF Follows
  <2> QED
    BY <2>9 DEF ReplayFollows
<1>6. DraftIsRun'
  BY <1>1 DEF DraftIsRun
<1> QED
  BY <1>4, <1>5, <1>6 DEF BatchInv

LEMMA AppendKeeps ==
    ASSUME BatchInv, Append_version
    PROVE  BatchInv'
<1>1. /\ phase = "replay" /\ index = Len(ops) /\ phase' = "done" /\ index' = index
      /\ base' = base /\ ops' = ops /\ aliases' = aliases /\ made' = made /\ drafted' = drafted
      /\ entities' = entities /\ fields' = fields /\ links' = links
  BY DEF Append_version, vars
<1>2. IInv' /\ Now' = Now
  BY <1>1 DEF BatchInv, BatchTypes, IInv, TypeOK, Valid, MarksAreTrue, Now
<1>3. BatchTypes'
  BY <1>1, <1>2, SameOperations DEF BatchInv, BatchTypes
<1>4. PICK h, p : Follows(base, ops, drafted, index, phase, Now, h, p)
  BY <1>1 DEF BatchInv, ReplayFollows
<1>5. Follows(base', ops', drafted', index', phase', Now', h, p)
  BY <1>1, <1>2, <1>4 DEF Follows
<1> QED
  BY <1>1, <1>3, <1>5 DEF BatchInv, DraftIsRun, ReplayFollows

LEMMA StutterKeeps ==
    ASSUME BatchInv, UNCHANGED <<vars, batch>>
    PROVE  BatchInv'
<1>1. /\ phase' = phase /\ index' = index
      /\ base' = base /\ ops' = ops /\ aliases' = aliases /\ made' = made /\ drafted' = drafted
      /\ entities' = entities /\ fields' = fields /\ links' = links
  BY DEF batch, vars
<1>2. IInv' /\ Now' = Now
  BY <1>1 DEF BatchInv, BatchTypes, IInv, TypeOK, Valid, MarksAreTrue, Now
<1>3. BatchTypes'
  BY <1>1, <1>2, SameOperations DEF BatchInv, BatchTypes
<1> QED
  BY <1>1, <1>2, <1>3 DEF BatchInv, DraftIsRun, ReplayFollows

\* The lists of proposals keep the invariant: a replay follows the run that was
\* drafted.
THEOREM BatchInvariance == BatchSpec => []BatchInv
<1>1. BatchInv /\ [BatchNext]_<<vars, batch>> => BatchInv'
  BY ApplyKeeps, RefuseKeeps, ApproveKeeps, ReplayKeeps, AppendKeeps, StutterKeeps DEF BatchNext
<1> QED
  BY <1>1, BatchInitHolds, PTL DEF BatchSpec

\* A link with what it names renamed, as ReplayIsTheSame writes it
LEMMA Readdressed ==
    ASSUME NEW row \in LinkRow
    PROVE  [row EXCEPT !.from = Renamed(@), !.to = Renamed(@), !.archived_by = Renamed(@)]
             = LinkOf(Renamed(row.from), Renamed(row.to), row.archived, Renamed(row.archived_by))
<1>1. PICK f, g, a : f = Renamed(row.from) /\ g = Renamed(row.to) /\ a = Renamed(row.archived_by)
  OBVIOUS
<1> DEFINE r1 == [row EXCEPT !.from = f]
           r2 == [r1 EXCEPT !.to = g]
           r3 == [r2 EXCEPT !.archived_by = a]
<1>2. row = LinkOf(row.from, row.to, row.archived, row.archived_by)
  BY RowIsLink
<1>3. r1 = LinkOf(f, row.to, row.archived, row.archived_by)
  BY <1>2 DEF LinkOf
<1> HIDE DEF r1
<1>4. r2 = LinkOf(f, g, row.archived, row.archived_by)
  BY <1>3 DEF LinkOf
<1> HIDE DEF r2
<1>5. r3 = LinkOf(f, g, row.archived, a)
  BY <1>4 DEF LinkOf
<1>6. r3 = [row EXCEPT !.from = f, !.to = g, !.archived_by = a]
  BY Zenon DEF r1, r2
<1> HIDE DEF r3
<1>7. [row EXCEPT !.from = f, !.to = g, !.archived_by = a] = LinkOf(f, g, row.archived, a)
  BY <1>5, <1>6, Zenon
<1> QED
  BY <1>1, <1>7, Zenon

\* What ReplayIsTheSame reads off the lists of drawn keys is the renaming.
LEMMA RenamedIsRen ==
    ASSUME NEW b, NEW p, NEW s, Closed(s), Corresponds(b, p, s, Now), drafted.made = s.made,
           NEW k \in KeysOf(s) \cup {None}
    PROVE  Renamed(k) = Ren(p, k)
<1>1. /\ DOMAIN drafted.made = 1..Len(s.made)
      /\ \A i \in 1..Len(s.made) : made[i] = Ren(p, drafted.made[i])
  BY DEF Closed, Corresponds, MadeMatch, Now
<1>2. CASE \E i \in DOMAIN drafted.made : drafted.made[i] = k
  BY <1>1, <1>2 DEF Renamed
<1>3. CASE ~ \E i \in DOMAIN drafted.made : drafted.made[i] = k
  <2>1. Renamed(k) = k
    BY <1>3 DEF Renamed
  <2>2. k # None => k \in KeysOf(b) /\ p[k] = k
    BY <1>1, <1>3 DEF Corresponds, BaseStays, TablesMatch, Maps
  <2> QED
    BY <2>1, <2>2 DEF Ren
<1> QED
  BY <1>2, <1>3

\* At the end of the list the correspondence is what the property says.
LEMMA EndIsTheSame == BatchInv => ReplayIsTheSame
<1> SUFFICES ASSUME BatchInv, phase = "done"
             PROVE  ReplayIsTheSame
  BY DEF ReplayIsTheSame
<1>1. PICK h, p : Follows(base, ops, drafted, index, phase, Now, h, p)
  BY DEF BatchInv, ReplayFollows
<1>2. PICK b, s : b = base /\ s = h[Len(ops)]
  OBVIOUS
<1>3. /\ drafted.tables.entities = s.entities /\ drafted.tables.fields = s.fields
      /\ drafted.tables.links = s.links /\ drafted.made = s.made
      /\ Closed(s) /\ Corresponds(b, p, s, Now)
  BY <1>1, <1>2 DEF Follows, IsRun, BatchInv, BatchTypes
<1>4. \A k \in KeysOf(s) : Renamed(k) = p[k]
  BY <1>3, RenamedIsRen, ClosedKeys DEF Ren
<1>5. \A k \in KeysOf(s) \cup {None} : Renamed(k) = Ren(p, k)
  BY <1>3, RenamedIsRen
<1>6. /\ Now.entities = entities /\ Now.fields = fields /\ Now.links = links
      /\ Maps(p, s, Now) /\ EntitiesMatch(p, s, Now) /\ FieldsMatch(p, s, Now)
      /\ LinksMatch(p, s, Now)
  BY <1>3 DEF Now, Corresponds, TablesMatch
<1>7. /\ \A e \in Present(s.entities) : Renamed(e) = p[e]
      /\ \A f \in Present(s.fields) : Renamed(f) = p[f]
      /\ \A l \in Present(s.links) : Renamed(l) = p[l]
  BY <1>4 DEF KeysOf
<1>8. Present(entities) = {Renamed(e) : e \in Present(s.entities)}
  BY <1>6, <1>7 DEF Maps
<1>9. Present(fields) = {Renamed(f) : f \in Present(s.fields)}
  BY <1>6, <1>7 DEF Maps
<1>10. Present(links) = {Renamed(l) : l \in Present(s.links)}
  BY <1>6, <1>7 DEF Maps
<1>11. \A e \in Present(s.entities) : entities[Renamed(e)] = s.entities[e]
  BY <1>6, <1>7 DEF EntitiesMatch
<1>12. ASSUME NEW f \in Present(s.fields)
       PROVE  fields[Renamed(f)] = [s.fields[f] EXCEPT !.entity = Renamed(@)]
  <2>1. PICK row : row = s.fields[f]
    OBVIOUS
  <2>2. row.entity \in Present(s.entities)
    BY <1>3, <2>1 DEF Closed
  <2>3. Renamed(row.entity) = p[row.entity]
    BY <1>7, <2>2
  <2>4. fields[Renamed(f)] = [row EXCEPT !.entity = p[@]]
    BY <1>6, <1>7, <2>1 DEF FieldsMatch
  <2> QED
    BY <2>1, <2>3, <2>4
<1>13. ASSUME NEW l \in Present(s.links)
       PROVE  links[Renamed(l)] = [s.links[l] EXCEPT !.from = Renamed(@), !.to = Renamed(@),
                                                     !.archived_by = Renamed(@)]
  <2>1. PICK row : row = s.links[l]
    OBVIOUS
  <2>2. /\ row \in LinkRow /\ row.from \in Present(s.entities) /\ row.to \in Present(s.entities)
        /\ row.archived_by \in Present(s.entities) \cup {None}
    BY <1>3, <2>1 DEF Closed, Present
  <2>3. /\ Renamed(row.from) = p[row.from] /\ Renamed(row.to) = p[row.to]
        /\ Renamed(row.archived_by) = Ren(p, row.archived_by)
    BY <1>5, <1>7, <2>2 DEF KeysOf
  <2>4. links[Renamed(l)] = LinkUnder(p, row)
    BY <1>6, <1>7, <2>1 DEF LinksMatch
  <2>5. [row EXCEPT !.from = Renamed(@), !.to = Renamed(@), !.archived_by = Renamed(@)]
          = LinkUnder(p, row)
    BY <2>2, <2>3, Readdressed DEF LinkUnder
  <2> QED
    BY <2>1, <2>4, <2>5, Zenon
<1> QED
  BY <1>3, <1>8, <1>9, <1>10, <1>11, <1>12, <1>13, Zenon DEF ReplayIsTheSame

\* "What the owner was shown is what the owner gets": whichever operations were
\* dropped and whichever keys are drawn, what apply_operations makes of a list is
\* what apply_each made of it, with other keys.
THEOREM ReplaysTheSame == BatchSpec => []ReplayIsTheSame
BY BatchInvariance, EndIsTheSame, PTL

-----------------------------------------------------------------------------
(* The strict mode refuses nothing.                                         *)

\* Perform, as an operator on values: Done says all of it.
LEMMA PerformIsDone ==
    ASSUME TypeOK, NEW op \in Operations
    PROVE  Perform(op) <=> \E key \in AllKeys \cup {None} :
              Done(Now, op, key, Whole(entities', fields', links', aliases', made'))
<1>1. Now' = Whole(entities', fields', links', aliases', made')
  BY DEF Now, Whole
<1>2. /\ (Now').entities = entities' /\ (Now').fields = fields' /\ (Now').links = links'
  BY DEF Now
<1>3. ASSUME Perform(op)
      PROVE  \E key \in AllKeys \cup {None} : Done(Now, op, key, Now')
  BY <1>2, <1>3, CreateDoes, ChangeDoes, PerformAsks DEF Done, Valid
<1>4. ASSUME NEW key, Done(Now, op, key, Now')
      PROVE  Perform(op)
  BY <1>2, <1>4, AskedPerforms DEF Done, Valid
<1> QED
  BY <1>1, <1>3, <1>4

\* Perform(op) is enabled: it holds of some values of the variables it changes.
CanPerform(op) == \E key \in AllKeys \cup {None} : \E E, F, L, A, M :
    Done(Now, op, key, Whole(E, F, L, A, M))

\* The guards of Append_version, or those of Replay
NextIsPossible == phase = "replay" =>
    \/ index = Len(ops)
    \/ index < Len(ops) /\ index < MaxOperations /\ CanPerform(ops[index + 1])

\* What was stored fits in a proposal.
ListFits == /\ Len(ops) <= MaxOperations
            /\ phase = "draft" => Len(ops) <= index

LEMMA ListAlwaysFits == BatchSpec => []ListFits
<1>1. BatchInit => ListFits
  BY BatchAssumption DEF BatchInit, ListFits
<1>2. BatchInv /\ ListFits /\ [BatchNext]_<<vars, batch>> => ListFits'
  <2> SUFFICES ASSUME BatchInv, ListFits, [BatchNext]_<<vars, batch>>
               PROVE  ListFits'
    OBVIOUS
  <2>1. index \in Nat /\ Len(ops) \in Nat /\ MaxOperations \in Nat
    BY BatchAssumption DEF BatchInv, BatchTypes
  <2>2. ASSUME NEW op \in Operations, Apply(op)
        PROVE  ListFits'
    <3>1. /\ phase = "draft" /\ index < MaxOperations /\ index' = index + 1
          /\ ops' = Append(ops, op)
      BY <2>2 DEF Apply, Stored
    <3>2. Len(ops') = Len(ops) + 1
      BY <3>1 DEF BatchInv, BatchTypes
    <3> QED
      BY <2>1, <3>1, <3>2 DEF ListFits
  <2>3. CASE Refuse
    BY <2>1, <2>3 DEF Refuse, ListFits
  <2>4. CASE Approve \/ Replay \/ Append_version
    BY <2>4 DEF Approve, Replay, Append_version, ListFits
  <2>5. CASE UNCHANGED <<vars, batch>>
    BY <2>5 DEF batch, ListFits
  <2> QED
    BY <2>2, <2>3, <2>4, <2>5 DEF BatchNext
<1> QED
  BY <1>1, <1>2, BatchInvariance, PTL DEF BatchSpec

LEMMA ReplayCanGoOn ==
    ASSUME BatchInv, ListFits
    PROVE  NextIsPossible
<1> SUFFICES ASSUME phase = "replay", index # Len(ops)
             PROVE  index < Len(ops) /\ index < MaxOperations /\ CanPerform(ops[index + 1])
  BY DEF NextIsPossible
<1>1. PICK h, p : Follows(base, ops, drafted, index, phase, Now, h, p)
  BY DEF BatchInv, ReplayFollows
<1>2. /\ index \in Nat /\ Len(ops) \in Nat /\ MaxOperations \in Nat
      /\ index < Len(ops) /\ index < MaxOperations
  BY <1>1, BatchAssumption DEF Follows, BatchInv, BatchTypes, ListFits
<1>3. PICK op \in Operations : op = ops[index + 1]
  BY <1>2 DEF BatchInv, BatchTypes
<1>4. PICK s, t, n, i : s = h[index] /\ t = Now /\ n = h[index + 1] /\ i = index + 1
  OBVIOUS
<1>5. PICK j : Done(s, op, j, n)
  <2>1. \A a \in 1..Len(ops) : \E key : Done(h[a - 1], ops[a], key, h[a])
    BY <1>1 DEF Follows, IsRun
  <2>2. \E key : Done(h[i - 1], ops[i], key, h[i])
    BY <1>2, <1>4, <2>1
  <2>3. i - 1 = index
    BY <1>2, <1>4
  <2> QED
    BY <1>3, <1>4, <2>2, <2>3
<1>6. Closed(s) /\ Closed(n) /\ Closed(t)
  BY <1>1, <1>2, <1>4, NowIsClosed DEF Follows, IsRun, BatchInv
<1>7. base \in Bases /\ Corresponds(base, p, s, t)
  BY <1>1, <1>4 DEF Follows, BatchInv, BatchTypes
<1>8. PICK key \in AllKeys \cup {None} : \E E, F, L, A, M : Did(t, op, key, Whole(E, F, L, A, M))
  BY <1>5, <1>6, <1>7, CanFollow DEF Done
<1>9. PICK E, F, L, A, M, m : Did(t, op, key, m) /\ m = Whole(E, F, L, A, M)
  BY <1>8
<1>10. Asks(t, op)
  BY <1>5, <1>6, <1>7, AsksUnder DEF Done
<1>11. PICK q : Corresponds(base, q, n, m)
  BY <1>3, <1>5, <1>6, <1>7, <1>9, SameStep DEF Done
<1>12. IsValid(m.entities, m.fields, m.links)
  BY <1>5, <1>6, <1>11, ValidUnder DEF Done, Corresponds
<1>13. Done(t, op, key, m)
  BY <1>9, <1>10, <1>12 DEF Done
<1> QED
  BY <1>2, <1>3, <1>4, <1>9, <1>13 DEF CanPerform

\* "Strict mode, used on approve" is never refused: whichever keys are drawn, the next
\* operation of an approved list can be performed, guards, refs and validation included.
\* This is ReplayIsNotRefused with its ENABLED written out (PerformIsDone).
THEOREM NeverRefused == BatchSpec => []NextIsPossible
BY BatchInvariance, ListAlwaysFits, ReplayCanGoOn, PTL
=============================================================================
