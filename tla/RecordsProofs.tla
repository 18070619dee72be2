---------------------------- MODULE RecordsProofs ----------------------------
(***************************************************************************)
(* Proofs about Records, for every set of records, keys, definitions and    *)
(* requests.  The write lock makes what a write checked still true when it  *)
(* commits (CheckHolds), although approvals and other writes run all the    *)
(* time; a read relies only on what can never change: the entity type of a  *)
(* record that exists.                                                      *)
(***************************************************************************)
EXTENDS Impact, TLAPS

\* The part of the type invariant that the proofs rely on.
Shape == /\ spec \in Specs
         /\ records \in [RecordIds -> EntityKeys \cup {NoRecord}]
         /\ attributes \in [RecordIds -> [Keys -> Values \cup RecordIds \cup {NoValue}]]
         /\ loc \in [Threads -> Local]

\* A row that does not exist has no attributes.
NoStrayAttributes == \A r \in RecordIds : records[r] = NoRecord => attributes[r] = NoAttributes

\* A stored target exists and is of the link's entity type.
TargetsExist == \A r \in RecordIds, l \in LinkKeys : attributes[r][l] # NoValue =>
                   attributes[r][l] \in RecordIds /\ records[attributes[r][l]] = To[l]

\* Whoever is between its check and its commit holds the lock.
LockIsHeld == \A t \in Threads : loc[t].pc \in {"check", "write"} => writer = t

\* What the check of t found, as of now.
CheckHolds(t) ==
    /\ loc[t].entity \in spec.entities
    /\ loc[t].entity \in EntityKeys
    /\ loc[t].id # NoRecord => loc[t].id \in RecordIds /\ records[loc[t].id] = loc[t].entity
    /\ IsAccepted(loc[t].entity, loc[t].id, loc[t].cleaned)
    /\ \A f \in DOMAIN loc[t].cleaned \cap FieldKeys :
          /\ loc[t].cleaned[f] \in Values \cup {NoValue}
          /\ ~IsEmpty(loc[t].cleaned[f]) =>
                Coerce[spec.type[f]][loc[t].cleaned[f]] = loc[t].cleaned[f]
    /\ \A l \in DOMAIN loc[t].cleaned \cap LinkKeys :
          loc[t].cleaned[l] # NoValue =>
             /\ loc[t].cleaned[l] \in RecordIds
             /\ TargetFits(l, loc[t].cleaned[l], loc[t].id)

\* The targets a page has seen exist; once it has the labels, they have one.
PageHolds(t) ==
    ~ (At(t, "holders") \/ At(t, "backlinks")) =>
       \A l \in LinkKeys :
          /\ \A target \in loc[t].shown[l] : l \in loc[t].links /\ records[target] = To[l]
          /\ At(t, "show") => loc[t].shown[l] \subseteq loc[t].labels[l]

\* The holders list_linked_by has seen, of each link, are those of one SELECT.
BacklinksHold(t) ==
    /\ At(t, "owned") \/ At(t, "holders") => loc[t].id \in RecordIds
    /\ \A l \in LinkKeys :
          /\ At(t, "owned") => loc[t].shown[l] = {}
          /\ At(t, "holders") \/ At(t, "backlinks") =>
                /\ \A r \in loc[t].shown[l] : records[r] = From[l]
                /\ Cardinality[l] = "one_to_one" => \A p, q \in loc[t].shown[l] : p = q

ReadHolds(t) == PageHolds(t) /\ BacklinksHold(t)

IInv == /\ Shape
        /\ NoStrayAttributes
        /\ TargetsExist
        /\ OneToOneIsUnique
        /\ LockIsHeld
        /\ \A t \in Threads : At(t, "write") => CheckHolds(t)
        /\ \A t \in Threads : ReadHolds(t)
-----------------------------------------------------------------------------

LEMMA IdleIsLocal == Idle \in Local
<1>1. NoChanges \in [{} -> Values \cup RecordIds \cup {NoValue}]
  BY DEF NoChanges
<1>2. {} \in SUBSET Keys
  OBVIOUS
<1>3. NoChanges \in Changes
  BY <1>1, <1>2 DEF Changes
<1> QED
  BY <1>3 DEF Idle, Local, Targets, NoTargets

LEMMA InitHolds == Init => IInv
<1> SUFFICES ASSUME Init PROVE IInv
  OBVIOUS
<1>1. Shape
  BY IdleIsLocal DEF Init, Shape, NoAttributes
<1>2. NoStrayAttributes /\ TargetsExist /\ OneToOneIsUnique
  BY RecordsAssumption
  DEF Init, NoStrayAttributes, TargetsExist, OneToOneIsUnique, Holders, NoAttributes, Keys
<1>3. \A t \in Threads : loc[t] = Idle
  BY DEF Init
<1>4. LockIsHeld /\ (\A t \in Threads : At(t, "write") => CheckHolds(t))
  BY <1>3 DEF LockIsHeld, At, Idle
<1>5. \A t \in Threads : ReadHolds(t)
  <2>1. Idle.pc = "idle" /\ Idle.shown = NoTargets
    BY DEF Idle
  <2> QED
    BY <1>3, <2>1 DEF ReadHolds, PageHolds, BacklinksHold, At, NoTargets
<1> QED
  BY <1>1, <1>2, <1>4, <1>5 DEF IInv

\* What is checked depends on the definition and the tables only.
LEMMA SameChecks ==
    ASSUME NEW t \in Threads, CheckHolds(t), loc'[t] = loc[t],
           UNCHANGED <<spec, records, attributes>>
    PROVE  CheckHolds(t)'
BY DEF CheckHolds, IsAccepted, ActiveFields, EditableLinks, IsComplete, IsEmpty, Merge, Existing,
       TargetFits, Holders

LEMMA SameTables ==
    ASSUME Shape, NoStrayAttributes, TargetsExist, OneToOneIsUnique,
           UNCHANGED <<records, attributes>>
    PROVE  NoStrayAttributes' /\ TargetsExist' /\ OneToOneIsUnique'
BY DEF NoStrayAttributes, TargetsExist, OneToOneIsUnique, Holders

\* A step of t that writes nothing and only moves t.
LEMMA LocalStep ==
    ASSUME IInv, NEW t \in Threads, NEW l \in Local, loc' = [loc EXCEPT ![t] = l],
           UNCHANGED <<spec, records, attributes>>,
           LockIsHeld', l.pc = "write" => CheckHolds(t)', ReadHolds(t)'
    PROVE  IInv'
<1>1. /\ loc'[t] = l
      /\ \A u \in Threads : u # t => loc'[u] = loc[u]
  BY DEF IInv, Shape
<1>2. Shape'
  BY DEF IInv, Shape
<1>3. \A u \in Threads : At(u, "write")' => CheckHolds(u)'
  <2> SUFFICES ASSUME NEW u \in Threads, At(u, "write")' PROVE CheckHolds(u)'
    OBVIOUS
  <2>1. CASE u = t
    BY <1>1, <2>1 DEF At
  <2>2. CASE u # t
    <3>1. loc'[u] = loc[u] /\ At(u, "write")
      BY <1>1, <2>2 DEF At
    <3> QED
      BY <3>1, SameChecks DEF IInv
  <2> QED
    BY <2>1, <2>2
<1>4. \A u \in Threads : ReadHolds(u)'
  <2> SUFFICES ASSUME NEW u \in Threads, u # t PROVE ReadHolds(u)'
    OBVIOUS
  <2>1. loc'[u] = loc[u] /\ ReadHolds(u)
    BY <1>1 DEF IInv
  <2> QED
    BY <2>1 DEF ReadHolds, PageHolds, BacklinksHold, At
<1> QED
  BY <1>2, <1>3, <1>4, SameTables DEF IInv
-----------------------------------------------------------------------------
(* The steps that write nothing.                                            *)

LEMMA BeginWriteHolds == ASSUME IInv, NEW t \in Threads, BeginWrite(t) PROVE IInv'
<1> DEFINE l == [loc[t] EXCEPT !.pc = "check"]
<1>1. loc[t] \in Local
  BY DEF IInv, Shape
<1>2. l \in Local /\ l.pc = "check" /\ loc' = [loc EXCEPT ![t] = l]
  BY <1>1 DEF BeginWrite, Local
<1>3. loc'[t] = l /\ \A u \in Threads : u # t => loc'[u] = loc[u]
  BY <1>2 DEF IInv, Shape
<1>4. LockIsHeld'
  BY <1>3, RecordsAssumption DEF BeginWrite, IInv, LockIsHeld
<1>5. ReadHolds(t)'
  BY <1>1, <1>2, <1>3 DEF BeginWrite, IInv, ReadHolds, PageHolds, BacklinksHold, At, Idle, Local, NoTargets
<1> HIDE DEF l
<1> QED
  BY <1>2, <1>4, <1>5, LocalStep DEF BeginWrite

\* A request that is over, whatever became of it.
LEMMA ReturnHolds ==
    ASSUME IInv, NEW t \in Threads, Return(t), UNCHANGED <<spec, records, attributes>>,
           writer' = writer \/ writer \in {t, NoThread}
    PROVE  IInv'
<1>1. loc' = [loc EXCEPT ![t] = Idle]
  BY DEF Return
<1>2. loc'[t] = Idle /\ \A u \in Threads : u # t => loc'[u] = loc[u]
  BY <1>1 DEF IInv, Shape
<1>3. LockIsHeld'
  BY <1>2, RecordsAssumption DEF IInv, LockIsHeld, Idle
<1>4. ReadHolds(t)'
  BY <1>2 DEF ReadHolds, PageHolds, BacklinksHold, At, Idle, NoTargets
<1>5. Idle.pc # "write"
  BY DEF Idle
<1> QED
  BY <1>1, <1>3, <1>4, <1>5, IdleIsLocal, LocalStep

LEMMA ReadSpecHolds ==
    ASSUME IInv, NEW t \in Threads, NEW e \in EntityKeys, ReadSpec(t, e) PROVE IInv'
<1> DEFINE l == [loc[t] EXCEPT !.pc = "page", !.entity = e, !.links = EditableLinks(e)]
<1>1. loc[t] = Idle /\ loc[t] \in Local
  BY DEF IInv, Shape, ReadSpec
<1>2. EditableLinks(e) \in SUBSET LinkKeys
  BY RecordsAssumption DEF EditableLinks, IInv, Shape, Definition
<1>3. l \in Local /\ l.pc = "page" /\ loc' = [loc EXCEPT ![t] = l]
  BY <1>1, <1>2 DEF ReadSpec, Local
<1>4. loc'[t] = l /\ \A u \in Threads : u # t => loc'[u] = loc[u]
  BY <1>3 DEF IInv, Shape
<1>5. LockIsHeld'
  BY <1>3, <1>4 DEF ReadSpec, IInv, LockIsHeld
<1>6. l.shown = NoTargets
  BY <1>1 DEF Idle
<1> HIDE DEF l
<1>7. ReadHolds(t)'
  BY <1>3, <1>4, <1>6 DEF ReadHolds, PageHolds, BacklinksHold, At, NoTargets
<1> QED
  BY <1>3, <1>5, <1>7, LocalStep DEF ReadSpec

LEMMA ReadPageHolds ==
    ASSUME IInv, NEW t \in Threads, NEW page \in SUBSET RecordIds, ReadPage(t, page)
    PROVE  IInv'
<1> DEFINE seen == [k \in LinkKeys |->
              {target \in RecordIds :
                  k \in loc[t].links /\ \E r \in page : attributes[r][k] = target}]
           l == [loc[t] EXCEPT !.pc = "labels", !.shown = seen]
<1>1. loc[t] \in Local
  BY DEF IInv, Shape
<1>2. seen \in Targets
  BY DEF Targets
<1>3. l \in Local /\ l.pc = "labels" /\ l.shown = seen /\ l.links = loc[t].links
  BY <1>1, <1>2 DEF Local
<1>4. loc' = [loc EXCEPT ![t] = l]
  BY DEF ReadPage
<1>5. loc'[t] = l /\ \A u \in Threads : u # t => loc'[u] = loc[u]
  BY <1>4 DEF IInv, Shape
<1>6. LockIsHeld'
  BY <1>3, <1>5 DEF ReadPage, IInv, LockIsHeld
<1>7. \A k \in LinkKeys : \A target \in seen[k] : k \in loc[t].links /\ records[target] = To[k]
  BY RecordsAssumption DEF IInv, TargetsExist
<1> HIDE DEF seen, l
<1>8. ReadHolds(t)'
  <2>1. loc'[t].shown = seen /\ loc'[t].links = loc[t].links /\ loc'[t].pc = "labels"
    BY <1>3, <1>5
  <2>2. records' = records
    BY DEF ReadPage
  <2> QED
    BY <1>7, <2>1, <2>2 DEF ReadHolds, PageHolds, BacklinksHold, At
<1> QED
  BY <1>3, <1>4, <1>6, <1>8, LocalStep DEF ReadPage

LEMMA ReadLabelsHolds == ASSUME IInv, NEW t \in Threads, ReadLabels(t) PROVE IInv'
<1> DEFINE found == [k \in LinkKeys |->
              {target \in RecordIds : k \in loc[t].links /\ records[target] = To[k]}]
           l == [loc[t] EXCEPT !.pc = "show", !.labels = found]
<1>1. loc[t] \in Local
  BY DEF IInv, Shape
<1>2. found \in Targets
  BY DEF Targets
<1>3. l \in Local /\ l.pc = "show" /\ l.labels = found /\ l.shown = loc[t].shown
      /\ l.links = loc[t].links
  BY <1>1, <1>2 DEF Local
<1>4. loc' = [loc EXCEPT ![t] = l]
  BY DEF ReadLabels
<1>5. loc'[t] = l /\ \A u \in Threads : u # t => loc'[u] = loc[u]
  BY <1>4 DEF IInv, Shape
<1>6. LockIsHeld'
  BY <1>3, <1>5 DEF ReadLabels, IInv, LockIsHeld
<1>7. \A k \in LinkKeys : loc[t].shown[k] \subseteq found[k]
  <2>1. \A k \in LinkKeys : loc[t].shown[k] \subseteq RecordIds
    BY <1>1 DEF Local, Targets
  <2>2. PageHolds(t) /\ At(t, "labels")
    BY DEF IInv, ReadHolds, ReadLabels
  <2> QED
    BY <2>1, <2>2 DEF PageHolds, At
<1>8. ReadHolds(t)'
  <2>1. PageHolds(t) /\ At(t, "labels") /\ records' = records
    BY DEF IInv, ReadHolds, ReadLabels
  <2>2. /\ loc'[t].pc = "show" /\ loc'[t].shown = loc[t].shown
        /\ loc'[t].links = loc[t].links /\ loc'[t].labels = found
    BY <1>3, <1>5
  <2> HIDE DEF l, found
  <2>3. PageHolds(t)'
    BY <1>7, <2>1, <2>2 DEF PageHolds, At
  <2> QED
    BY <2>2, <2>3 DEF ReadHolds, BacklinksHold, At
<1> HIDE DEF l
<1> QED
  BY <1>3, <1>4, <1>6, <1>8, LocalStep DEF ReadLabels

LEMMA ReadInboundHolds ==
    ASSUME IInv, NEW t \in Threads, NEW e \in EntityKeys, NEW id \in RecordIds,
           ReadInbound(t, e, id)
    PROVE  IInv'
<1> DEFINE l == [loc[t] EXCEPT !.pc = "owned", !.id = id, !.entity = e,
                               !.links = InboundLinks(e)]
<1>1. loc[t] = Idle /\ loc[t] \in Local
  BY DEF IInv, Shape, ReadInbound
<1>2. InboundLinks(e) \in SUBSET LinkKeys
  BY RecordsAssumption DEF InboundLinks, IInv, Shape, Definition
<1>3. l \in Local /\ l.pc = "owned" /\ l.id = id /\ l.shown = NoTargets
      /\ loc' = [loc EXCEPT ![t] = l]
  <2>1. l \in Local /\ l.pc = "owned" /\ l.id = id /\ l.shown = loc[t].shown
    BY <1>1, <1>2 DEF Local
  <2>2. loc[t].shown = NoTargets
    BY <1>1 DEF Idle
  <2>3. loc' = [loc EXCEPT ![t] = l]
    BY DEF ReadInbound
  <2> QED
    BY <2>1, <2>2, <2>3
<1>4. loc'[t] = l /\ \A u \in Threads : u # t => loc'[u] = loc[u]
  BY <1>3 DEF IInv, Shape
<1> HIDE DEF l
<1>5. LockIsHeld'
  BY <1>3, <1>4 DEF ReadInbound, IInv, LockIsHeld
<1>6. ReadHolds(t)'
  BY <1>3, <1>4 DEF ReadHolds, PageHolds, BacklinksHold, At, NoTargets
<1> QED
  BY <1>3, <1>5, <1>6, LocalStep DEF ReadInbound

LEMMA ReadOwnedHolds == ASSUME IInv, NEW t \in Threads, ReadOwned(t) PROVE IInv'
<1>1. CASE Return(t)
  BY <1>1, ReturnHolds DEF ReadOwned
<1>2. CASE ~Return(t)
  <2> DEFINE l == [loc[t] EXCEPT !.pc = "holders"]
  <2>1. loc[t] \in Local /\ At(t, "owned") /\ loc' = [loc EXCEPT ![t] = l]
    BY <1>2 DEF IInv, Shape, ReadOwned
  <2>2. l \in Local /\ l.pc = "holders" /\ l.id = loc[t].id /\ l.shown = loc[t].shown
    BY <2>1 DEF Local
  <2> HIDE DEF l
  <2>3. loc'[t] = l /\ \A u \in Threads : u # t => loc'[u] = loc[u]
    BY <2>1 DEF IInv, Shape
  <2>4. LockIsHeld'
    BY <2>2, <2>3 DEF ReadOwned, IInv, LockIsHeld
  <2>5. \A k \in LinkKeys : loc'[t].shown[k] = {}
    BY <2>1, <2>2, <2>3 DEF IInv, ReadHolds, BacklinksHold
  <2>6. ReadHolds(t)'
    BY <2>1, <2>2, <2>3, <2>5 DEF IInv, ReadHolds, PageHolds, BacklinksHold, At
  <2> QED
    BY <2>1, <2>2, <2>4, <2>6, LocalStep DEF ReadOwned
<1> QED
  BY <1>1, <1>2

LEMMA ReadHoldersHolds ==
    ASSUME IInv, NEW t \in Threads, NEW k \in LinkKeys, ReadHolders(t, k) PROVE IInv'
<1> DEFINE pc == IF loc[t].links = {k} THEN "backlinks" ELSE loc[t].pc
           seen == [loc[t].shown EXCEPT ![k] = Holders(k, loc[t].id)]
           l == [loc[t] EXCEPT !.shown = seen, !.links = @ \ {k}, !.pc = pc]
<1>1. loc[t] \in Local /\ At(t, "holders")
  BY DEF IInv, Shape, ReadHolders
<1>2. loc[t].shown \in Targets /\ Holders(k, loc[t].id) \subseteq RecordIds
  BY <1>1 DEF Local, Holders
<1>3. seen \in Targets /\ \A m \in LinkKeys :
         seen[m] = IF m = k THEN Holders(k, loc[t].id) ELSE loc[t].shown[m]
  BY <1>2 DEF Targets
<1>4. pc \in {"holders", "backlinks"}
  BY <1>1 DEF At
<1>5. loc' = [loc EXCEPT ![t] = l]
  BY DEF ReadHolders
<1> HIDE DEF pc, seen
<1>6. l \in Local /\ l.pc = pc /\ l.id = loc[t].id /\ l.shown = seen
  BY <1>1, <1>3, <1>4 DEF Local
<1> HIDE DEF l
<1>7. loc'[t] = l /\ \A u \in Threads : u # t => loc'[u] = loc[u]
  BY <1>5 DEF IInv, Shape
<1>8. LockIsHeld'
  BY <1>4, <1>6, <1>7 DEF ReadHolders, IInv, LockIsHeld
<1>9. ReadHolds(t)'
  <2>1. ASSUME NEW m \in LinkKeys
        PROVE  /\ \A r \in seen[m] : records[r] = From[m]
               /\ Cardinality[m] = "one_to_one" => \A p, q \in seen[m] : p = q
    <3>1. CASE m = k
      <4>1. seen[m] = Holders(m, loc[t].id)
        BY <1>3, <3>1
      <4>2. \A r \in seen[m] : records[r] = From[m]
        BY <4>1 DEF Holders
      <4>3. ASSUME Cardinality[m] = "one_to_one", NEW p \in seen[m], NEW q \in seen[m]
            PROVE  p = q
        <5>1. loc[t].id \in RecordIds
          BY <1>1 DEF IInv, ReadHolds, BacklinksHold
        <5> QED
          BY <4>1, <4>3, <5>1 DEF IInv, OneToOneIsUnique
      <4> QED
        BY <4>2, <4>3
    <3>2. CASE m # k
      <4>1. seen[m] = loc[t].shown[m]
        BY <1>3, <3>2
      <4> QED
        BY <1>1, <4>1 DEF IInv, ReadHolds, BacklinksHold
    <3> QED
      BY <3>1, <3>2
  <2>2. records' = records
    BY DEF ReadHolders
  <2> QED
    BY <1>1, <1>4, <1>6, <1>7, <2>1, <2>2 DEF IInv, ReadHolds, PageHolds, BacklinksHold, At
<1> QED
  BY <1>4, <1>5, <1>6, <1>8, <1>9, LocalStep DEF ReadHolders

\* Another definition: the lock is free, so nobody relies on the old one.
LEMMA ChangeSpecHolds == IInv /\ ChangeSpec => IInv'
<1> SUFFICES ASSUME IInv, ChangeSpec PROVE IInv'
  OBVIOUS
<1>1. \A t \in Threads : loc[t].pc \notin {"check", "write"}
  BY RecordsAssumption DEF ChangeSpec, IInv, LockIsHeld
<1>2. Shape' /\ LockIsHeld'
  BY <1>1 DEF IInv, Shape, LockIsHeld, ChangeSpec
<1>3. NoStrayAttributes' /\ TargetsExist' /\ OneToOneIsUnique'
  BY SameTables DEF IInv, ChangeSpec
<1>4. \A t \in Threads : At(t, "write")' => CheckHolds(t)'
  BY <1>1 DEF At, ChangeSpec
<1>5. \A t \in Threads : ReadHolds(t)'
  BY DEF IInv, ReadHolds, PageHolds, BacklinksHold, At, ChangeSpec
<1> QED
  BY <1>2, <1>3, <1>4, <1>5 DEF IInv
-----------------------------------------------------------------------------
(* A write: what its check finds, and that it still holds at the commit.    *)

\* A value that is accepted is one that may be stored.
LEMMA CheckedValue ==
    ASSUME IInv, NEW id, NEW k \in Keys, NEW raw \in Values \cup RecordIds \cup {NoValue},
           Checked(k, raw, id) # Refused
    PROVE  /\ Checked(k, raw, id) \in Values \cup RecordIds \cup {NoValue}
           /\ k \in FieldKeys =>
                 /\ Checked(k, raw, id) \in Values \cup {NoValue}
                 /\ ~IsEmpty(Checked(k, raw, id)) =>
                       Coerce[spec.type[k]][Checked(k, raw, id)] = Checked(k, raw, id)
           /\ k \in LinkKeys /\ Checked(k, raw, id) # NoValue =>
                 /\ Checked(k, raw, id) \in RecordIds
                 /\ TargetFits(k, Checked(k, raw, id), id)
<1>1. spec.type \in [FieldKeys -> Types]
  BY RecordsAssumption DEF IInv, Shape, Definition
<1>2. CASE raw = NoValue \/ (k \in LinkKeys /\ raw = Blank)
  BY <1>2 DEF Checked, IsEmpty
<1>3. CASE raw # NoValue /\ k \in FieldKeys
  <2>0. k \notin LinkKeys
    BY <1>3, RecordsAssumption
  <2>1. raw \in Values /\ Checked(k, raw, id) = Coerce[spec.type[k]][raw]
    BY <1>3, <2>0 DEF Checked
  <2>2. spec.type[k] \in Types
    BY <1>1, <1>3
  <2>3. Checked(k, raw, id) \in Values \cup {NoValue}
    BY <2>1, <2>2, RecordsAssumption
  <2>4. CASE IsEmpty(Checked(k, raw, id))
    BY <2>0, <2>3, <2>4
  <2>5. CASE ~IsEmpty(Checked(k, raw, id))
    <3>1. Coerce[spec.type[k]][raw] \in Values \ {Blank}
      BY <2>1, <2>3, <2>5 DEF IsEmpty
    <3>2. Coerce[spec.type[k]][Checked(k, raw, id)] = Checked(k, raw, id)
      BY <2>1, <2>2, <3>1, RecordsAssumption
    <3> QED
      BY <2>0, <2>1, <3>1, <3>2
  <2> QED
    BY <2>4, <2>5
<1>4. CASE k \notin FieldKeys /\ raw # NoValue /\ raw # Blank
  <2>1. raw \in RecordIds /\ TargetFits(k, raw, id) /\ Checked(k, raw, id) = raw
    BY <1>4 DEF Checked
  <2> QED
    BY <2>1, <1>4
<1> QED
  BY <1>2, <1>3, <1>4 DEF Keys

LEMMA CheckedChanges ==
    ASSUME IInv, NEW id, NEW request \in Changes,
           \A k \in DOMAIN request : Checked(k, request[k], id) # Refused
    PROVE  [k \in DOMAIN request |-> Checked(k, request[k], id)] \in Changes
<1>1. PICK ks \in SUBSET Keys : request \in [ks -> Values \cup RecordIds \cup {NoValue}]
  BY DEF Changes
<1>2. \A k \in ks : Checked(k, request[k], id) \in Values \cup RecordIds \cup {NoValue}
  BY <1>1, CheckedValue
<1>3. [k \in DOMAIN request |-> Checked(k, request[k], id)]
         \in [ks -> Values \cup RecordIds \cup {NoValue}]
  BY <1>1, <1>2
<1> QED
  BY <1>3 DEF Changes

LEMMA CheckStepHolds ==
    ASSUME IInv, NEW t \in Threads, NEW e \in EntityKeys,
           NEW id \in RecordIds \cup {NoRecord}, NEW request \in Changes,
           Check(t, e, id, request)
    PROVE  IInv'
<1> DEFINE cleaned == [k \in DOMAIN request |-> Checked(k, request[k], id)]
           accepted == /\ e \in spec.entities
                       /\ id # NoRecord => records[id] = e
                       /\ IsAccepted(e, id, cleaned)
<1>0. UNCHANGED <<spec, records, attributes>> /\ At(t, "check") /\ loc[t] \in Local
  BY DEF Check, IInv, Shape
<1>1. CASE ~accepted
  <2>1. Return(t) /\ writer' = NoThread
    BY <1>1 DEF Check
  <2>2. writer = t
    BY <1>0 DEF IInv, LockIsHeld, At
  <2> QED
    BY <1>0, <2>1, <2>2, ReturnHolds, RecordsAssumption
<1>2. CASE accepted
  <2>1. \A k \in DOMAIN request : Checked(k, request[k], id) # Refused
    BY <1>2 DEF IsAccepted
  <2>2. cleaned \in Changes
    BY <2>1, CheckedChanges
  <2>3. PICK c \in Changes : c = cleaned
    BY <2>2
  <2>4. PICK ks \in SUBSET Keys : request \in [ks -> Values \cup RecordIds \cup {NoValue}]
    BY DEF Changes
  <2>5. DOMAIN c = ks /\ \A k \in ks : c[k] = Checked(k, request[k], id)
    BY <2>3, <2>4
  <2> DEFINE l == [loc[t] EXCEPT !.pc = "write", !.id = id, !.entity = e, !.cleaned = c]
  <2>6. loc' = [loc EXCEPT ![t] = l] /\ writer' = writer
    BY <1>2, <2>3 DEF Check
  <2>7. /\ l \in Local /\ l.pc = "write" /\ l.id = id /\ l.entity = e /\ l.cleaned = c
        /\ l.shown = loc[t].shown /\ l.links = loc[t].links
    BY <1>0 DEF Local
  <2>8. IsAccepted(e, id, c)
    BY <1>2, <2>3
  <2> HIDE DEF cleaned, l
  <2>9. loc'[t] = l /\ \A u \in Threads : u # t => loc'[u] = loc[u]
    BY <2>6 DEF IInv, Shape
  <2>10. LockIsHeld'
    BY <1>0, <2>6, <2>9 DEF IInv, LockIsHeld, At
  <2>11. ReadHolds(t)'
    BY <1>0, <2>7, <2>9 DEF IInv, ReadHolds, PageHolds, BacklinksHold, At
  <2>12. \A k \in ks :
            /\ k \in FieldKeys =>
                  /\ c[k] \in Values \cup {NoValue}
                  /\ ~IsEmpty(c[k]) => Coerce[spec.type[k]][c[k]] = c[k]
            /\ k \in LinkKeys /\ c[k] # NoValue =>
                  c[k] \in RecordIds /\ TargetFits(k, c[k], id)
    <3> SUFFICES ASSUME NEW k \in ks
                 PROVE  /\ k \in FieldKeys =>
                              /\ c[k] \in Values \cup {NoValue}
                              /\ ~IsEmpty(c[k]) => Coerce[spec.type[k]][c[k]] = c[k]
                        /\ k \in LinkKeys /\ c[k] # NoValue =>
                              c[k] \in RecordIds /\ TargetFits(k, c[k], id)
      OBVIOUS
    <3>1. /\ k \in Keys /\ request[k] \in Values \cup RecordIds \cup {NoValue}
          /\ c[k] = Checked(k, request[k], id) /\ Checked(k, request[k], id) # Refused
      BY <2>1, <2>4, <2>5
    <3> QED
      BY <3>1, CheckedValue
  <2>13. CheckHolds(t)'
    <3>1. /\ loc'[t].entity = e /\ loc'[t].id = id /\ loc'[t].cleaned = c
      BY <2>7, <2>9
    <3>2. IsAccepted(e, id, c)'
      BY <1>0, <2>8 DEF IsAccepted, ActiveFields, EditableLinks, IsComplete, IsEmpty, Merge, Existing
    <3>3. \A k \in ks : TargetFits(k, c[k], id) => TargetFits(k, c[k], id)'
      BY <1>0 DEF TargetFits, Holders
    <3> QED
      BY <1>0, <1>2, <2>5, <2>12, <3>1, <3>2, <3>3 DEF CheckHolds
  <2> QED
    BY <1>0, <2>6, <2>7, <2>10, <2>11, <2>13, LocalStep
<1> QED
  BY <1>1, <1>2
-----------------------------------------------------------------------------

\* What a write stores: c, in the row id of e, and what its check promises.
Stored(id, e, c) ==
    /\ records' = [records EXCEPT ![id] = e]
    /\ attributes' = [attributes EXCEPT ![id] = Merge(attributes[id], c)]
    /\ spec' = spec
    /\ records[id] \in {e, NoRecord}
    /\ e \in spec.entities
    /\ DOMAIN c \subseteq ActiveFields(e) \cup EditableLinks(e)
    /\ IsComplete(e, Merge(attributes[id], c))
    /\ \A f \in DOMAIN c \cap FieldKeys :
          /\ c[f] \in Values \cup {NoValue}
          /\ ~IsEmpty(c[f]) => Coerce[spec.type[f]][c[f]] = c[f]
    /\ \A l \in DOMAIN c \cap LinkKeys : c[l] # NoValue =>
          /\ c[l] \in RecordIds
          /\ records[c[l]] = To[l]
          /\ Cardinality[l] = "one_to_one" => Holders(l, c[l]) \subseteq {id}

LEMMA WriteStores ==
    ASSUME IInv, NEW t \in Threads, Write(t)
    PROVE  \E id \in RecordIds, e \in EntityKeys, c \in Changes :
              Stored(id, e, c) /\ e = loc[t].entity /\ c = loc[t].cleaned
<1>1. PICK id \in RecordIds :
         /\ IF loc[t].id = NoRecord THEN records[id] = NoRecord ELSE id = loc[t].id
         /\ records' = [records EXCEPT ![id] = loc[t].entity]
         /\ attributes' = [attributes EXCEPT ![id] = Merge(@, loc[t].cleaned)]
  BY DEF Write
<1>2. PICK c \in Changes : c = loc[t].cleaned
  BY DEF IInv, Shape, Local
<1>3. CheckHolds(t)
  BY DEF Write, IInv
<1>4. PICK e \in EntityKeys : e = loc[t].entity
  BY <1>3 DEF CheckHolds
<1>5. records[id] \in {e, NoRecord} /\ loc[t].id \in {id, NoRecord}
  BY <1>1, <1>3, <1>4 DEF CheckHolds
<1>6. Existing(loc[t].id) = attributes[id]
  <2>1. CASE loc[t].id = NoRecord
    BY <1>1, <2>1 DEF Existing, IInv, NoStrayAttributes
  <2>2. CASE loc[t].id # NoRecord
    BY <1>1, <2>2 DEF Existing
  <2> QED
    BY <2>1, <2>2
<1>7. /\ DOMAIN c \subseteq ActiveFields(e) \cup EditableLinks(e)
      /\ IsComplete(e, Merge(attributes[id], c))
  BY <1>2, <1>3, <1>4, <1>6 DEF CheckHolds, IsAccepted
<1>8. \A l \in DOMAIN c \cap LinkKeys : c[l] # NoValue =>
         /\ c[l] \in RecordIds
         /\ records[c[l]] = To[l]
         /\ Cardinality[l] = "one_to_one" => Holders(l, c[l]) \subseteq {id}
  <2>1. \A l, r : Holders(l, r) \subseteq {loc[t].id} => Holders(l, r) \subseteq {id}
    BY <1>5, RecordsAssumption DEF Holders
  <2> QED
    BY <1>2, <1>3, <2>1 DEF CheckHolds, TargetFits
<1>9. /\ records' = [records EXCEPT ![id] = e]
      /\ attributes' = [attributes EXCEPT ![id] = Merge(attributes[id], c)]
      /\ spec' = spec
  BY <1>1, <1>2, <1>4 DEF Write
<1>10. \A f \in DOMAIN c \cap FieldKeys :
          /\ c[f] \in Values \cup {NoValue}
          /\ ~IsEmpty(c[f]) => Coerce[spec.type[f]][c[f]] = c[f]
  BY <1>2, <1>3 DEF CheckHolds
<1>11. Stored(id, e, c)
  BY <1>3, <1>4, <1>5, <1>7, <1>8, <1>9, <1>10 DEF Stored, CheckHolds
<1> QED
  BY <1>2, <1>4, <1>11

\* The tables after a write, row by row.
LEMMA Rows ==
    ASSUME IInv, NEW id \in RecordIds, NEW e \in EntityKeys, NEW c \in Changes,
           Stored(id, e, c)
    PROVE  /\ records'[id] = e
           /\ \A r \in RecordIds : r # id =>
                 records'[r] = records[r] /\ attributes'[r] = attributes[r]
           /\ \A k \in Keys : attributes'[id][k] =
                 IF k \in DOMAIN c THEN c[k] ELSE attributes[id][k]
           /\ \A r \in RecordIds : records[r] # NoRecord => records'[r] = records[r]
           /\ records' \in [RecordIds -> EntityKeys \cup {NoRecord}]
           /\ attributes' \in [RecordIds -> [Keys -> Values \cup RecordIds \cup {NoValue}]]
<1>1. records \in [RecordIds -> EntityKeys \cup {NoRecord}]
      /\ attributes \in [RecordIds -> [Keys -> Values \cup RecordIds \cup {NoValue}]]
  BY DEF IInv, Shape
<1>2. PICK ks \in SUBSET Keys : c \in [ks -> Values \cup RecordIds \cup {NoValue}]
  BY DEF Changes
<1>3. Merge(attributes[id], c) \in [Keys -> Values \cup RecordIds \cup {NoValue}]
  BY <1>1, <1>2 DEF Merge
<1>4. /\ records' = [records EXCEPT ![id] = e]
      /\ attributes' = [attributes EXCEPT ![id] = Merge(attributes[id], c)]
      /\ records[id] \in {e, NoRecord}
  BY DEF Stored
<1>5. \A k \in Keys : Merge(attributes[id], c)[k] =
         IF k \in DOMAIN c THEN c[k] ELSE attributes[id][k]
  BY DEF Merge
<1>6. attributes'[id] = Merge(attributes[id], c)
  BY <1>1, <1>4
<1>7. /\ records'[id] = e
      /\ \A r \in RecordIds : r # id =>
            records'[r] = records[r] /\ attributes'[r] = attributes[r]
  BY <1>1, <1>4
<1>8. records' \in [RecordIds -> EntityKeys \cup {NoRecord}]
  BY <1>1, <1>4
<1>9. attributes' \in [RecordIds -> [Keys -> Values \cup RecordIds \cup {NoValue}]]
  BY <1>1, <1>3, <1>4
<1>10. \A r \in RecordIds : records[r] # NoRecord => records'[r] = records[r]
  BY <1>4, <1>7
<1> QED
  BY <1>5, <1>6, <1>7, <1>8, <1>9, <1>10

\* The tables stay consistent.
LEMMA StoredTables ==
    ASSUME IInv, NEW id \in RecordIds, NEW e \in EntityKeys, NEW c \in Changes,
           Stored(id, e, c)
    PROVE  NoStrayAttributes' /\ TargetsExist' /\ OneToOneIsUnique'
<1>1. \A r \in RecordIds, l \in LinkKeys : attributes'[r][l] # attributes[r][l] =>
         /\ r = id /\ l \in DOMAIN c /\ attributes'[r][l] = c[l] /\ records'[r] = From[l]
         /\ c[l] # NoValue =>
               /\ c[l] \in RecordIds /\ records[c[l]] = To[l]
               /\ Cardinality[l] = "one_to_one" => Holders(l, c[l]) \subseteq {id}
  <2> SUFFICES ASSUME NEW r \in RecordIds, NEW l \in LinkKeys,
                      attributes'[r][l] # attributes[r][l]
               PROVE  /\ r = id /\ l \in DOMAIN c /\ attributes'[r][l] = c[l]
                      /\ records'[r] = From[l]
                      /\ c[l] # NoValue =>
                            /\ c[l] \in RecordIds /\ records[c[l]] = To[l]
                            /\ Cardinality[l] = "one_to_one" => Holders(l, c[l]) \subseteq {id}
    OBVIOUS
  <2>1. r = id /\ l \in DOMAIN c /\ attributes'[r][l] = c[l] /\ records'[id] = e
    BY Rows DEF Keys
  <2>2. l \in EditableLinks(e)
    <3>1. l \notin FieldKeys
      BY RecordsAssumption
    <3>2. ActiveFields(e) \subseteq FieldKeys
      BY RecordsAssumption DEF ActiveFields, IInv, Shape, Definition
    <3> QED
      BY <2>1, <3>1, <3>2 DEF Stored
  <2> QED
    BY <2>1, <2>2 DEF EditableLinks, Stored
<1>2. NoStrayAttributes'
  BY Rows, RecordsAssumption DEF NoStrayAttributes, IInv
<1>3. TargetsExist'
  <2> SUFFICES ASSUME NEW r \in RecordIds, NEW l \in LinkKeys, attributes'[r][l] # NoValue
               PROVE  attributes'[r][l] \in RecordIds /\ records'[attributes'[r][l]] = To[l]
    BY DEF TargetsExist
  <2>1. attributes'[r][l] \in RecordIds /\ records[attributes'[r][l]] = To[l]
    BY <1>1 DEF IInv, TargetsExist
  <2>2. To[l] # NoRecord
    BY RecordsAssumption
  <2> QED
    BY <2>1, <2>2, Rows
<1>4. OneToOneIsUnique'
  <2> SUFFICES ASSUME NEW l \in LinkKeys, Cardinality[l] = "one_to_one",
                      NEW target \in RecordIds,
                      NEW p \in RecordIds, NEW q \in RecordIds,
                      records'[p] = From[l], attributes'[p][l] = target,
                      records'[q] = From[l], attributes'[q][l] = target
               PROVE  p = q
    BY DEF OneToOneIsUnique, Holders
  <2>1. \A r \in RecordIds : r # id /\ records'[r] = From[l] /\ attributes'[r][l] = target =>
           r \in Holders(l, target)
    BY Rows DEF Holders
  <2>2. target # NoValue
    BY RecordsAssumption
  <2>3. CASE attributes'[id][l] # attributes[id][l] /\ attributes'[id][l] = target
    <3>1. Holders(l, target) \subseteq {id}
      BY <1>1, <2>2, <2>3
    <3> QED
      BY <2>1, <3>1
  <2>4. CASE attributes'[id][l] = attributes[id][l] /\ attributes'[id][l] = target
    <3>1. records[id] # NoRecord
      <4>1. attributes[id][l] # NoAttributes[l]
        BY <2>2, <2>4 DEF NoAttributes, Keys
      <4> QED
        BY <4>1 DEF IInv, NoStrayAttributes
    <3>2. records'[id] = records[id]
      BY <3>1, Rows
    <3>3. p \in Holders(l, target) /\ q \in Holders(l, target)
      BY <2>1, <2>4, <3>2 DEF Holders
    <3> QED
      BY <3>3 DEF IInv, OneToOneIsUnique
  <2>5. CASE attributes'[id][l] # target
    <3>1. p \in Holders(l, target) /\ q \in Holders(l, target)
      BY <2>1, <2>5
    <3> QED
      BY <3>1 DEF IInv, OneToOneIsUnique
  <2> QED
    BY <2>3, <2>4, <2>5
<1> QED
  BY <1>2, <1>3, <1>4

LEMMA WriteHolds == ASSUME IInv, NEW t \in Threads, Write(t) PROVE IInv'
<1>1. PICK id \in RecordIds, e \in EntityKeys, c \in Changes :
         Stored(id, e, c) /\ e = loc[t].entity /\ c = loc[t].cleaned
  BY WriteStores
<1>2. loc' = [loc EXCEPT ![t] = Idle] /\ writer' = NoThread /\ At(t, "write")
  BY DEF Write, Return
<1>3. loc'[t] = Idle /\ \A u \in Threads : u # t => loc'[u] = loc[u]
  BY <1>2 DEF IInv, Shape
<1>4. \A u \in Threads : loc'[u].pc \notin {"check", "write"}
  BY <1>2, <1>3 DEF IInv, LockIsHeld, At, Idle
<1>5. Shape'
  <2>1. loc' \in [Threads -> Local]
    BY <1>2, IdleIsLocal DEF IInv, Shape
  <2>2. spec' \in Specs
    BY <1>1 DEF Stored, IInv, Shape
  <2> QED
    BY <1>1, <2>1, <2>2, Rows DEF Shape
<1>6. NoStrayAttributes' /\ TargetsExist' /\ OneToOneIsUnique'
  BY <1>1, StoredTables
<1>7. LockIsHeld' /\ \A u \in Threads : At(u, "write")' => CheckHolds(u)'
  BY <1>4 DEF LockIsHeld, At
<1>8. \A u \in Threads : ReadHolds(u)'
  <2> SUFFICES ASSUME NEW u \in Threads PROVE ReadHolds(u)'
    OBVIOUS
  <2>1. CASE u = t
    BY <1>3, <2>1 DEF ReadHolds, PageHolds, BacklinksHold, At, Idle, NoTargets
  <2>2. CASE u # t
    <3>1. ReadHolds(u) /\ loc'[u] = loc[u] /\ loc[u] \in Local
      BY <1>3, <2>2 DEF IInv, Shape
    <3>2. \A l \in LinkKeys : loc[u].shown[l] \subseteq RecordIds
                              /\ To[l] # NoRecord /\ From[l] # NoRecord
      BY <3>1, RecordsAssumption DEF Local, Targets
    <3>3. \A r \in RecordIds : records[r] # NoRecord => records'[r] = records[r]
      BY <1>1, Rows
    <3> QED
      BY <3>1, <3>2, <3>3 DEF ReadHolds, PageHolds, BacklinksHold, At
  <2> QED
    BY <2>1, <2>2
<1> QED
  BY <1>5, <1>6, <1>7, <1>8 DEF IInv
-----------------------------------------------------------------------------

LEMMA NextHolds == IInv /\ [Next]_vars => IInv'
<1> SUFFICES ASSUME IInv, [Next]_vars PROVE IInv'
  OBVIOUS
<1>1. CASE ChangeSpec
  BY <1>1, ChangeSpecHolds
<1>2. CASE \E t \in Threads : BeginWrite(t)
  BY <1>2, BeginWriteHolds
<1>3. CASE \E t \in Threads, e \in EntityKeys, id \in RecordIds \cup {NoRecord},
             request \in Changes : Check(t, e, id, request)
  BY <1>3, CheckStepHolds
<1>4. CASE \E t \in Threads : Write(t)
  BY <1>4, WriteHolds
<1>5. CASE \E t \in Threads, e \in EntityKeys : ReadSpec(t, e)
  BY <1>5, ReadSpecHolds
<1>6. CASE \E t \in Threads, page \in SUBSET RecordIds : ReadPage(t, page)
  BY <1>6, ReadPageHolds
<1>7. CASE \E t \in Threads : ReadLabels(t)
  BY <1>7, ReadLabelsHolds
<1>8. CASE \E t \in Threads : Show(t)
  BY <1>8, ReturnHolds DEF Show
<1>9. CASE \E t \in Threads : Fail(t)
  <2>1. PICK t \in Threads : Fail(t)
    BY <1>9
  <2>2. writer' = writer \/ writer \in {t, NoThread}
    BY <2>1 DEF Fail
  <2> QED
    BY <2>1, <2>2, ReturnHolds DEF Fail
<1>11. CASE \E t \in Threads, e \in EntityKeys, id \in RecordIds : ReadInbound(t, e, id)
  BY <1>11, ReadInboundHolds
<1>12. CASE \E t \in Threads : ReadOwned(t)
  BY <1>12, ReadOwnedHolds
<1>13. CASE \E t \in Threads, l \in LinkKeys : ReadHolders(t, l)
  BY <1>13, ReadHoldersHolds
<1>14. CASE \E t \in Threads : ShowBacklinks(t)
  BY <1>14, ReturnHolds DEF ShowBacklinks
<1>10. CASE UNCHANGED vars
  <2>1. spec' = spec /\ records' = records /\ attributes' = attributes /\ writer' = writer
        /\ loc' = loc
    BY <1>10 DEF vars
  <2>2. Shape' /\ LockIsHeld'
    BY <2>1 DEF IInv, Shape, LockIsHeld
  <2>3. NoStrayAttributes' /\ TargetsExist' /\ OneToOneIsUnique'
    BY <2>1, SameTables DEF IInv
  <2>4. \A t \in Threads : At(t, "write")' => CheckHolds(t)'
    BY <2>1, SameChecks DEF IInv, At
  <2>5. \A t \in Threads : ReadHolds(t)'
    BY <2>1 DEF IInv, ReadHolds, PageHolds, BacklinksHold, At
  <2> QED
    BY <2>2, <2>3, <2>4, <2>5 DEF IInv
<1> QED
  BY <1>1, <1>2, <1>3, <1>4, <1>5, <1>6, <1>7, <1>8, <1>9, <1>10, <1>11,
     <1>12, <1>13, <1>14 DEF Next

\* The inductive invariant of the records.
THEOREM Invariance == Spec => []IInv
BY InitHolds, NextHolds, PTL DEF Spec

\* What Shape leaves out of the types: fields hold values, and a thread the lock.
Typed == /\ writer \in Threads \cup {NoThread}
         /\ \A r \in RecordIds, f \in FieldKeys : attributes[r][f] \in Values \cup {NoValue}

LEMMA StoredValues ==
    ASSUME IInv, Typed, NEW t \in Threads, Write(t)
    PROVE  \A r \in RecordIds, f \in FieldKeys : attributes'[r][f] \in Values \cup {NoValue}
<1> SUFFICES ASSUME NEW r \in RecordIds, NEW f \in FieldKeys
             PROVE  attributes'[r][f] \in Values \cup {NoValue}
  OBVIOUS
<1>1. PICK id \in RecordIds, e \in EntityKeys, c \in Changes : Stored(id, e, c)
  BY WriteStores
<1>2. CASE r = id /\ f \in DOMAIN c
  <2>1. attributes'[r][f] = c[f]
    BY <1>1, <1>2, Rows DEF Keys
  <2>2. c[f] \in Values \cup {NoValue}
    BY <1>1, <1>2 DEF Stored
  <2> QED
    BY <2>1, <2>2
<1>3. CASE ~ (r = id /\ f \in DOMAIN c)
  <2>1. attributes'[r][f] = attributes[r][f]
    BY <1>1, <1>3, Rows DEF Keys
  <2> QED
    BY <2>1 DEF Typed
<1> QED
  BY <1>2, <1>3

LEMMA TypedHolds == IInv /\ Typed /\ [Next]_vars => Typed'
<1> SUFFICES ASSUME IInv, Typed, [Next]_vars PROVE Typed'
  OBVIOUS
<1>1. CASE \E t \in Threads : Write(t)
  BY <1>1, StoredValues DEF Write, Typed
<1>2. CASE ~ \E t \in Threads : Write(t)
  <2>1. attributes' = attributes /\ writer' \in Threads \cup {NoThread}
    <3>1. CASE \E t \in Threads : BeginWrite(t) \/ ReadLabels(t) \/ Show(t) \/ Fail(t)
      BY <3>1 DEF BeginWrite, ReadLabels, Show, Fail, Typed
    <3>2. CASE \E t \in Threads, e \in EntityKeys, id \in RecordIds \cup {NoRecord},
                  request \in Changes : Check(t, e, id, request)
      BY <3>2 DEF Check, Typed
    <3>3. CASE \E t \in Threads, e \in EntityKeys : ReadSpec(t, e)
      BY <3>3 DEF ReadSpec, Typed
    <3>4. CASE \E t \in Threads, page \in SUBSET RecordIds : ReadPage(t, page)
      BY <3>4 DEF ReadPage, Typed
    <3>7. CASE \E t \in Threads, e \in EntityKeys, id \in RecordIds : ReadInbound(t, e, id)
      BY <3>7 DEF ReadInbound, Typed
    <3>8. CASE \E t \in Threads : ReadOwned(t) \/ ShowBacklinks(t)
      BY <3>8 DEF ReadOwned, ShowBacklinks, Typed
    <3>9. CASE \E t \in Threads, l \in LinkKeys : ReadHolders(t, l)
      BY <3>9 DEF ReadHolders, Typed
    <3>5. CASE ChangeSpec
      BY <3>5 DEF ChangeSpec, Typed
    <3>6. CASE UNCHANGED vars
      BY <3>6 DEF vars, Typed
    <3> QED
      BY <1>2, <3>1, <3>2, <3>3, <3>4, <3>5, <3>6, <3>7, <3>8, <3>9 DEF Next
  <2> QED
    BY <2>1 DEF Typed
<1> QED
  BY <1>1, <1>2

LEMMA TypedAlways == Spec => []Typed
<1>1. Init => Typed
  BY DEF Init, Typed, NoAttributes, Keys
<1> QED
  BY <1>1, TypedHolds, Invariance, PTL DEF Spec

\* The tables, the lock and the local variables of the requests keep their types.
THEOREM TypeCorrect == Spec => []TypeOK
<1>1. IInv /\ Typed => TypeOK
  <2> SUFFICES ASSUME IInv, Typed, NEW r \in RecordIds PROVE attributes[r] \in Attributes
    BY DEF TypeOK, IInv, Shape, Typed
  <2>1. attributes[r] \in [Keys -> Values \cup RecordIds \cup {NoValue}]
    BY DEF IInv, Shape
  <2>2. \A l \in LinkKeys : attributes[r][l] \in RecordIds \cup {NoValue}
    BY DEF IInv, TargetsExist
  <2> QED
    BY <2>1, <2>2 DEF Typed, Attributes
<1> QED
  BY <1>1, TypedAlways, Invariance, PTL

\* However many writes race, with approvals and reverts between them, no target
\* of a one_to_one link ever has two holders.
THEOREM OneToOne == Spec => []OneToOneIsUnique
<1>1. IInv => OneToOneIsUnique
  BY DEF IInv
<1> QED
  BY <1>1, Invariance, PTL

\* Every link on a page has a label, although its three reads are no snapshot.
THEOREM EveryLinkHasALabel == Spec => []LinksHaveLabels
<1>1. IInv => LinksHaveLabels
  BY DEF IInv, ReadHolds, PageHolds, At, LinksHaveLabels
<1> QED
  BY <1>1, Invariance, PTL

\* What points at a record is told from reads that are no snapshot, and yet never
\* names two records for a one_to_one link.
THEOREM BacklinksNeverClash == Spec => []BacklinksAreSingle
<1>1. IInv => BacklinksAreSingle
  BY DEF IInv, ReadHolds, BacklinksHold, BacklinksAreSingle
<1> QED
  BY <1>1, Invariance, PTL

\* What a write commits fits the definition that is current at that moment.
THEOREM WritesFit == Spec => WritesFitDefinition
<1> DEFINE Fits ==
      \A r \in RecordIds :
          (attributes'[r] # attributes[r] \/ records'[r] # records[r]) =>
             LET e == records'[r]
             IN  /\ e \in spec.entities
                 /\ IsComplete(e, attributes'[r])
                 /\ \A k \in Keys : attributes'[r][k] # attributes[r][k] =>
                       /\ k \in ActiveFields(e) \cup EditableLinks(e)
                       /\ k \in FieldKeys /\ ~IsEmpty(attributes'[r][k]) =>
                             Coerce[spec.type[k]][attributes'[r][k]] = attributes'[r][k]
<1>1. ASSUME IInv, [Next]_vars PROVE [Fits]_vars
  <2>1. CASE UNCHANGED <<records, attributes>>
    BY <2>1
  <2>2. CASE \E t \in Threads : Write(t)
    <3>1. PICK id \in RecordIds, e \in EntityKeys, c \in Changes : Stored(id, e, c)
      BY <1>1, <2>2, WriteStores
    <3> SUFFICES ASSUME NEW r \in RecordIds,
                        attributes'[r] # attributes[r] \/ records'[r] # records[r]
                 PROVE  /\ records'[r] \in spec.entities
                        /\ IsComplete(records'[r], attributes'[r])
                        /\ \A k \in Keys : attributes'[r][k] # attributes[r][k] =>
                              /\ k \in ActiveFields(records'[r]) \cup EditableLinks(records'[r])
                              /\ k \in FieldKeys /\ ~IsEmpty(attributes'[r][k]) =>
                                    Coerce[spec.type[k]][attributes'[r][k]] = attributes'[r][k]
      OBVIOUS
    <3>2. r = id /\ records'[r] = e
      BY <1>1, <3>1, Rows
    <3>3. attributes'[r] = Merge(attributes[id], c)
      BY <1>1, <3>1, <3>2 DEF Stored, IInv, Shape
    <3>4. \A k \in Keys : attributes'[r][k] # attributes[r][k] =>
             k \in DOMAIN c /\ attributes'[r][k] = c[k]
      BY <1>1, <3>1, <3>2, Rows
    <3> QED
      BY <3>1, <3>2, <3>3, <3>4 DEF Stored
  <2>3. CASE ~ (\E t \in Threads : Write(t)) /\ ~ UNCHANGED vars
    <3>1. UNCHANGED <<records, attributes>>
      <4>1. Next
        BY <1>1, <2>3
      <4>2. CASE ChangeSpec
        BY <4>2 DEF ChangeSpec
      <4>3. CASE \E t \in Threads, e \in EntityKeys, id \in RecordIds \cup {NoRecord},
                    request \in Changes : Check(t, e, id, request)
        BY <4>3 DEF Check
      <4>4. CASE \E t \in Threads : BeginWrite(t) \/ ReadLabels(t) \/ Show(t) \/ Fail(t)
        BY <4>4 DEF BeginWrite, ReadLabels, Show, Fail
      <4>5. CASE \E t \in Threads, e \in EntityKeys : ReadSpec(t, e)
        BY <4>5 DEF ReadSpec
      <4>6. CASE \E t \in Threads, page \in SUBSET RecordIds : ReadPage(t, page)
        BY <4>6 DEF ReadPage
      <4>7. CASE \E t \in Threads, e \in EntityKeys, id \in RecordIds : ReadInbound(t, e, id)
        BY <4>7 DEF ReadInbound
      <4>8. CASE \E t \in Threads : ReadOwned(t) \/ ShowBacklinks(t)
        BY <4>8 DEF ReadOwned, ShowBacklinks
      <4>9. CASE \E t \in Threads, l \in LinkKeys : ReadHolders(t, l)
        BY <4>9 DEF ReadHolders
      <4> QED
        BY <2>3, <4>1, <4>2, <4>3, <4>4, <4>5, <4>6, <4>7, <4>8, <4>9 DEF Next
    <3> QED
      BY <2>1, <3>1
  <2> QED
    BY <2>2, <2>3
<1> QED
  BY <1>1, Invariance, PTL DEF Spec, WritesFitDefinition
-----------------------------------------------------------------------------
(* The impact check.  What is counted is compared with the views of the      *)
(* definition before and after the operation, which needs to know where      *)
(* values can be: links that are not editable have none.                     *)

OnlyEditable == \A r \in RecordIds, l \in LinkKeys :
                   attributes[r][l] # NoValue => Cardinality[l] \in EditableCardinalities

LEMMA LinksAreEditable == Spec => []OnlyEditable
<1> DEFINE Fits ==
      \A r \in RecordIds :
          (attributes'[r] # attributes[r] \/ records'[r] # records[r]) =>
             LET e == records'[r]
             IN  /\ e \in spec.entities
                 /\ IsComplete(e, attributes'[r])
                 /\ \A k \in Keys : attributes'[r][k] # attributes[r][k] =>
                       /\ k \in ActiveFields(e) \cup EditableLinks(e)
                       /\ k \in FieldKeys /\ ~IsEmpty(attributes'[r][k]) =>
                             Coerce[spec.type[k]][attributes'[r][k]] = attributes'[r][k]
<1>1. Init => OnlyEditable
  BY DEF Init, OnlyEditable, NoAttributes, Keys
<1>2. ASSUME IInv, OnlyEditable, [Fits]_vars PROVE OnlyEditable'
  <2> SUFFICES ASSUME NEW r \in RecordIds, NEW l \in LinkKeys, attributes'[r][l] # NoValue
               PROVE  Cardinality[l] \in EditableCardinalities
    BY DEF OnlyEditable
  <2>1. CASE attributes'[r][l] = attributes[r][l]
    BY <1>2, <2>1 DEF OnlyEditable
  <2>2. CASE attributes'[r][l] # attributes[r][l]
    <3>1. Fits
      BY <1>2, <2>2 DEF vars
    <3>2. l \in Keys /\ l \notin FieldKeys
      BY RecordsAssumption DEF Keys
    <3>3. l \in ActiveFields(records'[r]) \cup EditableLinks(records'[r])
      BY <2>2, <3>1, <3>2
    <3>4. spec.fields \subseteq FieldKeys
      BY <1>2, RecordsAssumption DEF IInv, Shape, Definition
    <3> QED
      BY <3>2, <3>3, <3>4 DEF ActiveFields, EditableLinks
  <2> QED
    BY <2>1, <2>2
<1> QED
  BY <1>1, <1>2, Invariance, WritesFit, PTL DEF Spec, WritesFitDefinition

\* What the impact check relies on.
ImpactInv == IInv /\ Typed /\ OnlyEditable

\* The parts of a definition, and what is known of the values under it.
LEMMA Parts ==
    ASSUME ImpactInv
    PROVE  /\ spec \in Definition
           /\ spec.entities \subseteq EntityKeys /\ spec.fields \subseteq FieldKeys
           /\ spec.links \subseteq LinkKeys /\ spec.required \subseteq FieldKeys
           /\ spec.type \in [FieldKeys -> Types]
           /\ \A l \in spec.links : {From[l], To[l]} \subseteq spec.entities
           /\ \A r \in RecordIds, f \in FieldKeys : attributes[r][f] \in Values \cup {NoValue}
BY RecordsAssumption DEF ImpactInv, IInv, Shape, Typed, Definition

\* An archive hides the records, the values or the targets that were counted.
LEMMA Hides ==
    ASSUME ImpactInv, NEW op \in Proposable, IsKept(op)
    PROVE  HidesWhatIsTold(op)
<1>1. CASE op.op = "archive_entity_type"
  <2>1. After(op).entities = spec.entities \ {op.entity} /\ op.entity \in spec.entities
    BY <1>1, Parts DEF After, IsKept, Definition
  <2> QED
    BY <1>1, <2>1 DEF HidesWhatIsTold, VisibleOf, Visible, Affected, RecordsOf
<1>2. CASE op.op = "archive_field"
  <2>1. /\ After(op).entities = spec.entities
        /\ After(op).fields = spec.fields \ {op.field}
        /\ op.field \in spec.fields /\ EntityOf[op.field] \in spec.entities
    BY <1>2, Parts DEF After, IsKept, Definition
  <2> QED
    BY <1>2, <2>1
    DEF HidesWhatIsTold, VisibleOf, Visible, VisibleValues, Affected, FieldValues, RecordsOf
<1>3. CASE op.op = "archive_link"
  <2>1. /\ After(op).entities = spec.entities
        /\ After(op).links = spec.links \ {op.link}
        /\ op.link \in spec.links /\ op.link \in LinkKeys /\ From[op.link] \in spec.entities
    BY <1>3, Parts DEF After, IsKept, Definition
  <2>2. \A r \in RecordIds : attributes[r][op.link] # NoValue =>
           Cardinality[op.link] \in EditableCardinalities
    BY <2>1 DEF ImpactInv, OnlyEditable
  <2> QED
    BY <1>3, <2>1, <2>2
    DEF HidesWhatIsTold, VisibleOf, Visible, VisibleLinks, Affected, LinkValues, RecordsOf
<1> QED
  BY <1>1, <1>2, <1>3 DEF HidesWhatIsTold

\* A restore returns them.
LEMMA Returns ==
    ASSUME ImpactInv, NEW op \in Proposable, IsKept(op)
    PROVE  ReturnsWhatIsTold(op)
<1>1. CASE op.op = "restore_entity_type"
  <2>1. After(op).entities = spec.entities \cup {op.entity} /\ op.entity \notin spec.entities
    BY <1>1, Parts DEF After, IsKept, Definition
  <2> QED
    BY <1>1, <2>1 DEF ReturnsWhatIsTold, VisibleOf, Visible, Affected, RecordsOf
<1>2. CASE op.op = "restore_field"
  <2>1. /\ After(op).entities = spec.entities
        /\ After(op).fields = spec.fields \cup {op.field}
        /\ op.field \notin spec.fields /\ EntityOf[op.field] \in spec.entities
    BY <1>2, Parts DEF After, IsKept, Definition
  <2> QED
    BY <1>2, <2>1
    DEF ReturnsWhatIsTold, VisibleOf, Visible, VisibleValues, Affected, FieldValues, RecordsOf
<1>3. CASE op.op = "restore_link"
  <2>1. /\ After(op).entities = spec.entities
        /\ After(op).links = spec.links \cup {op.link}
        /\ op.link \notin spec.links /\ From[op.link] \in spec.entities
    BY <1>3, Parts DEF After, IsKept, Definition
  <2>2. op.link \in LinkKeys
    BY <1>3 DEF Proposable
  <2>3. \A r \in RecordIds : attributes[r][op.link] # NoValue =>
           Cardinality[op.link] \in EditableCardinalities
    BY <2>2 DEF ImpactInv, OnlyEditable
  <2> QED
    BY <1>3, <2>1, <2>3
    DEF ReturnsWhatIsTold, VisibleOf, Visible, VisibleLinks, Affected, LinkValues, RecordsOf
<1> QED
  BY <1>1, <1>2, <1>3 DEF ReturnsWhatIsTold

\* After a change of type, the values that are flagged are those that were counted.
LEMMA Flags ==
    ASSUME ImpactInv, NEW op \in Proposable, IsKept(op)
    PROVE  FlagsWhatIsTold(op)
<1> SUFFICES ASSUME op.op = "change_field_type", Stripped[op.type] = op.type
             PROVE  Invalid(After(op), op.field) = NotConvertible(op)
  BY DEF FlagsWhatIsTold
<1>1. op.field \in spec.fields /\ EntityOf[op.field] \in spec.entities
  BY DEF IsKept
<1>2. /\ After(op).entities = spec.entities /\ After(op).fields = spec.fields
      /\ After(op).type[op.field] = op.type
  BY <1>1, Parts DEF After, Definition
<1>3. VisibleValues(After(op), op.field) = FieldValues(op.field)
  BY <1>1, <1>2 DEF VisibleValues, Visible, FieldValues, RecordsOf
<1> QED
  BY <1>2, <1>3 DEF Invalid, NotConvertible

\* A field that becomes required, or loses options, breaks no record that was not
\* counted.
LEMMA Breaks ==
    ASSUME ImpactInv, NEW op \in Proposable, IsKept(op)
    PROVE  BreaksWhatIsTold(op)
<1>1. CASE op.op = "add_field"
  <2>1. /\ op.field \in FieldKeys /\ op.required \in BOOLEAN
        /\ op.field \notin spec.fields /\ EntityOf[op.field] \in spec.entities
        /\ IsUnused(op.field)
    BY <1>1 DEF IsKept, Proposable
  <2>2. /\ After(op).entities = spec.entities
        /\ After(op).fields = spec.fields \cup {op.field}
        /\ After(op).required = Required(op.field, op.required)
    BY <1>1, Parts DEF After, Definition
  <2>3. Incomplete(spec, op.field) = {}
    BY <2>1 DEF Incomplete
  <2>4. Incomplete(After(op), op.field) =
           IF op.required THEN RecordsOf(EntityOf[op.field]) ELSE {}
    BY <2>1, <2>2 DEF Incomplete, Visible, RecordsOf, Required, IsUnused, IsEmpty
  <2>5. MissingRequired(op) = IF op.required THEN RecordsOf(EntityOf[op.field]) ELSE {}
    BY <1>1 DEF MissingRequired
  <2> QED
    BY <1>1, <2>3, <2>4, <2>5 DEF BreaksWhatIsTold
<1>2. CASE op.op = "update_field"
  <2> DEFINE f == op.field
             before == spec.type[op.field]
             after == Stripped[op.type]
  <2>1. /\ f \in FieldKeys /\ op.required \in BOOLEAN /\ op.type \in Types
        /\ f \in spec.fields /\ EntityOf[f] \in spec.entities
        /\ op.type \in WithOptions[before] /\ before \in Types
    BY <1>2, Parts DEF IsKept, Proposable
  <2>2. /\ After(op).entities = spec.entities /\ After(op).fields = spec.fields
        /\ After(op).required = Required(f, op.required)
        /\ After(op).type[f] = after
    BY <1>2, <2>1, Parts DEF After, Definition
  <2>3. Incomplete(After(op), f) \ Incomplete(spec, f) = MissingRequired(op)
    <3>1. CASE op.required /\ f \notin spec.required
      <4>1. Incomplete(spec, f) = {}
        BY <3>1 DEF Incomplete
      <4>2. Incomplete(After(op), f) = RecordsOf(EntityOf[f]) \ FieldValues(f)
        BY <2>1, <2>2, <3>1 DEF Incomplete, Visible, RecordsOf, FieldValues, Required
      <4> QED
        BY <1>2, <3>1, <4>1, <4>2 DEF MissingRequired
    <3>2. CASE op.required /\ f \in spec.required
      <4>1. Incomplete(After(op), f) = Incomplete(spec, f)
        BY <2>1, <2>2, <3>2 DEF Incomplete, Visible, Required
      <4> QED
        BY <1>2, <3>2, <4>1 DEF MissingRequired
    <3>3. CASE ~op.required
      BY <2>2, <3>3 DEF Incomplete, Required, MissingRequired
    <3> QED
      BY <3>1, <3>2, <3>3
  <2>4. VisibleValues(After(op), f) = FieldValues(f) /\ VisibleValues(spec, f) = FieldValues(f)
    BY <2>1, <2>2 DEF VisibleValues, Visible, FieldValues, RecordsOf
  <2>5. ASSUME NEW r \in Invalid(After(op), f), r \notin Invalid(spec, f)
        PROVE  r \in UsingRemoved(op)
    <3>1. r \in RecordIds /\ r \in FieldValues(f) /\ ~IsEmpty(attributes[r][f])
      BY <2>4, <2>5 DEF Invalid, FieldValues, RecordsOf
    <3>2. PICK v \in Values : v = attributes[r][f]
      BY <2>1, <3>1, Parts DEF IsEmpty
    <3>3. Coerce[after][v] = Refused /\ Coerce[before][v] # Refused
      BY <2>2, <2>4, <2>5, <3>2 DEF Invalid
    <3>4. after \in WithOptions[before]
      BY <2>1, ImpactAssumption
    <3>5. ~ (Uses[v] \cap OptionsOf[before] \subseteq OptionsOf[after])
      BY <2>1, <3>2, <3>3, <3>4, ImpactAssumption
    <3> QED
      BY <3>1, <3>2, <3>5 DEF UsingRemoved
  <2> QED
    BY <1>2, <2>3, <2>5 DEF BreaksWhatIsTold
<1> QED
  BY <1>1, <1>2 DEF BreaksWhatIsTold

\* What the owner is told of an operation is what the views of the records show
\* once it is approved, whatever was written before; also with requests under way.
THEOREM ImpactIsTold == Spec => []ImpactIsTrue
<1>1. ImpactInv => ImpactIsTrue
  BY Hides, Returns, Flags, Breaks DEF ImpactIsTrue
<1> QED
  BY <1>1, Invariance, TypedAlways, LinksAreEditable, PTL DEF ImpactInv
=============================================================================
