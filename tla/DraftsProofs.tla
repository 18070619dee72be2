----------------------------- MODULE DraftsProofs -----------------------------
(***************************************************************************)
(* Proofs about Drafts, for every set of threads, events, drafts and types. *)
(* Only Commit and SetPolicy change what is committed, so the invariant     *)
(* says, at each point of each handler, what separates the transaction of   *)
(* the lock's holder from the committed tables (Work), and that a human     *)
(* never holds a draft that a policy sent (ReadHolds).                      *)
(***************************************************************************)
EXTENDS Drafts, TLAPS

InTx(t) == loc[t].pc \notin {"idle", "act"}

\* Sent by a policy.
IsAuto(a) == HasStatus(db, a, "sent") /\ ~db.actions[a].decided

Locking == /\ writer = NoThread => tx = db
           /\ \A t \in Threads : writer = t <=> InTx(t)

ReadHolds(t) == /\ loc[t].handler \in {"approve", "reject"}
                /\ loc[t].id \in ActionIds
                /\ Exists(db, loc[t].id) /\ ~IsAuto(loc[t].id)

NewDraft(t) ==
    LET row == tx.actions[loc[t].id]
    IN  /\ loc[t].id \in ActionIds
        /\ ~Exists(db, loc[t].id) /\ Exists(tx, loc[t].id)
        /\ row.event = loc[t].event /\ row.type = loc[t].type /\ ~row.decided
        /\ At(t, "policy") => row.status = "pending_approval"
        /\ loc[t].pc \in {"send", "mark"} =>
              row.status = "auto_approved" /\ row.type \in tx.policies
        /\ At(t, "mark") => loc[t].id \in sent
        /\ At(t, "commit") => \/ row.status = "pending_approval" /\ row.type \notin tx.policies
                              \/ row.status = "sent" /\ row.type \in tx.policies /\ loc[t].id \in sent

EventWork(t) ==
    /\ loc[t].event \in EventIds
    /\ db.events[loc[t].event] = "absent"
    /\ \A e \in EventIds \ {loc[t].event} : tx.events[e] = db.events[e]
    /\ tx.events[loc[t].event] = IF At(t, "extract") THEN "new" ELSE "processed"
    /\ loc[t].pc \in {"extract", "draft"} => loc[t].id = NoAction
    /\ At(t, "draft") => loc[t].type \in ActionTypes
    /\ loc[t].pc \notin {"extract", "draft"} => NewDraft(t)

DecisionWork(t) ==
    LET row == tx.actions[loc[t].id]
    IN  /\ loc[t].pc \in {"send", "mark", "commit"}
        /\ tx.events = db.events
        /\ loc[t].id \in ActionIds
        /\ Exists(db, loc[t].id) /\ Exists(tx, loc[t].id) /\ ~IsAuto(loc[t].id)
        /\ row.event = db.actions[loc[t].id].event /\ row.decided
        /\ loc[t].pc \in {"send", "mark"} => row.status = "approved"
        /\ At(t, "mark") => loc[t].id \in sent
        /\ At(t, "commit") => \/ row.status = "rejected"
                              \/ row.status = "sent" /\ loc[t].id \in sent

\* What the transaction of t has changed so far.
Work(t) == /\ tx.policies = db.policies
           /\ \A a \in ActionIds \ {loc[t].id} : tx.actions[a] = db.actions[a]
           /\ loc[t].handler = "event" => EventWork(t)
           /\ loc[t].handler # "event" => DecisionWork(t)

IInv == /\ TypeOK
        /\ Locking
        /\ \A t \in Threads : At(t, "act") => ReadHolds(t)
        /\ \A t \in Threads : InTx(t) => Work(t)
        /\ EventsHaveOneDraft
        /\ DecisionsAreWhole
-----------------------------------------------------------------------------

\* The program starts with empty tables.
LEMMA InitHolds == Init => IInv
<1> SUFFICES ASSUME Init PROVE IInv
  OBVIOUS
<1>1. TypeOK
  BY DEF Init, TypeOK, Database, Local, Idle
<1>2. Locking /\ \A t \in Threads : ~At(t, "act") /\ ~InTx(t)
  BY DraftsAssumption DEF Init, Locking, InTx, At, Idle
<1>3. EventsHaveOneDraft /\ DecisionsAreWhole
  BY DEF Init, EventsHaveOneDraft, DecisionsAreWhole, Exists
<1> QED
  BY <1>1, <1>2, <1>3 DEF IInv

\* A row that is there is a row.
LEMMA RowIsTyped ==
    ASSUME TypeOK, NEW a \in ActionIds
    PROVE  /\ Exists(tx, a) => tx.actions[a] \in ActionRow
           /\ Exists(db, a) => db.actions[a] \in ActionRow
BY DEF TypeOK, Database, Exists

\* A step that leaves the committed tables alone and moves only t, which holds
\* the lock afterwards, keeps the invariant if it keeps the invariant of t.
LEMMA HolderStep ==
    ASSUME IInv, NEW t \in Threads, NEW l \in Local,
           loc' = [loc EXCEPT ![t] = l], l.pc \notin {"idle", "act"},
           writer \in {t, NoThread}, writer' = t, db' = db, sent \subseteq sent',
           TypeOK', Work(t)'
    PROVE  IInv'
<1>1. /\ loc'[t] = l
      /\ \A u \in Threads : u # t => loc'[u] = loc[u] /\ ~InTx(u)
  BY DraftsAssumption DEF IInv, TypeOK, Locking
<1>2. Locking'
  BY <1>1, DraftsAssumption DEF Locking, InTx
<1>3. \A u \in Threads : At(u, "act")' => ReadHolds(u)'
  BY <1>1 DEF IInv, At, ReadHolds, IsAuto
<1>4. \A u \in Threads : InTx(u)' => Work(u)'
  BY <1>1 DEF InTx
<1>5. EventsHaveOneDraft' /\ DecisionsAreWhole'
  BY DEF IInv, EventsHaveOneDraft, DecisionsAreWhole, HasStatus, Exists
<1> QED
  BY <1>2, <1>3, <1>4, <1>5 DEF IInv

\* So does one that leaves t outside of any transaction.
LEMMA OutsideStep ==
    ASSUME IInv, NEW t \in Threads, NEW l \in Local,
           loc' = [loc EXCEPT ![t] = l], l.pc \in {"idle", "act"},
           l.pc = "act" => ReadHolds(t)',
           db' = db, sent' = sent,
           IF writer = t THEN tx' = db /\ writer' = NoThread ELSE UNCHANGED <<tx, writer>>
    PROVE  IInv'
<1>1. /\ loc'[t] = l
      /\ \A u \in Threads : u # t => loc'[u] = loc[u]
  BY DEF IInv, TypeOK
<1>2. TypeOK'
  BY DEF IInv, TypeOK
<1>3. Locking'
  <2>1. CASE writer = t
    BY <1>1, <2>1, DraftsAssumption DEF IInv, Locking, InTx
  <2>2. CASE writer # t
    BY <1>1, <2>2 DEF IInv, Locking, InTx
  <2> QED
    BY <2>1, <2>2
<1>4. \A u \in Threads : At(u, "act")' => ReadHolds(u)'
  BY <1>1 DEF IInv, At, ReadHolds, IsAuto
<1>5. ASSUME NEW u \in Threads, InTx(u)' PROVE Work(u)'
  <2>1. u # t /\ loc'[u] = loc[u] /\ InTx(u) /\ Work(u)
    BY <1>1, <1>5 DEF IInv, InTx
  <2>2. writer = u /\ tx' = tx
    BY <2>1 DEF IInv, Locking
  <2> QED
    BY <2>1, <2>2 DEF Work, EventWork, NewDraft, DecisionWork, At, IsAuto, Exists, HasStatus
<1>6. EventsHaveOneDraft' /\ DecisionsAreWhole'
  BY DEF IInv, EventsHaveOneDraft, DecisionsAreWhole, HasStatus, Exists
<1> QED
  BY <1>2, <1>3, <1>4, <1>5, <1>6 DEF IInv
-----------------------------------------------------------------------------
(* Steps inside a transaction.                                              *)

\* create_event takes the lock with a new event and no draft.
LEMMA ReceiveEventHolds ==
    ASSUME IInv, NEW t \in Threads, NEW e \in EventIds, ReceiveEvent(t, e) PROVE IInv'
<1> DEFINE l == [Idle EXCEPT !.pc = "extract", !.handler = "event", !.event = e]
<1>1. l \in Local /\ l.pc = "extract" /\ l.handler = "event" /\ l.event = e /\ l.id = NoAction
  BY DEF Idle, Local
<1>2. loc' = [loc EXCEPT ![t] = l] /\ loc'[t] = l
  BY DEF ReceiveEvent, IInv, TypeOK
<1> HIDE DEF l
<1>3. /\ writer = NoThread /\ writer' = t /\ tx = db /\ db' = db /\ sent' = sent
      /\ db.events[e] = "absent" /\ tx' = [db EXCEPT !.events[e] = "new"]
  BY DEF ReceiveEvent, TakeLock, IInv, Locking
<1>4. TypeOK'
  BY <1>1, <1>2, <1>3 DEF IInv, TypeOK, Database
<1>5. Work(t)'
  BY <1>1, <1>2, <1>3 DEF Work, EventWork, At, IInv, TypeOK, Database
<1> QED
  BY <1>1, <1>2, <1>3, <1>4, <1>5, HolderStep

\* mark_event_processed writes the event of the holder.
LEMMA ExtractHolds ==
    ASSUME IInv, NEW t \in Threads, NEW type \in ActionTypes, Extract(t, type) PROVE IInv'
<1> DEFINE l == [loc[t] EXCEPT !.pc = "draft", !.type = type]
<1>1. /\ l \in Local /\ l.pc = "draft" /\ l.handler = loc[t].handler
      /\ l.event = loc[t].event /\ l.id = loc[t].id /\ l.type = type
  BY DEF IInv, TypeOK, Local
<1>2. loc' = [loc EXCEPT ![t] = l] /\ loc'[t] = l
  BY DEF Extract, IInv, TypeOK
<1> HIDE DEF l
<1>3. InTx(t) /\ writer = t /\ Work(t) /\ At(t, "extract")
  BY DEF Extract, IInv, Locking, InTx, At
<1>4. EventWork(t) /\ loc[t].handler = "event"
  BY <1>3 DEF Work, DecisionWork, At
<1>5. TypeOK'
  BY <1>1, <1>2, <1>4 DEF Extract, IInv, TypeOK, Database, EventWork
<1>6. Work(t)'
  BY <1>1, <1>2, <1>3, <1>4 DEF Extract, Work, EventWork, At, IInv, TypeOK, Database
<1>7. writer' = t /\ db' = db /\ sent' = sent
  BY <1>3 DEF Extract
<1> QED
  BY <1>1, <1>2, <1>3, <1>5, <1>6, <1>7, HolderStep

\* create_drafted_action adds the only draft of that event.
LEMMA DraftHolds ==
    ASSUME IInv, NEW t \in Threads, NEW a \in ActionIds, Draft(t, a) PROVE IInv'
<1> DEFINE l == [loc[t] EXCEPT !.pc = "policy", !.id = a]
<1>1. /\ l \in Local /\ l.pc = "policy" /\ l.handler = loc[t].handler
      /\ l.event = loc[t].event /\ l.id = a /\ l.type = loc[t].type
  BY DEF IInv, TypeOK, Local
<1>2. loc' = [loc EXCEPT ![t] = l] /\ loc'[t] = l
  BY DEF Draft, IInv, TypeOK
<1> HIDE DEF l
<1>3. InTx(t) /\ writer = t /\ Work(t) /\ At(t, "draft")
  BY DEF Draft, IInv, Locking, InTx, At
<1>4. EventWork(t) /\ loc[t].handler = "event" /\ loc[t].type \in ActionTypes
      /\ loc[t].id = NoAction /\ tx.actions[a] = db.actions[a]
  BY <1>3, DraftsAssumption DEF Work, DecisionWork, EventWork, At
<1>5. NewAction(t) \in ActionRow
  BY <1>4 DEF NewAction, ActionRow, EventWork
<1>6. TypeOK'
  BY <1>1, <1>2, <1>5 DEF Draft, IInv, TypeOK, Database
<1>7. tx'.actions[a] = NewAction(t) /\ tx'.events = tx.events /\ tx'.policies = tx.policies
      /\ \A b \in ActionIds \ {a} : tx'.actions[b] = db.actions[b]
  BY <1>3, <1>4, DraftsAssumption DEF Draft, IInv, TypeOK, Database, Work
<1>8. db' = db /\ writer' = t /\ sent' = sent /\ ~Exists(db, a)
  BY <1>3, <1>4 DEF Draft, Exists
<1>9. NewDraft(t)'
  BY <1>1, <1>2, <1>5, <1>7, <1>8, NoRowAssumption DEF NewDraft, NewAction, At, Exists
<1>10. Work(t)'
  BY <1>1, <1>2, <1>3, <1>4, <1>7, <1>8, <1>9 DEF Work, EventWork, At
<1> QED
  BY <1>1, <1>2, <1>3, <1>6, <1>8, <1>10, HolderStep

\* A step of t inside its transaction that goes to pc and at most gives the row
\* it works on another status.
LEMMA StatusStep ==
    ASSUME IInv, NEW t \in Threads, InTx(t),
           NEW pc \in {"send", "mark", "commit"}, Goto(t, pc),
           loc[t].id \in ActionIds, Exists(tx, loc[t].id),
           NEW status \in {"pending_approval", "approved", "rejected", "auto_approved", "sent"},
           tx' = [tx EXCEPT !.actions[loc[t].id].status = status],
           db' = db, writer' = writer, sent \subseteq sent', sent' \subseteq ActionIds
    PROVE  /\ (Work(t)' => IInv')
           /\ loc'[t] = [loc[t] EXCEPT !.pc = pc]
           /\ tx'.actions[loc[t].id] = [tx.actions[loc[t].id] EXCEPT !.status = status]
           /\ tx.actions[loc[t].id] \in ActionRow
           /\ \A a \in ActionIds \ {loc[t].id} : tx'.actions[a] = tx.actions[a]
           /\ tx'.events = tx.events /\ tx'.policies = tx.policies
           /\ tx'.actions[loc[t].id] # NoRow
<1> DEFINE l == [loc[t] EXCEPT !.pc = pc]
<1>1. l \in Local /\ l.pc = pc
  BY DEF IInv, TypeOK, Local
<1>2. loc' = [loc EXCEPT ![t] = l] /\ loc'[t] = l
  BY DEF Goto, IInv, TypeOK
<1>3. tx.actions[loc[t].id] \in ActionRow
  BY RowIsTyped DEF IInv
<1>4. [tx.actions[loc[t].id] EXCEPT !.status = status] \in ActionRow
  BY <1>3 DEF ActionRow
<1>5. /\ tx'.actions[loc[t].id] = [tx.actions[loc[t].id] EXCEPT !.status = status]
      /\ \A a \in ActionIds \ {loc[t].id} : tx'.actions[a] = tx.actions[a]
      /\ tx'.events = tx.events /\ tx'.policies = tx.policies
  BY DEF IInv, TypeOK, Database
<1>6. tx'.actions[loc[t].id] # NoRow
  BY <1>4, <1>5, NoRowAssumption
<1>7. tx' \in Database
  BY <1>3, <1>4 DEF IInv, TypeOK, Database
<1>8. TypeOK'
  BY <1>1, <1>2, <1>7 DEF IInv, TypeOK
<1>9. writer = t
  BY DEF IInv, Locking
<1> HIDE DEF l
<1>10. Work(t)' => IInv'
  BY <1>1, <1>2, <1>8, <1>9, HolderStep
<1> QED
  BY <1>2, <1>3, <1>5, <1>6, <1>10 DEF l

\* As StatusStep, for a step that leaves the tables alone.
LEMMA QuietStep ==
    ASSUME IInv, NEW t \in Threads, InTx(t),
           NEW pc \in {"send", "mark", "commit"}, Goto(t, pc),
           tx' = tx, db' = db, writer' = writer, sent \subseteq sent', sent' \subseteq ActionIds
    PROVE  /\ (Work(t)' => IInv')
           /\ loc'[t] = [loc[t] EXCEPT !.pc = pc]
<1> DEFINE l == [loc[t] EXCEPT !.pc = pc]
<1>1. l \in Local /\ l.pc = pc
  BY DEF IInv, TypeOK, Local
<1>2. loc' = [loc EXCEPT ![t] = l] /\ loc'[t] = l
  BY DEF Goto, IInv, TypeOK
<1>3. TypeOK' /\ writer = t
  BY <1>1, <1>2 DEF IInv, TypeOK, Locking
<1> HIDE DEF l
<1>4. Work(t)' => IInv'
  BY <1>1, <1>2, <1>3, HolderStep
<1> QED
  BY <1>2, <1>4 DEF l

\* maybe_auto_approve gives the new draft a status, or leaves it pending.
LEMMA ApplyPolicyHolds == ASSUME IInv, NEW t \in Threads, ApplyPolicy(t) PROVE IInv'
<1>1. InTx(t) /\ Work(t) /\ At(t, "policy")
  BY DEF ApplyPolicy, IInv, InTx, At
<1>2. EventWork(t) /\ NewDraft(t) /\ loc[t].handler = "event" /\ loc[t] \in Local
  BY <1>1 DEF Work, DecisionWork, EventWork, At, IInv, TypeOK
<1>3. db' = db /\ writer' = writer /\ sent' = sent /\ sent' \subseteq ActionIds
  BY DEF ApplyPolicy, IInv, TypeOK
<1>4. loc[t].id \in ActionIds /\ Exists(tx, loc[t].id)
  BY <1>2 DEF NewDraft
<1>5. CASE loc[t].type \in tx.policies
  <2>1. Goto(t, "send") /\ tx' = [tx EXCEPT !.actions[loc[t].id].status = "auto_approved"]
    BY <1>5 DEF ApplyPolicy, SetStatus
  <2>2. /\ (Work(t)' => IInv')
        /\ loc'[t] = [loc[t] EXCEPT !.pc = "send"]
        /\ tx'.actions[loc[t].id] = [tx.actions[loc[t].id] EXCEPT !.status = "auto_approved"]
        /\ tx.actions[loc[t].id] \in ActionRow
        /\ \A a \in ActionIds \ {loc[t].id} : tx'.actions[a] = tx.actions[a]
        /\ tx'.events = tx.events /\ tx'.policies = tx.policies
        /\ tx'.actions[loc[t].id] # NoRow
    BY <1>1, <1>3, <1>4, <2>1, StatusStep
  <2>3. NewDraft(t)'
    BY <1>2, <1>3, <1>5, <2>2 DEF NewDraft, At, Exists, Local, ActionRow
  <2>4. Work(t)'
    BY <1>1, <1>2, <1>3, <2>2, <2>3 DEF Work, EventWork, At, Local
  <2> QED
    BY <2>2, <2>4
<1>6. CASE loc[t].type \notin tx.policies
  <2>1. Goto(t, "commit") /\ tx' = tx
    BY <1>6 DEF ApplyPolicy
  <2>2. (Work(t)' => IInv') /\ loc'[t] = [loc[t] EXCEPT !.pc = "commit"]
    BY <1>1, <1>3, <2>1, QuietStep
  <2>3. NewDraft(t)'
    BY <1>1, <1>2, <1>3, <1>6, <2>1, <2>2 DEF NewDraft, At, Exists, Local
  <2>4. Work(t)'
    BY <1>1, <1>2, <1>3, <2>1, <2>2, <2>3 DEF Work, EventWork, At, Local
  <2> QED
    BY <2>2, <2>4
<1> QED
  BY <1>5, <1>6

\* _simulated_send leaves the tables alone.
LEMMA SendHolds == ASSUME IInv, NEW t \in Threads, Send(t) PROVE IInv'
<1>1. InTx(t) /\ Work(t) /\ At(t, "send") /\ loc[t] \in Local
  BY DEF Send, IInv, InTx, At, TypeOK
<1>2. loc[t].id \in ActionIds
  BY <1>1 DEF Work, EventWork, NewDraft, DecisionWork, At
<1>3. /\ db' = db /\ tx' = tx /\ writer' = writer
      /\ sent' = sent \cup {loc[t].id} /\ sent' \subseteq ActionIds
  BY <1>2 DEF Send, IInv, TypeOK
<1>4. (Work(t)' => IInv') /\ loc'[t] = [loc[t] EXCEPT !.pc = "mark"]
  BY <1>1, <1>3, QuietStep DEF Send
<1>5. CASE loc[t].handler = "event"
  <2>1. EventWork(t) /\ NewDraft(t)
    BY <1>1, <1>5 DEF Work, EventWork, At
  <2>2. NewDraft(t)'
    BY <1>1, <1>3, <1>4, <2>1 DEF NewDraft, At, Exists, Local
  <2>3. Work(t)'
    BY <1>1, <1>3, <1>4, <1>5, <2>1, <2>2 DEF Work, EventWork, At, Local
  <2> QED
    BY <1>4, <2>3
<1>6. CASE loc[t].handler # "event"
  <2>1. DecisionWork(t)
    BY <1>1, <1>6 DEF Work
  <2>2. DecisionWork(t)'
    BY <1>1, <1>3, <1>4, <2>1 DEF DecisionWork, At, Exists, Local, IsAuto, HasStatus
  <2>3. Work(t)'
    BY <1>1, <1>3, <1>4, <1>6, <2>2 DEF Work, Local
  <2> QED
    BY <1>4, <2>3
<1> QED
  BY <1>5, <1>6

\* What is marked as sent has been sent.
LEMMA MarkSentHolds == ASSUME IInv, NEW t \in Threads, MarkSent(t) PROVE IInv'
<1>1. InTx(t) /\ Work(t) /\ At(t, "mark") /\ loc[t] \in Local
  BY DEF MarkSent, IInv, InTx, At, TypeOK
<1>2. loc[t].id \in ActionIds /\ Exists(tx, loc[t].id)
  BY <1>1 DEF Work, EventWork, NewDraft, DecisionWork, At
<1>3. /\ db' = db /\ writer' = writer /\ sent' = sent /\ sent' \subseteq ActionIds
      /\ Goto(t, "commit") /\ tx' = [tx EXCEPT !.actions[loc[t].id].status = "sent"]
  BY DEF MarkSent, SetStatus, IInv, TypeOK
<1>4. /\ (Work(t)' => IInv')
      /\ loc'[t] = [loc[t] EXCEPT !.pc = "commit"]
      /\ tx'.actions[loc[t].id] = [tx.actions[loc[t].id] EXCEPT !.status = "sent"]
      /\ tx.actions[loc[t].id] \in ActionRow
      /\ \A a \in ActionIds \ {loc[t].id} : tx'.actions[a] = tx.actions[a]
      /\ tx'.events = tx.events /\ tx'.policies = tx.policies
      /\ tx'.actions[loc[t].id] # NoRow
  BY <1>1, <1>2, <1>3, StatusStep
<1>5. CASE loc[t].handler = "event"
  <2>1. EventWork(t) /\ NewDraft(t)
    BY <1>1, <1>5 DEF Work, EventWork, At
  <2>2. NewDraft(t)'
    BY <1>1, <1>3, <1>4, <2>1 DEF NewDraft, At, Exists, Local, ActionRow
  <2>3. Work(t)'
    BY <1>1, <1>3, <1>4, <1>5, <2>1, <2>2 DEF Work, EventWork, At, Local
  <2> QED
    BY <1>4, <2>3
<1>6. CASE loc[t].handler # "event"
  <2>1. DecisionWork(t)
    BY <1>1, <1>6 DEF Work
  <2>2. DecisionWork(t)'
    BY <1>1, <1>3, <1>4, <2>1 DEF DecisionWork, At, Exists, Local, ActionRow, IsAuto, HasStatus
  <2>3. Work(t)'
    BY <1>1, <1>3, <1>4, <1>6, <2>2 DEF Work, Local
  <2> QED
    BY <1>4, <2>3
<1> QED
  BY <1>5, <1>6

\* approve and reject take the lock with what they read: it is still a draft
\* that no policy has sent.
LEMMA DecideHolds ==
    ASSUME IInv, NEW t \in Threads, At(t, "act"), TakeLock(t), db' = db, sent' = sent,
           NEW pc \in {"send", "commit"}, Goto(t, pc),
           NEW status \in {"approved", "rejected"}, Decide(loc[t].id, status),
           (pc = "send" /\ status = "approved") \/ (pc = "commit" /\ status = "rejected")
    PROVE  IInv'
<1> DEFINE l == [loc[t] EXCEPT !.pc = pc]
           row == [tx.actions[loc[t].id] EXCEPT !.status = status, !.decided = TRUE]
<1>1. /\ l \in Local /\ l.pc = pc /\ l.id = loc[t].id /\ l.handler = loc[t].handler
      /\ loc' = [loc EXCEPT ![t] = l] /\ loc'[t] = l
  BY DEF Goto, IInv, TypeOK, Local
<1>2. tx = db /\ writer = NoThread /\ writer' = t
  BY DEF TakeLock, IInv, Locking
<1>3. ReadHolds(t)
  BY DEF IInv
<1>4. tx.actions[loc[t].id] \in ActionRow /\ loc[t].id \in ActionIds
  BY <1>2, <1>3, RowIsTyped DEF IInv, ReadHolds
<1>5. /\ row \in ActionRow /\ row # NoRow /\ row.status = status /\ row.decided
      /\ row.event = db.actions[loc[t].id].event
  BY <1>2, <1>4, NoRowAssumption DEF ActionRow
<1>6. /\ tx'.actions[loc[t].id] = row
      /\ \A a \in ActionIds \ {loc[t].id} : tx'.actions[a] = db.actions[a]
      /\ tx'.events = db.events /\ tx'.policies = db.policies
  BY <1>2, <1>4 DEF Decide, IInv, TypeOK, Database
<1>7. tx' \in Database
  BY <1>4, <1>5 DEF Decide, IInv, TypeOK, Database
<1> HIDE DEF l, row
<1>8. TypeOK'
  BY <1>1, <1>2, <1>7 DEF IInv, TypeOK
<1>9. DecisionWork(t)'
  BY <1>1, <1>3, <1>4, <1>5, <1>6 DEF DecisionWork, ReadHolds, At, Exists, IsAuto, HasStatus
<1>10. Work(t)'
  BY <1>1, <1>3, <1>6, <1>9 DEF Work, ReadHolds
<1> QED
  BY <1>1, <1>2, <1>8, <1>10, HolderStep

\* approve_and_send decides a draft.
LEMMA ApproveHolds == ASSUME IInv, NEW t \in Threads, Approve(t) PROVE IInv'
BY DecideHolds DEF Approve

\* reject_action decides a draft.
LEMMA RejectHolds == ASSUME IInv, NEW t \in Threads, Reject(t) PROVE IInv'
BY DecideHolds DEF Reject
-----------------------------------------------------------------------------
(* Steps outside of a transaction, and its end.                             *)

\* A handler that ended has no local variables.
LEMMA IdleIsLocal == Idle \in Local
BY DEF Idle, Local

\* get_drafted_action reads a committed draft.
LEMMA ReadActionHolds ==
    ASSUME IInv, NEW t \in Threads, NEW handler \in {"approve", "reject"}, NEW a \in ActionIds,
           ReadAction(t, handler, a)
    PROVE  IInv'
<1> DEFINE l == [Idle EXCEPT !.pc = "act", !.handler = handler, !.id = a]
<1>1. l \in Local /\ l.pc = "act" /\ l.handler = handler /\ l.id = a
  BY DEF Idle, Local
<1>2. loc' = [loc EXCEPT ![t] = l] /\ loc'[t] = l /\ UNCHANGED <<db, tx, writer, sent>>
  BY DEF ReadAction, IInv, TypeOK
<1> HIDE DEF l
<1>3. ReadHolds(t)'
  BY <1>1, <1>2 DEF ReadAction, ReadHolds, IsAuto, HasStatus, Exists
<1>4. writer # t
  BY DEF ReadAction, IInv, Locking, InTx, Idle
<1> QED
  BY <1>1, <1>2, <1>3, <1>4, OutsideStep

\* A rollback restores what was committed.
LEMMA FailHolds == ASSUME IInv, NEW t \in Threads, Fail(t) PROVE IInv'
<1>1. Idle.pc = "idle"
  BY DEF Idle
<1> QED
  BY <1>1, IdleIsLocal, OutsideStep DEF Fail

\* A handler that does not get the lock has written nothing.
LEMMA LockTimeoutHolds == ASSUME IInv, NEW t \in Threads, LockTimeout(t) PROVE IInv'
<1>1. Idle.pc = "idle"
  BY DEF Idle
<1>2. writer # t
  BY DEF LockTimeout, IInv, Locking, InTx, At
<1> QED
  BY <1>1, <1>2, IdleIsLocal, OutsideStep DEF LockTimeout

\* A commit adds one processed event with its draft, or decides one draft; a
\* draft that a policy sent does not change.
LEMMA CommitEffect ==
    ASSUME IInv, NEW t \in Threads, Commit(t)
    PROVE  /\ loc[t].id \in ActionIds /\ Exists(db', loc[t].id)
           /\ \A a \in ActionIds \ {loc[t].id} : db'.actions[a] = db.actions[a]
           /\ db'.policies = db.policies
           /\ db'.actions[loc[t].id].status \in {"pending_approval", "rejected", "sent"}
           /\ HasStatus(db', loc[t].id, "sent") => loc[t].id \in sent
           /\ \/ /\ ~Exists(db, loc[t].id) /\ ~db'.actions[loc[t].id].decided
                 /\ HasStatus(db', loc[t].id, "sent") <=> db'.actions[loc[t].id].type \in db.policies
                 /\ loc[t].event \in EventIds /\ db.events[loc[t].event] = "absent"
                 /\ db'.actions[loc[t].id].event = loc[t].event
                 /\ db'.events[loc[t].event] = "processed"
                 /\ \A e \in EventIds \ {loc[t].event} : db'.events[e] = db.events[e]
              \/ /\ Exists(db, loc[t].id) /\ ~IsAuto(loc[t].id)
                 /\ db'.actions[loc[t].id].decided
                 /\ db'.actions[loc[t].id].status # "pending_approval"
                 /\ db'.actions[loc[t].id].event = db.actions[loc[t].id].event
                 /\ db'.events = db.events
<1>1. Work(t) /\ At(t, "commit") /\ db' = tx
  BY DEF Commit, IInv, InTx, At
<1>2. CASE loc[t].handler = "event"
  <2>1. EventWork(t) /\ NewDraft(t)
    BY <1>1, <1>2 DEF Work, EventWork, At
  <2> QED
    BY <1>1, <2>1 DEF Work, EventWork, NewDraft, At, Exists, HasStatus
<1>3. CASE loc[t].handler # "event"
  <2>1. DecisionWork(t)
    BY <1>1, <1>3 DEF Work
  <2> QED
    BY <1>1, <2>1 DEF Work, DecisionWork, At, Exists, HasStatus
<1> QED
  BY <1>2, <1>3

\* The commit of a whole event or decision.
LEMMA CommitHolds == ASSUME IInv, NEW t \in Threads, Commit(t) PROVE IInv'
<1>1. /\ db' = tx /\ tx' = tx /\ writer' = NoThread /\ sent' = sent /\ writer = t
      /\ loc' = [loc EXCEPT ![t] = Idle] /\ loc'[t] = Idle
      /\ \A u \in Threads : u # t => loc'[u] = loc[u] /\ ~InTx(u)
  BY DEF Commit, IInv, TypeOK, Locking, InTx, At
<1>2. TypeOK'
  BY <1>1, IdleIsLocal DEF IInv, TypeOK
<1>3. Locking' /\ (\A u \in Threads : ~InTx(u)') /\ ~At(t, "act")'
  BY <1>1, DraftsAssumption DEF Locking, InTx, Idle, At
<1>4. ASSUME NEW u \in Threads, At(u, "act")' PROVE ReadHolds(u)'
  <2>1. u # t /\ loc'[u] = loc[u] /\ ReadHolds(u)
    BY <1>1, <1>3, <1>4 DEF IInv, At
  <2>2. CASE loc[u].id = loc[t].id
    BY <2>1, <2>2, CommitEffect DEF ReadHolds, Exists, IsAuto
  <2>3. CASE loc[u].id # loc[t].id
    BY <2>1, <2>3, CommitEffect DEF ReadHolds, Exists, IsAuto, HasStatus
  <2> QED
    BY <2>2, <2>3
<1>5. EventsHaveOneDraft'
  <2> SUFFICES ASSUME NEW e \in EventIds
               PROVE LET drafts == {a \in ActionIds : Exists(db', a) /\ db'.actions[a].event = e}
                     IN  IF db'.events[e] = "absent" THEN drafts = {}
                         ELSE db'.events[e] = "processed" /\ \E a \in ActionIds : drafts = {a}
    BY DEF EventsHaveOneDraft, Exists
  <2> DEFINE before == {a \in ActionIds : Exists(db, a) /\ db.actions[a].event = e}
             after == {a \in ActionIds : Exists(db', a) /\ db'.actions[a].event = e}
  <2>1. IF db.events[e] = "absent" THEN before = {}
        ELSE db.events[e] = "processed" /\ \E a \in ActionIds : before = {a}
    BY DEF IInv, EventsHaveOneDraft
  <2>2. CASE Exists(db, loc[t].id)
    <3>1. after = before /\ db'.events = db.events
      BY <2>2, CommitEffect DEF Exists
    <3> QED
      BY <2>1, <3>1
  <2>3. CASE ~Exists(db, loc[t].id) /\ loc[t].event = e
    <3>1. before = {} /\ after = {loc[t].id} /\ db'.events[e] = "processed"
      BY <2>1, <2>3, CommitEffect DEF Exists
    <3> QED
      BY <3>1, CommitEffect
  <2>4. CASE ~Exists(db, loc[t].id) /\ loc[t].event # e
    <3>1. after = before /\ db'.events[e] = db.events[e]
      BY <2>4, CommitEffect DEF Exists
    <3> QED
      BY <2>1, <3>1
  <2> QED
    BY <2>2, <2>3, <2>4
<1>6. DecisionsAreWhole'
  BY <1>1, CommitEffect DEF IInv, DecisionsAreWhole, Exists, HasStatus
<1> QED
  BY <1>2, <1>3, <1>4, <1>5, <1>6 DEF IInv

\* set_approval_policy touches no event and no draft.
LEMMA SetPolicyHolds ==
    ASSUME IInv, NEW types \in SUBSET ActionTypes, SetPolicy(types) PROVE IInv'
<1>1. /\ writer = NoThread /\ tx' = db' /\ UNCHANGED <<writer, sent, loc>>
      /\ db' \in Database /\ db'.actions = db.actions /\ db'.events = db.events
  BY DEF SetPolicy, IInv, TypeOK, Database
<1>2. TypeOK' /\ Locking'
  BY <1>1 DEF IInv, TypeOK, Locking, InTx
<1>3. \A u \in Threads : (At(u, "act")' => ReadHolds(u)') /\ ~InTx(u)'
  BY <1>1, DraftsAssumption DEF IInv, Locking, InTx, At, ReadHolds, IsAuto, HasStatus, Exists
<1>4. EventsHaveOneDraft' /\ DecisionsAreWhole'
  BY <1>1 DEF IInv, EventsHaveOneDraft, DecisionsAreWhole, HasStatus, Exists
<1> QED
  BY <1>2, <1>3, <1>4 DEF IInv
-----------------------------------------------------------------------------

\* Every step of the pipeline and the approvals keeps the invariant.
LEMMA StepHolds == IInv /\ [Next]_vars => IInv'
<1> SUFFICES ASSUME IInv, [Next]_vars PROVE IInv'
  OBVIOUS
<1>1. CASE \E types \in SUBSET ActionTypes : SetPolicy(types)
  BY <1>1, SetPolicyHolds
<1>2. ASSUME NEW t \in Threads, \E e \in EventIds : ReceiveEvent(t, e) PROVE IInv'
  BY <1>2, ReceiveEventHolds
<1>3. ASSUME NEW t \in Threads, \E type \in ActionTypes : Extract(t, type) PROVE IInv'
  BY <1>3, ExtractHolds
<1>4. ASSUME NEW t \in Threads, \E a \in ActionIds : Draft(t, a) PROVE IInv'
  BY <1>4, DraftHolds
<1>5. ASSUME NEW t \in Threads,
             \E handler \in {"approve", "reject"}, a \in ActionIds : ReadAction(t, handler, a)
      PROVE  IInv'
  BY <1>5, ReadActionHolds
<1>6. ASSUME NEW t \in Threads, Continue(t) PROVE IInv'
  BY <1>6, ApplyPolicyHolds, ApproveHolds, RejectHolds, SendHolds, MarkSentHolds, CommitHolds,
     LockTimeoutHolds DEF Continue
<1>7. ASSUME NEW t \in Threads, Fail(t) PROVE IInv'
  BY <1>7, FailHolds
<1>8. CASE UNCHANGED vars
  BY <1>8 DEF vars, IInv, TypeOK, Locking, InTx, At, ReadHolds, IsAuto, HasStatus, Exists, Work,
              EventWork, NewDraft, DecisionWork, EventsHaveOneDraft, DecisionsAreWhole
<1> QED
  BY <1>1, <1>2, <1>3, <1>4, <1>5, <1>6, <1>7, <1>8 DEF Next

\* Only Commit and SetPolicy change what is committed, and SetPolicy no draft.
LEMMA DraftsChangeByCommit ==
    ASSUME IInv, [Next]_vars, db'.actions # db.actions
    PROVE  \E t \in Threads : Commit(t)
<1>1. ASSUME NEW types \in SUBSET ActionTypes, SetPolicy(types) PROVE db'.actions = db.actions
  BY <1>1 DEF SetPolicy, IInv, TypeOK, Database
<1> QED
  BY <1>1 DEF Next, Continue, vars, ReceiveEvent, Extract, Draft, ApplyPolicy, ReadAction,
              Approve, Reject, Send, MarkSent, Fail, LockTimeout

\* The inductive invariant: who holds the lock, what its transaction has done so
\* far, and that what approve and reject read is still a draft no policy has sent.
THEOREM Invariance == Spec => []IInv
<1> QED
  BY InitHolds, StepHolds, PTL DEF Spec

\* The tables and the local variables of the handlers keep their types
\* (db/schema.sql).
THEOREM TypeCorrect == Spec => []TypeOK
<1>1. IInv => TypeOK
  BY DEF IInv
<1> QED
  BY <1>1, Invariance, PTL

\* However handlers interleave and wherever one fails, no committed event is
\* left without its draft, and no draft without its event (db.get_conn).
THEOREM Atomicity == Spec => []EventsHaveOneDraft
<1>1. IInv => EventsHaveOneDraft
  BY DEF IInv
<1> QED
  BY <1>1, Invariance, PTL

\* What is read of a decision is the whole of it, and "sent" means sent
\* (approve_and_send, maybe_auto_approve).
THEOREM WholeDecisions == Spec => []DecisionsAreWhole
<1>1. IInv => DecisionsAreWhole
  BY DEF IInv
<1> QED
  BY <1>1, Invariance, PTL

\* The comment in set_action_status on decided_at holds, and a policy is
\* followed as it is when the draft is committed.
THEOREM HumansDecide == Spec => DecidedByHuman
<1>1. IInv /\ [Next]_vars =>
         [\A a \in ActionIds : db'.actions[a] # db.actions[a] =>
            IF Exists(db, a) THEN db'.actions[a].decided
            ELSE /\ ~db'.actions[a].decided
                 /\ HasStatus(db', a, "sent") <=> db'.actions[a].type \in db.policies]_vars
  <2> SUFFICES ASSUME IInv, [Next]_vars, NEW a \in ActionIds, db'.actions[a] # db.actions[a]
               PROVE  IF Exists(db, a) THEN db'.actions[a].decided
                      ELSE /\ ~db'.actions[a].decided
                           /\ HasStatus(db', a, "sent") <=> db'.actions[a].type \in db.policies
    OBVIOUS
  <2>1. PICK t \in Threads : Commit(t)
    BY DraftsChangeByCommit
  <2>2. a = loc[t].id
    BY <2>1, CommitEffect
  <2> QED
    BY <2>1, <2>2, CommitEffect
<1> QED
  BY <1>1, Invariance, PTL DEF Spec, DecidedByHuman

\* A draft that a policy sent keeps its row for ever, and no draft returns to
\* the pending list (maybe_auto_approve, list_pending_actions).
THEOREM AutoIsFinal == Spec => AutoApprovedIsFinal
<1>1. IInv /\ [Next]_vars =>
         [\A a \in ActionIds : Exists(db, a) =>
            /\ (HasStatus(db, a, "sent") /\ ~db.actions[a].decided) => db'.actions[a] = db.actions[a]
            /\ HasStatus(db', a, "pending_approval") => HasStatus(db, a, "pending_approval")]_vars
  <2> SUFFICES ASSUME IInv, [Next]_vars, NEW a \in ActionIds, Exists(db, a)
               PROVE  /\ IsAuto(a) => db'.actions[a] = db.actions[a]
                      /\ HasStatus(db', a, "pending_approval") => HasStatus(db, a, "pending_approval")
    BY DEF IsAuto
  <2>1. CASE db'.actions[a] = db.actions[a]
    BY <2>1 DEF HasStatus, Exists
  <2>2. CASE db'.actions[a] # db.actions[a]
    <3>1. PICK t \in Threads : Commit(t)
      BY <2>2, DraftsChangeByCommit
    <3>2. a = loc[t].id
      BY <2>2, <3>1, CommitEffect
    <3> QED
      BY <3>1, <3>2, CommitEffect DEF HasStatus
  <2> QED
    BY <2>1, <2>2
<1> QED
  BY <1>1, Invariance, PTL DEF Spec, AutoApprovedIsFinal
-----------------------------------------------------------------------------
(* Every decision ends.  For the provers ENABLED is a predicate that nothing   *)
(* is known of, so what makes Continue possible is written out (CanContinue). *)

Ended(t) == loc[t] = Idle
Deciding(t) == loc[t].handler \in {"approve", "reject"}
DecidingAt(t, pc) == Deciding(t) /\ At(t, pc)

\* The guards of Continue: everything else in its actions is what they assign.
CanContinue(t) == \/ At(t, "act") /\ (writer = NoThread => Deciding(t))
                  \/ loc[t].pc \in {"policy", "send", "mark", "commit"}

IdleHolds == \A t \in Threads : At(t, "idle") => Ended(t)

LEMMA ContinueAsks == ASSUME NEW t \in Threads, Continue(t) PROVE CanContinue(t)
BY DraftsAssumption DEF Continue, ApplyPolicy, Approve, Reject, Send, MarkSent, Commit, LockTimeout,
   TakeLock, CanContinue, Deciding, At

\* Whoever moves, the handler of t stays where it is, starts, goes on or ends.
LEMMA HandlerMoves ==
    ASSUME IInv, NEW t \in Threads, [Next]_vars
    PROVE  \/ UNCHANGED loc[t]
           \/ Ended(t) /\ loc'[t].pc # "idle"
           \/ loc[t].pc \in {"extract", "draft", "policy"} /\ loc'[t].pc # "idle"
                  /\ UNCHANGED loc[t].handler
           \/ DecidingAt(t, "act") /\ (DecidingAt(t, "send") \/ DecidingAt(t, "commit"))'
           \/ At(t, "send") /\ At(t, "mark")' /\ UNCHANGED loc[t].handler
           \/ At(t, "mark") /\ At(t, "commit")' /\ UNCHANGED loc[t].handler
           \/ Ended(t)'
<1>1. loc \in [Threads -> Local]
  BY DEF IInv, TypeOK
<1>2. CASE UNCHANGED vars
  BY <1>2 DEF vars
<1>3. ASSUME NEW types \in SUBSET ActionTypes, SetPolicy(types) PROVE loc' = loc
  BY <1>3 DEF SetPolicy
<1>4. ASSUME NEW u \in Threads, NEW e \in EventIds, ReceiveEvent(u, e)
      PROVE  UNCHANGED loc[t] \/ (Ended(t) /\ loc'[t].pc # "idle")
  BY <1>1, <1>4 DEF ReceiveEvent, Ended, Idle
<1>5. ASSUME NEW u \in Threads, NEW handler \in {"approve", "reject"}, NEW a \in ActionIds,
             ReadAction(u, handler, a)
      PROVE  UNCHANGED loc[t] \/ (Ended(t) /\ loc'[t].pc # "idle")
  BY <1>1, <1>5 DEF ReadAction, Ended, Idle
<1>6. ASSUME NEW u \in Threads,
             \/ \E type \in ActionTypes : Extract(u, type)
             \/ \E a \in ActionIds : Draft(u, a)
             \/ ApplyPolicy(u)
      PROVE  \/ UNCHANGED loc[t]
             \/ loc[t].pc \in {"extract", "draft", "policy"} /\ loc'[t].pc # "idle"
                    /\ UNCHANGED loc[t].handler
  BY <1>1, <1>6 DEF Extract, Draft, ApplyPolicy, Local, At, Goto
<1>7. ASSUME NEW u \in Threads, Approve(u) \/ Reject(u)
      PROVE  \/ UNCHANGED loc[t]
             \/ DecidingAt(t, "act") /\ (DecidingAt(t, "send") \/ DecidingAt(t, "commit"))'
  BY <1>1, <1>7 DEF Approve, Reject, Local, At, Goto, DecidingAt, Deciding
<1>8. ASSUME NEW u \in Threads, Send(u) \/ MarkSent(u)
      PROVE  \/ UNCHANGED loc[t]
             \/ At(t, "send") /\ At(t, "mark")' /\ UNCHANGED loc[t].handler
             \/ At(t, "mark") /\ At(t, "commit")' /\ UNCHANGED loc[t].handler
  BY <1>1, <1>8 DEF Send, MarkSent, Local, At, Goto
<1>9. ASSUME NEW u \in Threads, Commit(u) \/ LockTimeout(u) \/ Fail(u)
      PROVE  UNCHANGED loc[t] \/ Ended(t)'
  BY <1>1, <1>9 DEF Commit, LockTimeout, Fail, Ended, Idle
<1> QED
  BY <1>2, <1>3, <1>4, <1>5, <1>6, <1>7, <1>8, <1>9 DEF Next, Continue

\* What goes on does not stay.
LEMMA ContinueMoves ==
    ASSUME IInv, NEW t \in Threads, Continue(t) PROVE loc'[t].pc # loc[t].pc
BY DEF IInv, TypeOK, Local, Idle, Continue, ApplyPolicy, Approve, Reject, Send, MarkSent, Commit,
   LockTimeout, At, Goto

\* A handler that has not begun has no local variables.
THEOREM IdleIsIdle == Spec => []IdleHolds
<1>1. Init => IdleHolds
  BY DEF Init, IdleHolds, Ended
<1>2. IInv /\ IdleHolds /\ [Next]_vars => IdleHolds'
  <2> SUFFICES ASSUME IInv, IdleHolds, [Next]_vars, NEW t \in Threads, At(t, "idle")'
               PROVE  Ended(t)'
    BY DEF IdleHolds
  <2> QED
    BY HandlerMoves DEF IdleHolds, Ended, At, DecidingAt
<1> QED
  BY <1>1, <1>2, Invariance, PTL DEF Spec

\* Where a decision can be, and where it can go from there.
LEMMA DecisionPlaces ==
    ASSUME IInv, IdleHolds, NEW t \in Threads, Deciding(t)
    PROVE  \/ DecidingAt(t, "act") \/ DecidingAt(t, "send")
           \/ DecidingAt(t, "mark") \/ DecidingAt(t, "commit")
<1>1. loc[t].pc # "idle"
  BY DEF IdleHolds, Deciding, At, Ended, Idle
<1>2. CASE InTx(t)
  BY <1>2 DEF IInv, Work, DecisionWork, Deciding, DecidingAt, At
<1>3. CASE ~InTx(t)
  BY <1>1, <1>3 DEF InTx, DecidingAt, At
<1> QED
  BY <1>2, <1>3

LEMMA DecisionMoves ==
    ASSUME IInv, NEW t \in Threads, [Next]_vars
    PROVE  /\ DecidingAt(t, "act") =>
                 (DecidingAt(t, "act") \/ DecidingAt(t, "send") \/ DecidingAt(t, "commit") \/ Ended(t))'
           /\ DecidingAt(t, "send") => (DecidingAt(t, "send") \/ DecidingAt(t, "mark") \/ Ended(t))'
           /\ DecidingAt(t, "mark") => (DecidingAt(t, "mark") \/ DecidingAt(t, "commit") \/ Ended(t))'
           /\ DecidingAt(t, "commit") => (DecidingAt(t, "commit") \/ Ended(t))'
BY HandlerMoves DEF DecidingAt, Deciding, At, Ended, Idle

\* What the prover is not told: where its guards hold, Continue is possible.
GuardsSuffice(t) == [](CanContinue(t) => ENABLED <<Continue(t)>>_vars)

\* "database is locked" after five seconds, or the lock: a model that never answers
\* keeps no approval and no rejection waiting for ever (get_conn, approve_and_send,
\* reject_action).  Asked for is, beside the fairness of the specification, that
\* Continue is possible where its guards hold.
THEOREM DecisionsAreMade == FairSpec /\ (\A t \in Threads : GuardsSuffice(t)) => DecisionsEnd
<1>1. ASSUME NEW t \in Threads
      PROVE  Spec /\ Scheduled(t) /\ GuardsSuffice(t) => DecisionEnds(t)
  <2>1. IInv /\ IdleHolds /\ Deciding(t) =>
           \/ DecidingAt(t, "act") \/ DecidingAt(t, "send")
           \/ DecidingAt(t, "mark") \/ DecidingAt(t, "commit")
    BY DecisionPlaces
  <2>2. IInv /\ [Next]_vars =>
           /\ DecidingAt(t, "act") =>
                 (DecidingAt(t, "act") \/ DecidingAt(t, "send") \/ DecidingAt(t, "commit") \/ Ended(t))'
           /\ DecidingAt(t, "send") => (DecidingAt(t, "send") \/ DecidingAt(t, "mark") \/ Ended(t))'
           /\ DecidingAt(t, "mark") => (DecidingAt(t, "mark") \/ DecidingAt(t, "commit") \/ Ended(t))'
           /\ DecidingAt(t, "commit") => (DecidingAt(t, "commit") \/ Ended(t))'
    BY DecisionMoves
  <2>3. IInv /\ <<Continue(t)>>_vars =>
           /\ DecidingAt(t, "act") => ~DecidingAt(t, "act")'
           /\ DecidingAt(t, "send") => ~DecidingAt(t, "send")'
           /\ DecidingAt(t, "mark") => ~DecidingAt(t, "mark")'
           /\ DecidingAt(t, "commit") => ~DecidingAt(t, "commit")'
    BY ContinueMoves DEF DecidingAt, At
  <2>4. DecidingAt(t, "act") \/ DecidingAt(t, "send") \/ DecidingAt(t, "mark")
           \/ DecidingAt(t, "commit") => CanContinue(t)
    BY DEF DecidingAt, CanContinue, At
  <2> QED
    BY <2>1, <2>2, <2>3, <2>4, Invariance, IdleIsIdle, PTL
       DEF Spec, Scheduled, GuardsSuffice, DecisionEnds, Deciding, Ended
<1> QED
  BY <1>1 DEF FairSpec, DecisionsEnd
=============================================================================
