-------------------------------- MODULE Drafts --------------------------------
(***************************************************************************)
(* The event pipeline and the approvals (pipeline/, approval/) of one       *)
(* business: an event comes in, a model picks an action type and writes a   *)
(* draft, and the draft is sent when the owner, or a policy, approves it.   *)
(*                                                                          *)
(* A handler is one transaction of SQLite.  create_event writes first, so   *)
(* it holds the write lock while it waits for the model; approve and reject *)
(* read the draft in no transaction and take the lock afterwards.  Until    *)
(* the commit only the holder of the lock sees what it wrote; a message     *)
(* that was sent is out of the database's reach.                            *)
(***************************************************************************)

CONSTANTS Threads, EventIds, ActionIds,
          ActionTypes,              \* with a prompt in the pack
          NoRow, NoThread, NoEvent, NoAction, NoType

ASSUME DraftsAssumption == /\ NoThread \notin Threads
                           /\ NoEvent \notin EventIds
                           /\ NoAction \notin ActionIds
                           /\ NoType \notin ActionTypes

VARIABLES
    db,         \* the three tables, as committed
    tx,         \* the three tables, as the holder of the write lock sees them
    writer,     \* the holder of the write lock
    sent,       \* the actions for which a message went out
    loc         \* the local variables of each handler

vars == <<db, tx, writer, sent, loc>>

ActionRow == [ event   : EventIds,
               type    : ActionTypes,
               status  : {"pending_approval", "approved", "rejected", "auto_approved", "sent"},
               decided : BOOLEAN ]              \* is decided_at not NULL

ASSUME NoRowAssumption == NoRow \notin ActionRow

Database == [ events   : [EventIds -> {"absent", "new", "processed"}],
              actions  : [ActionIds -> ActionRow \cup {NoRow}],
              policies : SUBSET ActionTypes ]   \* approved without a human

Local == [ pc      : {"idle", "act", "extract", "draft", "policy", "send", "mark", "commit"},
           handler : {"none", "event", "approve", "reject"},
           event   : EventIds \cup {NoEvent},
           id      : ActionIds \cup {NoAction},
           type    : ActionTypes \cup {NoType} ]

TypeOK == /\ db \in Database
          /\ tx \in Database
          /\ writer \in Threads \cup {NoThread}
          /\ sent \in SUBSET ActionIds
          /\ loc \in [Threads -> Local]

Idle == [ pc |-> "idle", handler |-> "none", event |-> NoEvent, id |-> NoAction,
          type |-> NoType ]

Init == /\ db = [ events   |-> [e \in EventIds |-> "absent"],
                  actions  |-> [a \in ActionIds |-> NoRow],
                  policies |-> {} ]
        /\ tx = db
        /\ writer = NoThread
        /\ sent = {}
        /\ loc = [t \in Threads |-> Idle]

At(t, pc) == loc[t].pc = pc
Goto(t, pc) == loc' = [loc EXCEPT ![t].pc = pc]

\* The first write of a transaction.
TakeLock(t) == writer = NoThread /\ writer' = t

Exists(tables, a) == tables.actions[a] # NoRow
HasStatus(tables, a, status) == Exists(tables, a) /\ tables.actions[a].status = status

\* Fault: decided_at is always written.
SetStatus_Stamped(a, status) ==
    tx' = [tx EXCEPT !.actions[a].status = status, !.actions[a].decided = TRUE]

\* set_action_status: UPDATE ... WHERE id = a, whatever the status was
SetStatus(a, status) == tx' = [tx EXCEPT !.actions[a].status = status]
Decide(a, status) == tx' = [tx EXCEPT !.actions[a].status = status, !.actions[a].decided = TRUE]

-----------------------------------------------------------------------------
(* create_event and process_event                                           *)

\* The event is inserted before the model is asked.
ReceiveEvent(t, e) ==
    /\ loc[t] = Idle
    /\ TakeLock(t)
    /\ tx.events[e] = "absent"
    /\ tx' = [tx EXCEPT !.events[e] = "new"]
    /\ loc' = [loc EXCEPT ![t] = [Idle EXCEPT !.pc = "extract", !.handler = "event", !.event = e]]
    /\ UNCHANGED <<db, sent>>

\* The first answer: fields, and one of the types there is a prompt for.
Extract(t, type) ==
    /\ At(t, "extract")
    /\ tx' = [tx EXCEPT !.events[loc[t].event] = "processed"]
    /\ loc' = [loc EXCEPT ![t].pc = "draft", ![t].type = type]
    /\ UNCHANGED <<db, writer, sent>>

NewAction(t) == [ event |-> loc[t].event, type |-> loc[t].type,
                  status |-> "pending_approval", decided |-> FALSE ]

\* Fault: the draft is committed before the policy is looked up.
Draft_Committed(t, a) ==
    /\ At(t, "draft")
    /\ ~Exists(tx, a)
    /\ tx' = [tx EXCEPT !.actions[a] = NewAction(t)]
    /\ db' = tx'
    /\ loc' = [loc EXCEPT ![t].pc = "policy", ![t].id = a]
    /\ UNCHANGED <<writer, sent>>

\* The second answer: the text of the draft.
Draft(t, a) ==
    /\ At(t, "draft")
    /\ ~Exists(tx, a)
    /\ tx' = [tx EXCEPT !.actions[a] = NewAction(t)]
    /\ loc' = [loc EXCEPT ![t].pc = "policy", ![t].id = a]
    /\ UNCHANGED <<db, writer, sent>>

\* maybe_auto_approve: decided_at stays NULL
ApplyPolicy(t) ==
    /\ At(t, "policy")
    /\ IF loc[t].type \in tx.policies
       THEN SetStatus(loc[t].id, "auto_approved") /\ Goto(t, "send")
       ELSE UNCHANGED tx /\ Goto(t, "commit")
    /\ UNCHANGED <<db, writer, sent>>

-----------------------------------------------------------------------------
(* approve_and_send and reject_action                                       *)

\* get_drafted_action, and the refusal if it is not pending
ReadAction(t, handler, a) ==
    /\ loc[t] = Idle
    /\ HasStatus(db, a, "pending_approval")
    /\ loc' = [loc EXCEPT ![t] = [Idle EXCEPT !.pc = "act", !.handler = handler, !.id = a]]
    /\ UNCHANGED <<db, tx, writer, sent>>

\* Fault: the action counts as sent before it is.
Approve_SentFirst(t) ==
    /\ At(t, "act") /\ loc[t].handler = "approve"
    /\ TakeLock(t)
    /\ Decide(loc[t].id, "sent")
    /\ db' = tx'
    /\ Goto(t, "send")
    /\ UNCHANGED sent

Approve(t) == /\ At(t, "act") /\ loc[t].handler = "approve"
              /\ TakeLock(t)
              /\ Decide(loc[t].id, "approved")
              /\ Goto(t, "send")
              /\ UNCHANGED <<db, sent>>

Reject(t) == /\ At(t, "act") /\ loc[t].handler = "reject"
             /\ TakeLock(t)
             /\ Decide(loc[t].id, "rejected")
             /\ Goto(t, "commit")
             /\ UNCHANGED <<db, sent>>

-----------------------------------------------------------------------------

\* _simulated_send, for humans and policies alike
Send(t) == /\ At(t, "send")
           /\ sent' = sent \cup {loc[t].id}
           /\ Goto(t, "mark")
           /\ UNCHANGED <<db, tx, writer>>

MarkSent(t) == /\ At(t, "mark")
               /\ SetStatus(loc[t].id, "sent")
               /\ Goto(t, "commit")
               /\ UNCHANGED <<db, writer, sent>>

\* get_conn: the end of the `with` block
Commit(t) == /\ At(t, "commit")
             /\ db' = tx
             /\ writer' = NoThread
             /\ loc' = [loc EXCEPT ![t] = Idle]
             /\ UNCHANGED <<tx, sent>>

\* Fault: no rollback, so the connection commits what was written so far.
Fail_Commits(t) == /\ loc[t] # Idle
                   /\ loc' = [loc EXCEPT ![t] = Idle]
                   /\ IF writer = t THEN db' = tx /\ writer' = NoThread
                                    ELSE UNCHANGED <<db, writer>>
                   /\ UNCHANGED <<tx, sent>>

\* An event that the pack cannot handle, a model that fails or answers
\* nonsense, the death of the process: everything written is rolled back.
Fail(t) == /\ loc[t] # Idle
           /\ loc' = [loc EXCEPT ![t] = Idle]
           /\ IF writer = t THEN tx' = db /\ writer' = NoThread
                            ELSE UNCHANGED <<tx, writer>>
           /\ UNCHANGED <<db, sent>>

\* Fault: a handler that finds the database locked waits for ever.
LockTimeout_Never(t) == FALSE /\ UNCHANGED vars

\* sqlite3.connect waits five seconds for the lock, then "database is locked".
LockTimeout(t) == /\ At(t, "act") /\ writer # NoThread
                  /\ loc' = [loc EXCEPT ![t] = Idle]
                  /\ UNCHANGED <<db, tx, writer, sent>>

\* set_approval_policy, in a transaction of its own
SetPolicy(types) == /\ writer = NoThread
                    /\ db' = [db EXCEPT !.policies = types]
                    /\ tx' = db'
                    /\ UNCHANGED <<writer, sent, loc>>

\* What a thread does without waiting for the model.
Continue(t) == \/ ApplyPolicy(t)
               \/ Approve(t)
               \/ Reject(t)
               \/ Send(t)
               \/ MarkSent(t)
               \/ Commit(t)
               \/ LockTimeout(t)

Next == \/ \E types \in SUBSET ActionTypes : SetPolicy(types)
        \/ \E t \in Threads :
              \/ \E e \in EventIds : ReceiveEvent(t, e)
              \/ \E type \in ActionTypes : Extract(t, type)
              \/ \E a \in ActionIds : Draft(t, a)
              \/ \E handler \in {"approve", "reject"}, a \in ActionIds : ReadAction(t, handler, a)
              \/ Continue(t)
              \/ Fail(t)

Spec == Init /\ [][Next]_vars

\* Threads are scheduled; the model may never answer (call_llm has no timeout).
Scheduled(t) == WF_vars(Continue(t))

FairSpec == Spec /\ \A t \in Threads : Scheduled(t)

-----------------------------------------------------------------------------

\* "either every write lands or none of them do": whatever fails, and wherever,
\* a committed event is processed and has one draft, and no draft is an orphan.
EventsHaveOneDraft ==
    /\ \A e \in EventIds :
          LET drafts == {a \in ActionIds : Exists(db, a) /\ db.actions[a].event = e}
          IN  IF db.events[e] = "absent" THEN drafts = {}
              ELSE db.events[e] = "processed" /\ \E a \in ActionIds : drafts = {a}

\* The steps of a decision are never seen: what others read is pending,
\* rejected or sent, and what they read as sent has really been sent.
DecisionsAreWhole ==
    \A a \in ActionIds : Exists(db, a) =>
       /\ db.actions[a].status \in {"pending_approval", "rejected", "sent"}
       /\ HasStatus(db, a, "sent") => a \in sent

\* "decided_at is set only when a human actually made a decision": a draft
\* arrives without it, sent if and only if the policy in force says so, and
\* from then on it only changes by a human's decision.
DecidedByHuman ==
    [][\A a \in ActionIds : db'.actions[a] # db.actions[a] =>
          IF Exists(db, a) THEN db'.actions[a].decided
          ELSE /\ ~db'.actions[a].decided
               /\ HasStatus(db', a, "sent") <=> db'.actions[a].type \in db.policies]_vars

\* What a policy approved is never approved or rejected by a human as well,
\* and what is decided is never undecided.
AutoApprovedIsFinal ==
    [][\A a \in ActionIds : Exists(db, a) =>
          /\ (HasStatus(db, a, "sent") /\ ~db.actions[a].decided) => db'.actions[a] = db.actions[a]
          /\ HasStatus(db', a, "pending_approval") => HasStatus(db, a, "pending_approval")]_vars

DecisionEnds(t) == loc[t].handler \in {"approve", "reject"} ~> loc[t] = Idle

\* A model that never answers, while its handler holds the write lock, keeps no
\* other handler waiting for ever.
DecisionsEnd == \A t \in Threads : DecisionEnds(t)

\* "the guard against acting twice": a draft that was decided is not decided again.
DecidedOnce == [][\A a \in ActionIds : Exists(db, a) /\ db.actions[a].decided =>
                     db'.actions[a] = db.actions[a]]_vars
=============================================================================
