---------------------------- MODULE SessionsProofs ----------------------------
(***************************************************************************)
(* Proofs about Sessions, for every number of handlers, accounts, tokens    *)
(* and restarts, and for every lifetime.  What a handler has read of a      *)
(* session stays true although the row may be gone (ReadHolds), because ids *)
(* and tokens are never used again; and the strings that the sweep compares *)
(* sort as the times they stand for (IsoSorts).                             *)
(***************************************************************************)
EXTENDS Sessions, Integers, TLAPS

\* What is true of a row of the table for ever: it was issued as it says.
IsIssued(r) ==
    /\ r \in SessionRow
    /\ r.id <= last_id
    /\ r.token_hash.key <= secret
    /\ issued[r.token_hash.token] =
          [email |-> r.email, key |-> r.token_hash.key, until |-> r.expires_at]

\* A token whose logout was answered has no row under the secret of today.
RowsHold == \A r \in sessions : /\ IsIssued(r)
                                /\ r.token_hash.token \in revoked => r.token_hash.key < secret

IdsAreUnique == \A r, s \in sessions : r.id = s.id => r = s

RevokedWereIssued == \A token \in revoked : issued[token] # NoRow

\* What a request has read: the row may be gone, but no other has its id.
ReadHolds(t) ==
    /\ loc[t].cutoff <= now
    /\ At(t, "create") => loc[t].email \in Emails
    /\ At(t, "compare") \/ At(t, "delete") \/ At(t, "granted") =>
          /\ IsIssued(loc[t].row)
          /\ loc[t].token \in Tokens
          /\ loc[t].row.token_hash = Hash(secret, loc[t].token)
          /\ \A r \in sessions : r.id = loc[t].row.id => r = loc[t].row
          /\ ~loc[t].late
    /\ At(t, "delete") => loc[t].row.expires_at <= now
    /\ At(t, "granted") => /\ loc[t].cutoff < loc[t].row.expires_at
                           /\ loc[t].email = loc[t].row.email

IInv == /\ TypeOK
        /\ RowsHold
        /\ IdsAreUnique
        /\ RevokedWereIssued
        /\ \A t \in Threads : ReadHolds(t)
-----------------------------------------------------------------------------
(* The clock and its strings.                                               *)

LEMMA Division ==
    ASSUME NEW a \in Nat
    PROVE  /\ a \div Resolution \in Int /\ a % Resolution \in Int
           /\ 0 <= a % Resolution /\ a % Resolution < Resolution
           /\ a = Resolution * (a \div Resolution) + (a % Resolution)
BY SessionsAssumption, SMT

LEMMA IsoSorts ==
    ASSUME NEW a \in Nat, NEW b \in Nat
    PROVE  SortsBefore(Iso(a), Iso(b)) <=> a < b
<1> DEFINE qa == a \div Resolution
           ra == a % Resolution
           qb == b \div Resolution
           rb == b % Resolution
           ca == IF ra = 0 THEN 43 ELSE 46
           cb == IF rb = 0 THEN 43 ELSE 46
<1>1. /\ qa \in Int /\ ra \in Int /\ 0 <= ra /\ ra < Resolution
      /\ a = Resolution * qa + ra
  BY Division
<1>2. /\ qb \in Int /\ rb \in Int /\ 0 <= rb /\ rb < Resolution
      /\ b = Resolution * qb + rb
  BY Division
<1>3. Iso(a) = <<qa, ca, ra>> /\ Iso(b) = <<qb, cb, rb>>
  BY DEF Iso
<1>4. SortsBefore(Iso(a), Iso(b)) <=>
         \/ qa < qb
         \/ qa = qb /\ ca < cb
         \/ qa = qb /\ ca = cb /\ ra < rb
  <2> HIDE DEF qa, ra, qb, rb, ca, cb
  <2>1. SortsBefore(Iso(a), Iso(b)) <=>
           \E i \in 1..3 : /\ <<qa, ca, ra>>[i] < <<qb, cb, rb>>[i]
                           /\ \A j \in 1..(i - 1) : <<qa, ca, ra>>[j] = <<qb, cb, rb>>[j]
    BY <1>3 DEF SortsBefore
  <2>2. 1..3 = {1, 2, 3} /\ 1..(1 - 1) = {} /\ 1..(2 - 1) = {1} /\ 1..(3 - 1) = {1, 2}
    OBVIOUS
  <2> QED
    BY <2>1, <2>2
<1> HIDE DEF qa, ra, qb, rb
<1>5. qa < qb => a < b
  <2> SUFFICES ASSUME qa < qb PROVE a < b
    OBVIOUS
  <2>1. qb - qa \in Nat \ {0}
    BY <1>1, <1>2
  <2>2. Resolution * (qb - qa) >= Resolution
    BY <2>1, SessionsAssumption
  <2>3. Resolution * qb = Resolution * qa + Resolution * (qb - qa)
    BY <1>1, <1>2, SessionsAssumption
  <2>4. Resolution * qa \in Int /\ Resolution * qb \in Int /\ Resolution * (qb - qa) \in Int
    BY <1>1, <1>2, SessionsAssumption
  <2> QED
    BY <1>1, <1>2, <2>2, <2>3, <2>4, SessionsAssumption
<1>6. qb < qa => b < a
  <2> SUFFICES ASSUME qb < qa PROVE b < a
    OBVIOUS
  <2>1. qa - qb \in Nat \ {0}
    BY <1>1, <1>2
  <2>2. Resolution * (qa - qb) >= Resolution
    BY <2>1, SessionsAssumption
  <2>3. Resolution * qa = Resolution * qb + Resolution * (qa - qb)
    BY <1>1, <1>2, SessionsAssumption
  <2>4. Resolution * qa \in Int /\ Resolution * qb \in Int /\ Resolution * (qa - qb) \in Int
    BY <1>1, <1>2, SessionsAssumption
  <2> QED
    BY <1>1, <1>2, <2>2, <2>3, <2>4, SessionsAssumption
<1>7. qa = qb => (a < b <=> ra < rb)
  <2> SUFFICES ASSUME qa = qb PROVE a < b <=> ra < rb
    OBVIOUS
  <2>1. Resolution * qa \in Int /\ Resolution * qa = Resolution * qb
    BY <1>1, SessionsAssumption
  <2> QED
    BY <1>1, <1>2, <2>1
<1> QED
  BY <1>1, <1>2, <1>4, <1>5, <1>6, <1>7

\* The sweep deletes exactly what had expired when it began.
LEMMA SweepIsExact ==
    ASSUME IInv, NEW cutoff \in Nat, NEW r \in sessions
    PROVE  r \in Expired(sessions, cutoff) <=> r.expires_at <= cutoff
<1>1. r.expires_at \in Nat
  BY SessionsAssumption DEF IInv, TypeOK, SessionRow
<1> QED
  BY <1>1, IsoSorts DEF Expired
-----------------------------------------------------------------------------
LEMMA IdleIsLocal == Idle \in Local
BY SessionsAssumption DEF Idle, Local, Times

LEMMA InitHolds == Init => IInv
<1> SUFFICES ASSUME Init PROVE IInv
  OBVIOUS
<1>1. TypeOK
  BY IdleIsLocal, SessionsAssumption DEF Init, TypeOK, Times
<1>2. \A t \in Threads : ReadHolds(t)
  <2>1. Idle.pc = "idle" /\ Idle.cutoff = 0
    BY DEF Idle
  <2>2. now = 0 /\ \A t \in Threads : loc[t] = Idle
    BY DEF Init
  <2> SUFFICES ASSUME NEW t \in Threads PROVE ReadHolds(t)
    OBVIOUS
  <2>3. loc[t].pc = "idle" /\ loc[t].cutoff = 0
    BY <2>1, <2>2
  <2> QED
    BY <2>2, <2>3 DEF ReadHolds, At
<1> QED
  BY <1>1, <1>2 DEF Init, IInv, RowsHold, IdsAreUnique, RevokedWereIssued

\* A step that leaves the tables alone and moves one handler.
LEMMA LocalStep ==
    ASSUME IInv, NEW t \in Threads, NEW l \in Local, loc' = [loc EXCEPT ![t] = l],
           UNCHANGED <<now, secret, accounts, sessions, last_id, issued, revoked>>,
           ReadHolds(t)'
    PROVE  IInv'
<1>1. \A u \in Threads : u # t => loc'[u] = loc[u]
  BY DEF IInv, TypeOK
<1>2. TypeOK'
  BY DEF IInv, TypeOK
<1>3. RowsHold' /\ IdsAreUnique' /\ RevokedWereIssued'
  BY DEF IInv, RowsHold, IdsAreUnique, RevokedWereIssued, IsIssued
<1>4. \A u \in Threads : ReadHolds(u)'
  <2> SUFFICES ASSUME NEW u \in Threads, u # t PROVE ReadHolds(u)'
    OBVIOUS
  <2>1. loc'[u] = loc[u] /\ ReadHolds(u)
    BY <1>1 DEF IInv
  <2> QED
    BY <2>1 DEF ReadHolds, At, IsIssued
<1> QED
  BY <1>2, <1>3, <1>4 DEF IInv

LEMMA IdleReads == ASSUME TypeOK', NEW t \in Threads, loc'[t] = Idle PROVE ReadHolds(t)'
<1>1. Idle.pc = "idle" /\ Idle.cutoff = 0
  BY DEF Idle
<1> QED
  BY <1>1, SessionsAssumption DEF ReadHolds, At, TypeOK, Times

\* What a handler read survives a change of the tables that reuses no id.
LEMMA ReadsSurvive ==
    ASSUME IInv, NEW t \in Threads, loc'[t] = loc[t],
           secret' = secret, now' >= now, now' \in Nat, last_id' >= last_id, last_id' \in Nat,
           \A token \in Tokens : issued[token] # NoRow => issued'[token] = issued[token],
           \A r \in sessions' : r \in sessions \/ r.id > last_id
    PROVE  ReadHolds(t)'
<1>1. ReadHolds(t) /\ loc[t] \in Local /\ now \in Nat /\ last_id \in Nat
  BY SessionsAssumption DEF IInv, TypeOK, Times
<1>2. CASE At(t, "compare") \/ At(t, "delete") \/ At(t, "granted")
  <2> DEFINE row == loc[t].row
  <2>1. IsIssued(row)
    BY <1>1, <1>2 DEF ReadHolds
  <2>2. row.token_hash.token \in Tokens /\ row.id \in Nat /\ row.expires_at \in Nat
    BY <2>1, SessionsAssumption DEF IsIssued, SessionRow, Ids
  <2>3. issued[row.token_hash.token] \in Issue
    BY <2>1 DEF IsIssued, SessionRow, Issue
  <2>4. issued'[row.token_hash.token] = issued[row.token_hash.token]
    BY <2>2, <2>3, NoRowAssumption
  <2>5. IsIssued(row)'
    BY <1>1, <2>1, <2>2, <2>4 DEF IsIssued
  <2>6. \A r \in sessions' : r.id = row.id => r = row
    BY <1>1, <1>2, <2>1, <2>2 DEF ReadHolds, IsIssued
  <2>7. /\ row.token_hash = Hash(secret, loc[t].token) /\ loc[t].token \in Tokens /\ ~loc[t].late
        /\ loc[t].cutoff <= now
        /\ At(t, "delete") => row.expires_at <= now
        /\ At(t, "granted") => loc[t].cutoff < row.expires_at /\ loc[t].email = row.email
    BY <1>1, <1>2 DEF ReadHolds
  <2>8. loc[t].cutoff \in Nat
    BY <1>1, SessionsAssumption DEF Local, Times
  <2> HIDE DEF row
  <2> QED
    BY <1>1, <1>2, <2>2, <2>5, <2>6, <2>7, <2>8 DEF ReadHolds, At, Hash, row
<1>3. CASE ~ (At(t, "compare") \/ At(t, "delete") \/ At(t, "granted"))
  <2>1. loc[t].cutoff \in Nat
    BY <1>1, SessionsAssumption DEF Local, Times
  <2> QED
    BY <1>1, <1>3, <2>1 DEF ReadHolds, At
<1> QED
  BY <1>2, <1>3
-----------------------------------------------------------------------------
(* The steps that only move a handler.                                      *)

LEMMA StartLoginHolds ==
    ASSUME IInv, NEW t \in Threads, NEW email \in Emails, StartLogin(t, email) PROVE IInv'
<1> DEFINE l == [Idle EXCEPT !.pc = "create", !.email = email, !.cutoff = now]
<1>1. /\ l \in Local /\ l.pc = "create" /\ l.email = email /\ l.cutoff = now
      /\ loc' = [loc EXCEPT ![t] = l]
  BY IdleIsLocal DEF StartLogin, Idle, Local, IInv, TypeOK
<1> HIDE DEF l
<1>2. loc'[t] = l /\ now' = now /\ now \in Nat
  BY <1>1, SessionsAssumption DEF IInv, TypeOK, Times, StartLogin
<1>3. ReadHolds(t)'
  BY <1>1, <1>2 DEF ReadHolds, At
<1> QED
  BY <1>1, <1>3, LocalStep DEF StartLogin

LEMMA LookUpHolds ==
    ASSUME IInv, NEW t \in Threads, NEW token \in Tokens, LookUp(t, token) PROVE IInv'
<1>1. PICK row \in Found(token) : loc' = [loc EXCEPT ![t] =
         [Idle EXCEPT !.pc = "compare", !.token = token, !.row = row,
                      !.late = (token \in revoked)]]
  BY DEF LookUp
<1>0. PICK late \in BOOLEAN : late = (token \in revoked)
  <2>1. (token \in revoked) \in BOOLEAN
    OBVIOUS
  <2> QED
    BY <2>1, Zenon
<1> DEFINE l == [Idle EXCEPT !.pc = "compare", !.token = token, !.row = row, !.late = late]
<1>2. row \in sessions /\ row.token_hash = Hash(secret, token) /\ row \in SessionRow
      /\ IsIssued(row)
  BY DEF Found, IInv, TypeOK, RowsHold
<1>3. token \notin revoked
  <2>1. row.token_hash.token = token /\ row.token_hash.key = secret
    BY <1>2 DEF Hash
  <2>2. ~ (secret < secret)
    BY SessionsAssumption DEF IInv, TypeOK
  <2> QED
    BY <1>2, <2>1, <2>2 DEF IInv, RowsHold
<1>4. /\ l \in Local /\ l.pc = "compare" /\ l.token = token /\ l.row = row
      /\ l.late = late /\ l.cutoff = 0
  <2>1. 0 \in Times
    BY SessionsAssumption DEF Times
  <2> QED
    BY <1>2, <2>1 DEF Idle, Local
<1>5. loc' = [loc EXCEPT ![t] = l]
  BY <1>0, <1>1, Zenon
<1> HIDE DEF l
<1>6. loc'[t] = l /\ UNCHANGED <<now, secret, accounts, sessions, last_id, issued, revoked>>
  BY <1>5 DEF IInv, TypeOK, LookUp
<1>7. \A r \in sessions : r.id = row.id => r = row
  BY <1>2 DEF IInv, IdsAreUnique
<1>8. 0 <= now
  BY SessionsAssumption DEF IInv, TypeOK, Times
<1>9. ReadHolds(t)'
  <2>1. ~loc'[t].late
    BY <1>0, <1>3, <1>4, <1>6
  <2> QED
    BY <1>2, <1>4, <1>6, <1>7, <1>8, <2>1 DEF ReadHolds, At, IsIssued
<1> QED
  BY <1>4, <1>5, <1>6, <1>9, LocalStep

LEMMA CompareHolds == ASSUME IInv, NEW t \in Threads, Compare(t) PROVE IInv'
<1> DEFINE pc == IF loc[t].row.expires_at <= now THEN "delete" ELSE "granted"
           l == [loc[t] EXCEPT !.pc = pc, !.email = loc[t].row.email, !.cutoff = now]
<1>1. loc[t] \in Local /\ At(t, "compare") /\ ReadHolds(t) /\ now \in Times
  BY DEF Compare, IInv, TypeOK
<1>2. IsIssued(loc[t].row) /\ loc[t].row.expires_at \in Nat /\ loc[t].row.email \in Emails
  BY <1>1, SessionsAssumption DEF ReadHolds, IsIssued, SessionRow
<1>3. loc' = [loc EXCEPT ![t] = l]
  BY DEF Compare
<1>4. /\ l \in Local /\ l.pc = pc /\ l.email = loc[t].row.email /\ l.cutoff = now
      /\ l.row = loc[t].row /\ l.token = loc[t].token /\ l.late = loc[t].late
  BY <1>1, <1>2 DEF Local
<1> HIDE DEF l
<1>5. loc'[t] = l /\ UNCHANGED <<now, secret, accounts, sessions, last_id, issued, revoked>>
  BY <1>3 DEF IInv, TypeOK, Compare
<1>6. now \in Nat
  BY <1>1, SessionsAssumption DEF Times
<1>7. ReadHolds(t)'
  <2>1. /\ loc[t].token \in Tokens
        /\ loc[t].row.token_hash = Hash(secret, loc[t].token)
        /\ \A r \in sessions : r.id = loc[t].row.id => r = loc[t].row
        /\ ~loc[t].late
    BY <1>1 DEF ReadHolds
  <2>2. pc = "delete" => loc[t].row.expires_at <= now
    OBVIOUS
  <2>3. pc = "granted" => now < loc[t].row.expires_at
    BY <1>2, <1>6
  <2>4. pc \in {"delete", "granted"}
    OBVIOUS
  <2>5. IsIssued(loc[t].row)'
    BY <1>2, <1>4, <1>5 DEF IsIssued
  <2> HIDE DEF pc
  <2> QED
    BY <1>4, <1>5, <1>6, <2>1, <2>2, <2>3, <2>4, <2>5 DEF ReadHolds, At, Hash
<1> QED
  BY <1>3, <1>4, <1>5, <1>7, LocalStep

LEMMA ReturnHolds ==
    ASSUME IInv, NEW t \in Threads, Return(t),
           UNCHANGED <<now, secret, accounts, sessions, last_id, issued, revoked>>
    PROVE  IInv'
<1>1. loc' = [loc EXCEPT ![t] = Idle] /\ loc'[t] = Idle
  BY DEF Return, IInv, TypeOK
<1>2. TypeOK'
  BY <1>1, IdleIsLocal DEF IInv, TypeOK
<1> QED
  BY <1>1, <1>2, IdleReads, IdleIsLocal, LocalStep
-----------------------------------------------------------------------------
(* The steps that write.                                                    *)

\* The tables after create_session.
LEMMA CreateTables ==
    ASSUME IInv, NEW email \in Emails, NEW token \in Tokens, NEW cutoff \in Nat,
           CreateSession(email, token, cutoff), UNCHANGED <<now, secret, revoked>>
    PROVE  /\ RowsHold' /\ IdsAreUnique' /\ RevokedWereIssued'
           /\ sessions' \subseteq SessionRow /\ last_id' \in Nat /\ last_id' > last_id
           /\ issued' \in [Tokens -> Issue \cup {NoRow}]
           /\ \A k \in Tokens : issued[k] # NoRow => issued'[k] = issued[k]
           /\ \A r \in sessions' : r \in sessions \/ r.id > last_id
<1> DEFINE kept == sessions \ Expired(sessions, cutoff)
           new  == [ id |-> last_id + 1, email |-> email, token_hash |-> Hash(secret, token),
                     expires_at |-> now + SessionDays ]
           issue == [email |-> email, key |-> secret, until |-> now + SessionDays]
<1>1. /\ issued[token] = NoRow
      /\ sessions' = kept \cup {new}
      /\ last_id' = last_id + 1
      /\ issued' = [issued EXCEPT ![token] = issue]
  BY DEF CreateSession, NextId, Expiry
<1>2. /\ last_id \in Nat /\ secret \in 0..MaxRestarts /\ now \in 0..MaxTime
      /\ issued \in [Tokens -> Issue \cup {NoRow}] /\ kept \subseteq sessions
      /\ sessions \subseteq SessionRow
  BY DEF IInv, TypeOK, Times
<1>3. now + SessionDays \in 0..(MaxTime + SessionDays)
  BY <1>2, SessionsAssumption
<1>4. new \in SessionRow /\ issue \in Issue
  BY <1>2, <1>3 DEF SessionRow, Issue, Hash, Ids
<1>14. PICK row \in SessionRow : row = new
  BY <1>4
<1>5. /\ sessions' = kept \cup {row}
      /\ row.id = last_id + 1 /\ row.token_hash.token = token /\ row.token_hash.key = secret
      /\ issue = [email |-> row.email, key |-> row.token_hash.key, until |-> row.expires_at]
  BY <1>1, <1>14 DEF Hash
<1> HIDE DEF kept, new, issue
<1>6. /\ issued' \in [Tokens -> Issue \cup {NoRow}]
      /\ issued'[token] = issue
      /\ \A k \in Tokens : issued[k] # NoRow => issued'[k] = issued[k]
  BY <1>1, <1>2, <1>4
<1>7. \A r \in sessions : IsIssued(r)'
  <2> SUFFICES ASSUME NEW r \in sessions PROVE IsIssued(r)'
    OBVIOUS
  <2>1. IsIssued(r) /\ r.token_hash.token \in Tokens /\ r.id \in Nat
    BY <1>2 DEF IInv, RowsHold, SessionRow, Ids
  <2>2. issued[r.token_hash.token] \in Issue
    BY <2>1 DEF IsIssued, SessionRow, Issue
  <2>3. issued'[r.token_hash.token] = issued[r.token_hash.token]
    BY <1>6, <2>1, <2>2, NoRowAssumption
  <2> QED
    BY <1>1, <1>2, <2>1, <2>3 DEF IsIssued
<1>8. IsIssued(row)'
  <2>1. last_id' = last_id + 1 /\ secret <= secret' /\ last_id + 1 <= last_id'
    BY <1>1, <1>2, SessionsAssumption
  <2> QED
    BY <1>5, <1>6, <2>1 DEF IsIssued
<1>9. token \notin revoked
  BY <1>1 DEF IInv, RevokedWereIssued
<1>10. RowsHold'
  <2> SUFFICES ASSUME NEW r \in sessions'
               PROVE  IsIssued(r)' /\ (r.token_hash.token \in revoked' =>
                                          (r.token_hash.key < secret)')
    BY DEF RowsHold
  <2>1. CASE r \in sessions
    BY <1>7, <2>1 DEF IInv, RowsHold
  <2>2. CASE r = row
    BY <1>5, <1>8, <1>9, <2>2
  <2> QED
    BY <1>2, <1>5, <2>1, <2>2
<1>11. \A r \in sessions : r.id \in Nat /\ r.id <= last_id
  BY <1>2 DEF IInv, RowsHold, IsIssued, SessionRow, Ids
<1>12. IdsAreUnique'
  BY <1>2, <1>5, <1>11 DEF IInv, IdsAreUnique
<1>13. RevokedWereIssued'
  BY <1>1, <1>6, <1>9 DEF IInv, TypeOK, RevokedWereIssued
<1> QED
  BY <1>1, <1>2, <1>4, <1>5, <1>6, <1>10, <1>12, <1>13

LEMMA SignupHolds ==
    ASSUME IInv, NEW t \in Threads, NEW email \in Emails, NEW token \in Tokens,
           Signup(t, email, token)
    PROVE  IInv'
<1>1. /\ CreateSession(email, token, now) /\ UNCHANGED <<now, secret, loc, revoked>>
      /\ accounts' = accounts \cup {email} /\ now \in Nat /\ last_id \in Nat
  BY SessionsAssumption DEF Signup, IInv, TypeOK, Times
<1>2. TypeOK'
  BY <1>1, CreateTables DEF IInv, TypeOK
<1>3. \A u \in Threads : ReadHolds(u)'
  BY <1>1, CreateTables, ReadsSurvive
<1> QED
  BY <1>1, <1>2, <1>3, CreateTables DEF IInv

LEMMA FinishLoginHolds ==
    ASSUME IInv, NEW t \in Threads, NEW token \in Tokens, FinishLogin(t, token) PROVE IInv'
<1>1. /\ CreateSession(loc[t].email, token, loc[t].cutoff)
      /\ UNCHANGED <<now, secret, accounts, revoked>>
      /\ now \in Nat /\ last_id \in Nat /\ loc[t].email \in Emails /\ loc[t].cutoff \in Nat
  BY SessionsAssumption DEF FinishLogin, IInv, TypeOK, Times, ReadHolds, Local
<1>2. loc'[t] = Idle /\ \A u \in Threads : u # t => loc'[u] = loc[u]
  BY DEF FinishLogin, Return, IInv, TypeOK
<1>3. TypeOK'
  <2>1. loc' \in [Threads -> Local]
    BY IdleIsLocal DEF FinishLogin, Return, IInv, TypeOK
  <2> QED
    BY <1>1, <2>1, CreateTables DEF IInv, TypeOK
<1>4. \A u \in Threads : ReadHolds(u)'
  <2> SUFFICES ASSUME NEW u \in Threads PROVE ReadHolds(u)'
    OBVIOUS
  <2>1. CASE u = t
    BY <1>2, <1>3, <2>1, IdleReads
  <2>2. CASE u # t
    BY <1>1, <1>2, <2>2, CreateTables, ReadsSurvive
  <2> QED
    BY <2>1, <2>2
<1> QED
  BY <1>1, <1>3, <1>4, CreateTables DEF IInv

LEMMA DeleteExpiredHolds == ASSUME IInv, NEW t \in Threads, DeleteExpired(t) PROVE IInv'
<1>1. /\ sessions' \subseteq sessions
      /\ UNCHANGED <<now, secret, accounts, last_id, issued, revoked>>
      /\ now \in Nat /\ last_id \in Nat
  BY SessionsAssumption DEF DeleteExpired, IInv, TypeOK, Times
<1>2. loc'[t] = Idle /\ (\A u \in Threads : u # t => loc'[u] = loc[u])
      /\ loc' \in [Threads -> Local]
  BY IdleIsLocal DEF DeleteExpired, Return, IInv, TypeOK
<1>3. TypeOK'
  BY <1>1, <1>2 DEF IInv, TypeOK
<1>4. RowsHold' /\ IdsAreUnique' /\ RevokedWereIssued'
  BY <1>1 DEF IInv, RowsHold, IdsAreUnique, RevokedWereIssued, IsIssued
<1>5. \A u \in Threads : ReadHolds(u)'
  <2> SUFFICES ASSUME NEW u \in Threads PROVE ReadHolds(u)'
    OBVIOUS
  <2>1. CASE u = t
    BY <1>2, <1>3, <2>1, IdleReads
  <2>2. CASE u # t
    BY <1>1, <1>2, <2>2, ReadsSurvive
  <2> QED
    BY <2>1, <2>2
<1> QED
  BY <1>3, <1>4, <1>5 DEF IInv

LEMMA LogoutHolds == ASSUME IInv, NEW token \in Tokens, Logout(token) PROVE IInv'
<1>1. /\ sessions' = sessions \ Found(token) /\ revoked' = revoked \cup {token}
      /\ issued[token] # NoRow
      /\ UNCHANGED <<now, secret, accounts, last_id, loc, issued>>
      /\ now \in Nat /\ last_id \in Nat
  BY SessionsAssumption DEF Logout, IInv, TypeOK, Times
<1>2. TypeOK'
  BY <1>1 DEF IInv, TypeOK
<1>3. RowsHold'
  <2> SUFFICES ASSUME NEW r \in sessions, r \notin Found(token), r.token_hash.token \in revoked'
               PROVE  r.token_hash.key < secret
    BY <1>1 DEF IInv, RowsHold, IsIssued
  <2>1. IsIssued(r) /\ (r.token_hash.token \in revoked => r.token_hash.key < secret)
    BY DEF IInv, RowsHold
  <2>2. CASE r.token_hash.token = token
    <3>1. r.token_hash # Hash(secret, token)
      BY DEF Found
    <3>2. r.token_hash = [key |-> r.token_hash.key, token |-> r.token_hash.token]
      BY <2>1 DEF IsIssued, SessionRow
    <3>3. r.token_hash.key # secret
      BY <2>2, <3>1, <3>2 DEF Hash
    <3> QED
      BY <2>1, <3>3, SessionsAssumption DEF IsIssued, SessionRow, IInv, TypeOK
  <2> QED
    BY <1>1, <2>1, <2>2
<1>4. IdsAreUnique' /\ RevokedWereIssued'
  BY <1>1 DEF IInv, IdsAreUnique, RevokedWereIssued
<1>5. \A u \in Threads : ReadHolds(u)'
  BY <1>1, ReadsSurvive
<1> QED
  BY <1>2, <1>3, <1>4, <1>5 DEF IInv
-----------------------------------------------------------------------------

LEMMA RestartHolds == IInv /\ Restart => IInv'
<1> SUFFICES ASSUME IInv, Restart PROVE IInv'
  OBVIOUS
<1>1. /\ secret \in Nat /\ secret' \in 0..MaxRestarts /\ secret' >= secret
      /\ UNCHANGED <<now, accounts, sessions, last_id, issued, revoked>>
      /\ loc' = [t \in Threads |-> Idle]
  BY SessionsAssumption DEF Restart, IInv, TypeOK
<1>2. TypeOK'
  BY <1>1, IdleIsLocal DEF IInv, TypeOK
<1>3. \A r \in sessions : r.token_hash.key \in Nat
  <2>1. \A r \in sessions : r.token_hash \in [key : 0..MaxRestarts, token : Tokens]
    BY DEF IInv, RowsHold, IsIssued, SessionRow
  <2> QED
    BY <2>1, SessionsAssumption
<1>4. RowsHold' /\ IdsAreUnique' /\ RevokedWereIssued'
  BY <1>1, <1>3 DEF IInv, RowsHold, IdsAreUnique, RevokedWereIssued, IsIssued
<1>5. \A t \in Threads : ReadHolds(t)'
  BY <1>1, <1>2, IdleReads
<1> QED
  BY <1>2, <1>4, <1>5 DEF IInv

LEMMA TickHolds == IInv /\ Tick => IInv'
<1> SUFFICES ASSUME IInv, Tick PROVE IInv'
  OBVIOUS
<1>1. /\ now \in Nat /\ now' = now + 1 /\ now' \in Times /\ now' \in Nat /\ last_id \in Nat
      /\ UNCHANGED <<secret, accounts, sessions, last_id, loc, issued, revoked>>
  BY SessionsAssumption DEF Tick, IInv, TypeOK, Times
<1>2. TypeOK'
  BY <1>1 DEF IInv, TypeOK
<1>3. RowsHold' /\ IdsAreUnique' /\ RevokedWereIssued'
  BY <1>1 DEF IInv, RowsHold, IdsAreUnique, RevokedWereIssued, IsIssued
<1>4. \A t \in Threads : ReadHolds(t)'
  BY <1>1, ReadsSurvive
<1> QED
  BY <1>2, <1>3, <1>4 DEF IInv

LEMMA NextHolds == IInv /\ [Next]_vars => IInv'
<1> SUFFICES ASSUME IInv, [Next]_vars PROVE IInv'
  OBVIOUS
<1>1. CASE Tick \/ Restart
  BY <1>1, TickHolds, RestartHolds
<1>2. CASE \E token \in Tokens : Logout(token)
  BY <1>2, LogoutHolds
<1>3. CASE \E t \in Threads, email \in Emails, token \in Tokens : Signup(t, email, token)
  BY <1>3, SignupHolds
<1>4. CASE \E t \in Threads, email \in Emails : StartLogin(t, email)
  BY <1>4, StartLoginHolds
<1>5. CASE \E t \in Threads, token \in Tokens : FinishLogin(t, token) \/ LookUp(t, token)
  BY <1>5, FinishLoginHolds, LookUpHolds
<1>6. CASE \E t \in Threads : Compare(t)
  BY <1>6, CompareHolds
<1>7. CASE \E t \in Threads : DeleteExpired(t)
  BY <1>7, DeleteExpiredHolds
<1>8. CASE \E t \in Threads : Handled(t) \/ Fail(t)
  BY <1>8, ReturnHolds DEF Handled, Fail
<1>9. CASE UNCHANGED vars
  <2>1. UNCHANGED <<now, secret, accounts, sessions, last_id, loc, issued, revoked>>
    BY <1>9 DEF vars
  <2>2. TypeOK' /\ RowsHold' /\ IdsAreUnique' /\ RevokedWereIssued'
    BY <2>1 DEF IInv, TypeOK, RowsHold, IdsAreUnique, RevokedWereIssued, IsIssued
  <2>3. now \in Nat /\ last_id \in Nat
    BY SessionsAssumption DEF IInv, TypeOK, Times
  <2>4. \A t \in Threads : ReadHolds(t)'
    BY <2>1, <2>3, ReadsSurvive
  <2> QED
    BY <2>2, <2>4 DEF IInv
<1> QED
  BY <1>1, <1>2, <1>3, <1>4, <1>5, <1>6, <1>7, <1>8, <1>9 DEF Next

\* The inductive invariant of the sessions.
THEOREM Invariance == Spec => []IInv
BY InitHolds, NextHolds, PTL DEF Spec
-----------------------------------------------------------------------------

\* Every table, clock and local variable keeps its type.
THEOREM TypeCorrect == Spec => []TypeOK
BY Invariance, PTL DEF IInv

\* Whoever a request is handled for was issued its token, by a process with the same
\* secret, and had neither let it expire nor logged out before the request came in.
THEOREM GrantsAreJustified == Spec => []GrantsAreDue
<1>1. IInv => GrantsAreDue
  <2> SUFFICES ASSUME IInv, NEW t \in Threads, At(t, "granted")
               PROVE  LET issue == issued[loc[t].token]
                      IN  /\ issue # NoRow
                          /\ issue.email = loc[t].email
                          /\ issue.key = secret
                          /\ loc[t].cutoff < issue.until
                          /\ ~loc[t].late
    BY DEF GrantsAreDue
  <2>1. /\ IsIssued(loc[t].row) /\ loc[t].row.token_hash = Hash(secret, loc[t].token)
        /\ ~loc[t].late /\ loc[t].cutoff < loc[t].row.expires_at
        /\ loc[t].email = loc[t].row.email
    BY DEF IInv, ReadHolds
  <2>2. issued[loc[t].token] =
           [email |-> loc[t].row.email, key |-> secret, until |-> loc[t].row.expires_at]
    BY <2>1 DEF IsIssued, Hash
  <2>3. issued[loc[t].token] \in Issue
    BY <2>1, <2>2 DEF IsIssued, SessionRow, Issue, IInv, TypeOK
  <2> QED
    BY <2>1, <2>2, <2>3, NoRowAssumption
<1> QED
  BY <1>1, Invariance, PTL

\* What a step of a handler deletes has expired by then, or is logged out.
LEMMA DeletedIsDue ==
    ASSUME IInv, [Next]_vars, NEW r \in sessions, r \notin sessions', now < r.expires_at
    PROVE  r.token_hash.token \in revoked'
<1>0. now \in Nat /\ r.expires_at \in Nat
  BY SessionsAssumption DEF IInv, TypeOK, Times, SessionRow
<1>1. CASE \E token \in Tokens : Logout(token)
  <2>1. PICK token \in Tokens : Logout(token)
    BY <1>1
  <2> QED
    BY <2>1 DEF Logout, Found, Hash
<1>2. CASE \E t \in Threads : DeleteExpired(t)
  <2>1. PICK t \in Threads : DeleteExpired(t)
    BY <1>2
  <2>2. r = loc[t].row /\ loc[t].row.expires_at <= now
    BY <2>1 DEF DeleteExpired, At, IInv, ReadHolds
  <2> QED
    BY <1>0, <2>2
<1>3. CASE \E t \in Threads, email \in Emails, token \in Tokens, cutoff \in Nat :
              CreateSession(email, token, cutoff) /\ cutoff <= now
  <2>1. PICK cutoff \in Nat : cutoff <= now /\ r \in Expired(sessions, cutoff)
    BY <1>3 DEF CreateSession
  <2>2. r.expires_at <= cutoff
    BY <2>1, SweepIsExact
  <2> QED
    BY <1>0, <2>1, <2>2
<1>4. CASE \E t \in Threads, email \in Emails, token \in Tokens : Signup(t, email, token)
  BY <1>0, <1>3, <1>4 DEF Signup
<1>5. CASE \E t \in Threads, token \in Tokens : FinishLogin(t, token)
  <2>1. PICK t \in Threads, token \in Tokens : FinishLogin(t, token)
    BY <1>5
  <2>2. loc[t].cutoff \in Nat /\ loc[t].cutoff <= now /\ loc[t].email \in Emails
    BY <2>1, SessionsAssumption DEF FinishLogin, IInv, TypeOK, Local, Times, ReadHolds
  <2> QED
    BY <1>3, <2>1, <2>2 DEF FinishLogin
<1>6. CASE UNCHANGED sessions
  BY <1>6
<1>7. \/ \E token \in Tokens : Logout(token)
      \/ \E t \in Threads : DeleteExpired(t)
      \/ \E t \in Threads, email \in Emails, token \in Tokens : Signup(t, email, token)
      \/ \E t \in Threads, token \in Tokens : FinishLogin(t, token)
      \/ UNCHANGED sessions
  BY DEF Next, vars, Tick, Restart, StartLogin, LookUp, Compare, Handled, Fail
<1> QED
  BY <1>1, <1>2, <1>4, <1>5, <1>6, <1>7

\* A session that can still be used is deleted by its own logout only.
THEOREM LiveSessionsStay == Spec => LiveSessionsSurvive
<1> DEFINE Stay == \A r \in sessions : (r \notin sessions' /\ now < r.expires_at) =>
                      r.token_hash.token \in revoked'
<1>1. IInv /\ [Next]_vars => [Stay]_vars
  BY DeletedIsDue
<1> QED
  BY <1>1, Invariance, PTL DEF Spec, LiveSessionsSurvive

\* After a login, what is in the table was live when the login began, whatever the
\* fractions of its times.
THEOREM LoginsSweep == Spec => SweptOnLogin
<1> DEFINE Swept == \A t \in Threads :
                      (last_id' # last_id /\ At(t, "create") /\ loc'[t] = Idle) =>
                         \A r \in sessions' : r.expires_at > loc[t].cutoff
<1>1. IInv /\ [Next]_vars => [Swept]_vars
  <2> SUFFICES ASSUME IInv, [Next]_vars, NEW t \in Threads, last_id' # last_id,
                      At(t, "create"), loc'[t] = Idle, NEW r \in sessions'
               PROVE  r.expires_at > loc[t].cutoff
    OBVIOUS
  <2>1. loc[t] \in Local /\ loc[t].cutoff \in Nat /\ loc[t].cutoff <= now /\ now \in Nat
    BY SessionsAssumption DEF IInv, TypeOK, Local, Times, ReadHolds
  <2>2. loc[t] # Idle
    BY DEF At, Idle
  <2>3. ~ \E u \in Threads, email \in Emails, token \in Tokens : Signup(u, email, token)
    BY <2>2 DEF Signup
  <2>4. PICK u \in Threads, token \in Tokens : FinishLogin(u, token)
    BY <2>3 DEF Next, vars, Tick, Restart, Logout, StartLogin, LookUp, Compare, DeleteExpired,
                Handled, Fail
  <2>5. u = t
    BY <2>2, <2>4 DEF FinishLogin, Return, IInv, TypeOK
  <2>6. \/ r \in sessions /\ r \notin Expired(sessions, loc[t].cutoff)
        \/ r.expires_at = now + SessionDays
    BY <2>4, <2>5 DEF FinishLogin, CreateSession, Expiry
  <2>7. CASE r \in sessions /\ r \notin Expired(sessions, loc[t].cutoff)
    <3>1. r.expires_at \in Nat
      BY <2>7, SessionsAssumption DEF IInv, TypeOK, SessionRow
    <3> QED
      BY <2>1, <2>7, <3>1, SweepIsExact
  <2>8. CASE r.expires_at = now + SessionDays
    BY <2>1, <2>8, SessionsAssumption
  <2> QED
    BY <2>6, <2>7, <2>8
<1> QED
  BY <1>1, Invariance, PTL DEF Spec, SweptOnLogin
=============================================================================
