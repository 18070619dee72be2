------------------------------- MODULE Sessions -------------------------------
(***************************************************************************)
(* The sessions of the accounts (agentic/auth.py): rows of the sessions     *)
(* table that signup and login create, that each request looks up, and that *)
(* logout, expiry and the sweep of later logins delete.                     *)
(*                                                                          *)
(* A token is drawn at random and given to one browser; the table holds a   *)
(* hash of it under a secret, which is either configured or lost when the   *)
(* process restarts.  Each SELECT sees what is committed at that moment;    *)
(* the writes of a handler, from the first on, are one step.                *)
(***************************************************************************)
EXTENDS Naturals

CONSTANTS Threads, Emails, Tokens,
          SessionDays,      \* in the units of the clock
          Resolution,       \* units of the clock in a second: 10^6
          SecretIsSet,      \* is SESSION_SECRET configured
          MaxTime,          \* bound on the clock
          MaxRestarts,      \* bound on the restarts
          NoToken, NoRow, Nobody

Times == 0..MaxTime
Ids == Nat \ {0}

ASSUME SessionsAssumption == /\ SessionDays \in Nat \ {0} /\ Resolution \in Nat \ {0}
                             /\ SecretIsSet \in BOOLEAN
                             /\ MaxTime \in Nat /\ MaxRestarts \in Nat
                             /\ NoToken \notin Tokens /\ Nobody \notin Emails

VARIABLES
    now,            \* UTC
    secret,         \* the key of the token hashes: one for each restart, or one
    accounts,       \* emails in the accounts table
    sessions,       \* rows of the sessions table
    last_id,        \* its AUTOINCREMENT counter
    loc,            \* the local variables of each handler
    issued,         \* history: what each token was issued for, and until when
    revoked         \* history: the tokens whose logout was answered

vars == <<now, secret, accounts, sessions, last_id, loc, issued, revoked>>

\* token_hash: nobody can tell the token from it, and no two are equal.
Hash(key, token) == [key |-> key, token |-> token]

SessionRow == [ id         : Ids,
                email      : Emails,
                token_hash : [key : 0..MaxRestarts, token : Tokens],
                expires_at : 0..(MaxTime + SessionDays) ]

Issue == [ email : Emails, key : 0..MaxRestarts, until : 0..(MaxTime + SessionDays) ]

ASSUME NoRowAssumption == NoRow \notin SessionRow \cup Issue

Local == [ pc      : {"idle", "create", "compare", "delete", "granted"},
           email   : Emails \cup {Nobody},
           token   : Tokens \cup {NoToken},
           cutoff  : Times,                     \* of the sweep: when it began
           row     : SessionRow \cup {NoRow},   \* as it was read
           late    : BOOLEAN ]                  \* history: began after the logout

TypeOK == /\ now \in Times
          /\ secret \in 0..MaxRestarts
          /\ accounts \in SUBSET Emails
          /\ sessions \in SUBSET SessionRow
          /\ last_id \in Nat
          /\ loc \in [Threads -> Local]
          /\ issued \in [Tokens -> Issue \cup {NoRow}]
          /\ revoked \in SUBSET Tokens

Idle == [ pc |-> "idle", email |-> Nobody, token |-> NoToken, cutoff |-> 0, row |-> NoRow,
          late |-> FALSE ]

Init == /\ now = 0 /\ secret = 0
        /\ accounts = {} /\ sessions = {} /\ last_id = 0
        /\ loc = [t \in Threads |-> Idle]
        /\ issued = [k \in Tokens |-> NoRow]
        /\ revoked = {}

At(t, pc) == loc[t].pc = pc
Return(t) == loc' = [loc EXCEPT ![t] = Idle]

-----------------------------------------------------------------------------
(* signup and login                                                         *)

\* Fault: the offset is written "Z", which sorts after the dot of a fraction.
Iso_Zulu(time) == <<time \div Resolution, IF time % Resolution = 0 THEN 90 ELSE 46, time % Resolution>>

\* isoformat, as far as sorting goes: the second, then "+00:00", or a dot and
\* the fraction.  A whole second has no fraction; 43 and 46 are the characters.
Iso(time) == <<time \div Resolution, IF time % Resolution = 0 THEN 43 ELSE 46, time % Resolution>>

SortsBefore(a, b) == \E i \in 1..3 : a[i] < b[i] /\ \A j \in 1..(i - 1) : a[j] = b[j]

\* prune_expired_sessions compares strings.
Expired(rows, at) == {r \in rows : ~SortsBefore(Iso(at), Iso(r.expires_at))}

Expiry(at) == at + SessionDays

\* Fault: ids are taken from the rows that are left, as without AUTOINCREMENT.
NextId_Reused(rows) == CHOOSE n \in 1..(last_id + 1) :
                          /\ \A r \in rows : r.id < n
                          /\ n = 1 \/ \E r \in rows : r.id + 1 = n

\* INTEGER PRIMARY KEY AUTOINCREMENT: an id is never used again.
NextId(rows) == last_id + 1

\* create_session: sweep, then insert.  The two ask for the time separately.
CreateSession(email, token, cutoff) ==
    LET kept == sessions \ Expired(sessions, cutoff)
        row  == [ id |-> NextId(kept), email |-> email, token_hash |-> Hash(secret, token),
                  expires_at |-> Expiry(now) ]
    IN  /\ issued[token] = NoRow
        /\ sessions' = kept \cup {row}
        /\ last_id' = row.id
        /\ issued' = [issued EXCEPT ![token] =
              [email |-> email, key |-> secret, until |-> row.expires_at]]

\* signup: the account and its session, in one transaction that begins with a
\* write; a taken email is refused.
Signup(t, email, token) ==
    /\ loc[t] = Idle
    /\ email \notin accounts
    /\ accounts' = accounts \cup {email}
    /\ CreateSession(email, token, now)
    /\ UNCHANGED <<now, secret, loc, revoked>>

\* login: the account is read, the password verified, and the time of the
\* sweep taken, before the sweep waits for the write lock.
StartLogin(t, email) ==
    /\ loc[t] = Idle
    /\ email \in accounts
    /\ loc' = [loc EXCEPT ![t] = [Idle EXCEPT !.pc = "create", !.email = email, !.cutoff = now]]
    /\ UNCHANGED <<now, secret, accounts, sessions, last_id, issued, revoked>>

FinishLogin(t, token) ==
    /\ At(t, "create")
    /\ CreateSession(loc[t].email, token, loc[t].cutoff)
    /\ Return(t)
    /\ UNCHANGED <<now, secret, accounts, revoked>>

-----------------------------------------------------------------------------
(* account_for_token and logout                                             *)

\* Fault: tokens are compared, whatever the secret they were hashed under.
Found_AnySecret(token) == {r \in sessions : r.token_hash.token = token}

Found(token) == {r \in sessions : r.token_hash = Hash(secret, token)}

LookUp(t, token) ==
    /\ loc[t] = Idle
    /\ issued[token] # NoRow
    /\ \E row \in Found(token) :
          loc' = [loc EXCEPT ![t] = [Idle EXCEPT !.pc = "compare", !.token = token, !.row = row,
                                                 !.late = (token \in revoked)]]
    /\ UNCHANGED <<now, secret, accounts, sessions, last_id, issued, revoked>>

\* The row is compared with the time after it was read; if it has expired, it
\* is deleted by its id.
Compare(t) ==
    /\ At(t, "compare")
    /\ loc' = [loc EXCEPT ![t].pc = IF loc[t].row.expires_at <= now THEN "delete" ELSE "granted",
                          ![t].email = loc[t].row.email, ![t].cutoff = now]
    /\ UNCHANGED <<now, secret, accounts, sessions, last_id, issued, revoked>>

DeleteExpired(t) ==
    /\ At(t, "delete")
    /\ sessions' = {r \in sessions : r.id # loc[t].row.id}
    /\ Return(t)
    /\ UNCHANGED <<now, secret, accounts, last_id, issued, revoked>>

\* The handler of the request has run for the account that was found.
Handled(t) ==
    /\ At(t, "granted")
    /\ Return(t)
    /\ UNCHANGED <<now, secret, accounts, sessions, last_id, issued, revoked>>

\* logout: delete_session
Logout(token) ==
    /\ issued[token] # NoRow
    /\ sessions' = sessions \ Found(token)
    /\ revoked' = revoked \cup {token}
    /\ UNCHANGED <<now, secret, accounts, last_id, loc, issued>>

-----------------------------------------------------------------------------

\* _session_key: a new process has the configured secret, or draws another.
Restart == /\ secret < MaxRestarts
           /\ secret' = IF SecretIsSet THEN secret ELSE secret + 1
           /\ loc' = [t \in Threads |-> Idle]
           /\ UNCHANGED <<now, accounts, sessions, last_id, issued, revoked>>

\* An error of the database: nothing is written.
Fail(t) == /\ loc[t] # Idle
           /\ Return(t)
           /\ UNCHANGED <<now, secret, accounts, sessions, last_id, issued, revoked>>

Tick == /\ now < MaxTime
        /\ now' = now + 1
        /\ UNCHANGED <<secret, accounts, sessions, last_id, loc, issued, revoked>>

Next == \/ Tick
        \/ Restart
        \/ \E token \in Tokens : Logout(token)
        \/ \E t \in Threads :
              \/ \E email \in Emails, token \in Tokens : Signup(t, email, token)
              \/ \E email \in Emails : StartLogin(t, email)
              \/ \E token \in Tokens : FinishLogin(t, token) \/ LookUp(t, token)
              \/ Compare(t)
              \/ DeleteExpired(t)
              \/ Handled(t)
              \/ Fail(t)

Spec == Init /\ [][Next]_vars

-----------------------------------------------------------------------------

\* A request is handled for an account only with a token that was issued to
\* that account, by a process with the same secret, and had not expired; and
\* never if it came in after the logout of that token was answered.
GrantsAreDue ==
    \A t \in Threads : At(t, "granted") =>
       LET issue == issued[loc[t].token]
       IN  /\ issue # NoRow
           /\ issue.email = loc[t].email
           /\ issue.key = secret
           /\ loc[t].cutoff < issue.until
           /\ ~loc[t].late

\* Nobody is logged out by others: a session that can still be used disappears
\* by its own logout only, whatever is swept or deleted around it.
LiveSessionsSurvive ==
    [][\A r \in sessions : (r \notin sessions' /\ now < r.expires_at) =>
          r.token_hash.token \in revoked']_vars

\* "Sweeping on login keeps the table bounded by live sessions": after a login,
\* what is in the table was live when the login began.
SweptOnLogin ==
    [][\A t \in Threads : (last_id' # last_id /\ At(t, "create") /\ loc'[t] = Idle) =>
          \A r \in sessions' : r.expires_at > loc[t].cutoff]_vars
=============================================================================
