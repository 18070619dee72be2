------------------------------- MODULE RateLimit -------------------------------
(***************************************************************************)
(* The limits on login and signup attempts (agentic/limits.py): for each    *)
(* address and each email, the times of what counts against it within a     *)
(* sliding window.  A thread lock makes each function of limits.py one      *)
(* step, but a login calls two of them, and the password is verified in     *)
(* between.  Nothing depends on the order of the times of a list but which  *)
(* of them is the oldest, for the Retry-After header: a list is how often   *)
(* each time is in it.                                                      *)
(***************************************************************************)
EXTENDS Naturals, FiniteSets, Functions

CONSTANTS Logins, Ips, Emails,
          LoginWindow, SignupWindow,
          LoginPerIp, FailuresPerEmail, SignupsPerIp, SignupsPerEmail,
          MaxKeys,                  \* _MAX_KEYS
          MaxTime,                  \* bound on the clock
          Nobody

Times == 0..MaxTime

\* A key of _hits: what is counted, and for whom.
IpKeys == {"login:ip", "signup:ip"} \X Ips
EmailKeys == {"login:fail", "signup:email"} \X Emails
Keys == IpKeys \cup EmailKeys

MaxHits == [ k \in Keys |-> CASE k[1] = "login:ip"     -> LoginPerIp
                              [] k[1] = "login:fail"   -> FailuresPerEmail
                              [] k[1] = "signup:ip"    -> SignupsPerIp
                              [] k[1] = "signup:email" -> SignupsPerEmail ]

Window == [ k \in Keys |-> IF k[1] \in {"login:ip", "login:fail"} THEN LoginWindow
                                                                  ELSE SignupWindow ]

ASSUME RateLimitAssumption ==
    /\ {LoginWindow, SignupWindow, LoginPerIp, FailuresPerEmail,
        SignupsPerIp, SignupsPerEmail} \subseteq Nat \ {0}
    /\ MaxKeys \in Nat /\ MaxTime \in Nat
    /\ IsFiniteSet(Logins) /\ Nobody \notin Emails

VARIABLES
    now,        \* the monotonic clock
    hits,       \* _hits; a key with no times is not in the dictionary
    verifying,  \* the email whose password a handler verifies
    counted     \* history: everything that counted, for as long as it should

rateVars == <<now, hits, verifying, counted>>

RateTypeOK == /\ now \in Times
              /\ hits \in [Keys -> [Times -> Nat]]
              /\ verifying \in [Logins -> Emails \cup {Nobody}]
              /\ counted \in [Keys -> [Times -> Nat]]

None == [time \in Times |-> 0]

RateInit == /\ now = 0
            /\ hits = [k \in Keys |-> None]
            /\ verifying = [t \in Logins |-> Nobody]
            /\ counted = hits

-----------------------------------------------------------------------------

\* The times of a list that a window which ends now still holds
Recent(times, window, at) ==
    [time \in Times |-> IF at - time < window THEN times[time] ELSE 0]

\* Fault: a time that has left the window is still counted.
Pruned_Inclusive(table, k, window, at) ==
    [table EXCEPT ![k] = Recent(@, window + 1, at)]

\* _prune
Pruned(table, k, window, at) == [table EXCEPT ![k] = Recent(@, window, at)]

\* _check: prune, and is there room?
HasRoom(table, k) == SumFunction(table[k]) < MaxHits[k]

Present(table) == {k \in Keys : table[k] # None}

Add(times, at) == [times EXCEPT ![at] = @ + 1]

\* Fault: the sweep uses the window of logins for all keys.
Recorded_ShortSweep(table, k, at) ==
    LET kept == IF Cardinality(Present(table)) > MaxKeys
                THEN [j \in Keys |-> Recent(table[j], LoginWindow, at)]
                ELSE table
    IN  [kept EXCEPT ![k] = Add(@, at)]

\* _record: with too many keys in the dictionary, each is pruned first, and the
\* longer window is right for all of them.
Recorded(table, k, at) ==
    LET longest == IF LoginWindow > SignupWindow THEN LoginWindow ELSE SignupWindow
        kept    == IF Cardinality(Present(table)) > MaxKeys
                   THEN [j \in Keys |-> Recent(table[j], longest, at)]
                   ELSE table
    IN  [kept EXCEPT ![k] = Add(@, at)]

Count(ks, at) == counted' = [k \in Keys |-> IF k \in ks THEN Add(counted[k], at) ELSE counted[k]]

\* A function of limits.py reads the clock for each check and each record.
Until(later) == later \in {now, now + 1} \cap Times /\ now' = later

\* check_login: both limits are checked, and the attempt counts against the
\* address unless one of them refuses it.
CheckLogin(t, ip, email, later) ==
    LET fail  == <<"login:fail", email>>
        addr  == <<"login:ip", ip>>
        first == Pruned(hits, fail, Window[fail], now)
        both  == Pruned(first, addr, Window[addr], now)
    IN  /\ verifying[t] = Nobody
        /\ Until(later)
        /\ \/ /\ ~HasRoom(first, fail)
              /\ hits' = first
              /\ UNCHANGED <<verifying, counted>>
           \/ /\ HasRoom(first, fail) /\ ~HasRoom(both, addr)
              /\ hits' = both
              /\ UNCHANGED <<verifying, counted>>
           \/ /\ HasRoom(first, fail) /\ HasRoom(both, addr)
              /\ hits' = Recorded(both, addr, later)
              /\ verifying' = [verifying EXCEPT ![t] = email]
              /\ Count({addr}, later)

\* login_failed: the password was wrong
LoginFailed(t) ==
    LET fail == <<"login:fail", verifying[t]>>
    IN  /\ verifying[t] # Nobody
        /\ hits' = Recorded(hits, fail, now)
        /\ Count({fail}, now)
        /\ verifying' = [verifying EXCEPT ![t] = Nobody]
        /\ UNCHANGED now

\* login_succeeded: the failures of the email are forgotten
LoginSucceeded(t) ==
    LET fail == <<"login:fail", verifying[t]>>
    IN  /\ verifying[t] # Nobody
        /\ hits' = [hits EXCEPT ![fail] = None]
        /\ counted' = [counted EXCEPT ![fail] = None]
        /\ verifying' = [verifying EXCEPT ![t] = Nobody]
        /\ UNCHANGED now

\* The database fails while the password is looked up: nothing is recorded.
LoginAborted(t) == /\ verifying[t] # Nobody
                   /\ verifying' = [verifying EXCEPT ![t] = Nobody]
                   /\ UNCHANGED <<now, hits, counted>>

\* check_signup: whatever becomes of the signup, it counts.
CheckSignup(ip, email, later) ==
    LET addr  == <<"signup:ip", ip>>
        mail  == <<"signup:email", email>>
        first == Pruned(hits, addr, Window[addr], now)
        both  == Pruned(first, mail, Window[mail], now)
    IN  /\ Until(later)
        /\ UNCHANGED verifying
        /\ \/ /\ ~HasRoom(first, addr)
              /\ hits' = first
              /\ UNCHANGED counted
           \/ /\ HasRoom(first, addr) /\ ~HasRoom(both, mail)
              /\ hits' = both
              /\ UNCHANGED counted
           \/ /\ HasRoom(first, addr) /\ HasRoom(both, mail)
              /\ hits' = Recorded(Recorded(both, addr, later), mail, later)
              /\ Count({addr, mail}, later)

\* Everything is forgotten, as the module says.
Restart == /\ hits' = [k \in Keys |-> None]
           /\ counted' = hits'
           /\ verifying' = [t \in Logins |-> Nobody]
           /\ UNCHANGED now

Tick == /\ now < MaxTime
        /\ now' = now + 1
        /\ UNCHANGED <<hits, verifying, counted>>

RateNext == \/ Tick
            \/ Restart
            \/ \E ip \in Ips, email \in Emails, later \in Times :
                  \/ CheckSignup(ip, email, later)
                  \/ \E t \in Logins : CheckLogin(t, ip, email, later)
            \/ \E t \in Logins : LoginFailed(t) \/ LoginSucceeded(t) \/ LoginAborted(t)

RateSpec == RateInit /\ [][RateNext]_rateVars

-----------------------------------------------------------------------------

InWindow(k) == SumFunction(Recent(counted[k], Window[k], now))

\* "a sliding window": what a check would count at any moment is what was let
\* through in the window that ends then.  So a refusal is always due, retries
\* that are refused do not prolong it, and no sweep forgets too early.
CountsAreExact ==
    \A k \in Keys : Pruned(hits, k, Window[k], now)[k] = Recent(counted[k], Window[k], now)

\* However requests interleave, no window holds more logins or signups of an
\* address, or signups of an email, than its limit.  Failures are recorded after
\* the password was verified: requests that were under way together can exceed
\* the limit of "wrong passwords for one email", by one less than their number.
LimitsHold ==
    /\ \A k \in IpKeys \cup ({"signup:email"} \X Emails) : InWindow(k) <= MaxHits[k]
    /\ \A k \in {"login:fail"} \X Emails : InWindow(k) < MaxHits[k] + Cardinality(Logins)
=============================================================================
