------------------------------- MODULE MCLimits -------------------------------
(* A small instance of what an account is allowed: its turns (ChatTurn), and    *)
(* the attempts to log in and sign up before it (RateLimit).  The two share no  *)
(* state, so each is followed while the other is where it starts.               *)
EXTENDS ChatTurn, RateLimit, TLC

LimitsInit == Init /\ RateInit

LimitsNext == \/ RateInit /\ Next /\ UNCHANGED rateVars
              \/ Init /\ RateNext /\ UNCHANGED vars

LimitsSpec == LimitsInit /\ [][LimitsNext]_<<vars, rateVars>>

Symmetry == UNION {Permutations(S) : S \in {Threads, Logins, Ips, Emails}}
=============================================================================
