------------------------------- MODULE ChatTurn -------------------------------
(***************************************************************************)
(* The assistant turns of one account: the daily cap of agentic/store.py    *)
(* (reserve_chat_turn, refund_chat_turn) and the calls of chat.chat that    *)
(* spend a turn, with the one retry and the refunds.  What chat.chat does   *)
(* to proposals is in Proposals.                                            *)
(*                                                                          *)
(* The INSERT and the UPDATE of reserve_chat_turn are one transaction, but  *)
(* each asks the clock for the day, so midnight can fall between the two.   *)
(* The INSERT takes SQLite's only write lock; the end of the transaction    *)
(* frees it.  The provider is an external service: it answers anything, or  *)
(* not at all.                                                              *)
(***************************************************************************)
EXTENDS Integers, FiniteSets, Functions

CONSTANTS
    Threads,        \* chat requests of the account that run at the same time
    Limit,          \* chat_daily_limit()
    MaxDay,         \* bound: the days the model lives through
    MaxRejected,    \* bound: refused operations in one answer
    Unreadable,     \* an answer that is not the JSON that was asked for
    NoAnswer, NoRow, NoThread

Days == 1..MaxDay

\* What apply_each makes of an answer: is any operation left, and how many were
\* refused.
Readable == [applied : BOOLEAN, rejected : 0..MaxRejected]
Answers == Readable \cup {Unreadable}

ASSUME TurnAssumption ==
    /\ IsFiniteSet(Threads)
    /\ Limit \in Nat \ {0} /\ MaxDay \in Nat \ {0} /\ MaxRejected \in Nat
    /\ NoAnswer \notin Answers /\ Unreadable \notin Readable
    /\ NoRow \notin Nat /\ NoThread \notin Threads

VARIABLES
    today,
    chat_usage,     \* the turns column of the account's row of each day
    writer,         \* who holds the write lock
    loc,            \* the local variables of each request
    given           \* history: turns counted on each day and not given back

vars == <<today, chat_usage, writer, loc, given>>

Local == [ pc       : {"idle", "reserve", "count", "refused", "ask", "retry", "refund", "save"},
           day      : 0..MaxDay,       \* the day of the INSERT, then of the turn
           inserted : BOOLEAN,         \* did this transaction insert the row
           first    : Answers \cup {NoAnswer},
           second   : Answers \cup {NoAnswer},
           outcome  : Readable \cup {NoAnswer} ]

TypeOK == /\ today \in Days
          /\ chat_usage \in [Days -> Nat \cup {NoRow}]
          /\ writer \in Threads \cup {NoThread}
          /\ loc \in [Threads -> Local]
          /\ given \in [Days -> Nat]

Idle == [ pc |-> "idle", day |-> 0, inserted |-> FALSE,
          first |-> NoAnswer, second |-> NoAnswer, outcome |-> NoAnswer ]

Init == /\ today = 1
        /\ chat_usage = [d \in Days |-> NoRow]
        /\ writer = NoThread
        /\ loc = [t \in Threads |-> Idle]
        /\ given = [d \in Days |-> 0]

At(t, pc) == loc[t].pc = pc
GoTo(t, pc) == loc' = [loc EXCEPT ![t].pc = pc]
Return(t) == loc' = [loc EXCEPT ![t] = Idle]

\* chat_turns_today, for any day
TurnsOn(d) == IF chat_usage[d] = NoRow THEN 0 ELSE chat_usage[d]

-----------------------------------------------------------------------------
(* The clock and the reservation.                                           *)

Midnight == /\ today < MaxDay
            /\ today' = today + 1
            /\ UNCHANGED <<chat_usage, writer, loc, given>>

StartTurn(t) == /\ loc[t] = Idle
                /\ GoTo(t, "reserve")
                /\ UNCHANGED <<today, chat_usage, writer, given>>

\* INSERT OR IGNORE: takes the write lock, and the clock's first answer
InsertUsage(t) ==
    /\ At(t, "reserve")
    /\ writer = NoThread
    /\ writer' = t
    /\ chat_usage' = [chat_usage EXCEPT ![today] = TurnsOn(today)]
    /\ loc' = [loc EXCEPT ![t].pc = "count", ![t].day = today,
                          ![t].inserted = (chat_usage[today] = NoRow)]
    /\ UNCHANGED <<today, given>>

\* Fault: the UPDATE lost its "turns < limit".
HasTurnLeft_Unlimited == chat_usage[today] # NoRow

\* WHERE account_id = ? AND day = today AND turns < limit
HasTurnLeft == chat_usage[today] # NoRow /\ chat_usage[today] < Limit

CountTurn(t) ==
    /\ At(t, "count") /\ HasTurnLeft
    /\ chat_usage' = [chat_usage EXCEPT ![today] = @ + 1]
    /\ given' = [given EXCEPT ![today] = @ + 1]
    /\ loc' = [loc EXCEPT ![t].pc = "ask", ![t].day = today, ![t].inserted = FALSE]
    /\ writer' = NoThread
    /\ UNCHANGED today

\* Fault: the turn is counted first, and compared afterwards.
RefuseTurn_Counted(t) ==
    /\ At(t, "count") /\ ~HasTurnLeft
    /\ GoTo(t, "refused")
    /\ writer' = NoThread
    /\ chat_usage' = [chat_usage EXCEPT ![today] = TurnsOn(today) + 1]
    /\ UNCHANGED <<today, given>>

\* rowcount = 0, which chat.chat answers with a 429.
RefuseTurn(t) == /\ At(t, "count") /\ ~HasTurnLeft
                 /\ GoTo(t, "refused")
                 /\ writer' = NoThread
                 /\ UNCHANGED <<today, chat_usage, given>>

-----------------------------------------------------------------------------
(* The calls to the provider.                                               *)

NeedsRetry(answer) == answer = Unreadable \/ answer.rejected > 0

Answer(t) ==
    /\ At(t, "ask")
    /\ \E a \in Answers :
          loc' = [loc EXCEPT ![t].first = a,
                             ![t].pc = IF NeedsRetry(a) THEN "retry" ELSE "save",
                             ![t].outcome = IF NeedsRetry(a) THEN NoAnswer ELSE a]
    /\ UNCHANGED <<today, chat_usage, writer, given>>

\* Fault: the retry is kept whenever it can be read.
Better_Latest(first, second) == IF second = Unreadable THEN first ELSE second

\* The answer with fewer refusals; a tie goes to the retry.  Unreadable if both are.
Better(first, second) ==
    IF /\ second # Unreadable
       /\ first = Unreadable \/ second.rejected <= first.rejected
    THEN second ELSE first

AnswerAgain(t) ==
    /\ At(t, "retry")
    /\ \E a \in Answers :
          LET kept == Better(loc[t].first, a)
          IN  IF kept = Unreadable
              THEN Return(t)           \* 502: both answers were unreadable
              ELSE loc' = [loc EXCEPT ![t].second = a, ![t].outcome = kept,
                                      ![t].pc = "save"]
    /\ UNCHANGED <<today, chat_usage, writer, given>>

\* The provider did not answer the first call, or the retry.
Outage(t) == /\ At(t, "ask") \/ At(t, "retry")
             /\ GoTo(t, "refund")
             /\ UNCHANGED <<today, chat_usage, writer, given>>

\* Fault: a refund for each call.
RefundOn_EachCall(t, day) ==
    LET calls == IF loc[t].first = NoAnswer THEN 1 ELSE 2
    IN  [chat_usage EXCEPT ![day] =
           IF @ = NoRow THEN NoRow ELSE IF @ > calls THEN @ - calls ELSE 0]

\* UPDATE ... SET turns = MAX(turns - 1, 0), of a row that may not be there
RefundOn(t, day) ==
    [chat_usage EXCEPT ![day] = IF @ = NoRow THEN NoRow ELSE IF @ > 1 THEN @ - 1 ELSE 0]

\* The day is the day of the refund, whichever day the turn was counted on.
Refund(t) == /\ At(t, "refund")
             /\ writer = NoThread
             /\ chat_usage' = RefundOn(t, today)
             /\ given' = [given EXCEPT ![loc[t].day] = @ - 1]
             /\ Return(t)
             /\ UNCHANGED <<today, writer>>

\* The proposal is stored (see Proposals), or the 429 goes out.
Finish(t) == /\ At(t, "save") \/ At(t, "refused")
             /\ Return(t)
             /\ UNCHANGED <<today, chat_usage, writer, given>>

\* The process dies, or the database stays locked for too long.  A transaction
\* that is open is rolled back; a turn that is counted stays counted.
Fail(t) == /\ loc[t] # Idle
           /\ Return(t)
           /\ chat_usage' = IF At(t, "count") /\ loc[t].inserted
                            THEN [chat_usage EXCEPT ![loc[t].day] = NoRow] ELSE chat_usage
           /\ writer' = IF writer = t THEN NoThread ELSE writer
           /\ UNCHANGED <<today, given>>

Next == \/ Midnight
        \/ \E t \in Threads : \/ StartTurn(t)
                              \/ InsertUsage(t)
                              \/ CountTurn(t)
                              \/ RefuseTurn(t)
                              \/ Answer(t)
                              \/ AnswerAgain(t)
                              \/ Outage(t)
                              \/ Refund(t)
                              \/ Finish(t)
                              \/ Fail(t)

Spec == Init /\ [][Next]_vars

-----------------------------------------------------------------------------

\* Until a midnight passes, however requests, retries, refunds and crashes
\* interleave, the account is charged for exactly the turns it was given, and
\* for no more of them than the limit.
ExactUntilMidnight == today = 1 => TurnsOn(1) = given[1] /\ given[1] <= Limit

\* Refunds after midnight go to the wrong day, yet over all days no more turns
\* are given than are charged.
TotalIsCharged == SumFunction(given) <= SumFunction([d \in Days |-> TurnsOn(d)])

\* "You have used all of your assistant messages for today": a message is refused
\* only on a day that has given as many as the limit allows, or if midnight fell
\* between the two statements of its reservation.  So what was given back can be
\* spent again, and what was refused, or rolled back, costs nothing.
RefusalsAreDue ==
    [][\A t \in Threads : (At(t, "count") /\ At(t, "refused")') =>
          given[today] >= Limit \/ loc[t].day # today]_vars

\* Of two readable answers the one with fewer refusals becomes the proposal, and
\* an unreadable one never does.
BestAnswerIsKept ==
    \A t \in Threads : At(t, "save") =>
       /\ loc[t].outcome \in {loc[t].first, loc[t].second} \ {Unreadable, NoAnswer}
       /\ \A a \in {loc[t].first, loc[t].second} \ {Unreadable, NoAnswer} :
             loc[t].outcome.rejected <= a.rejected

\* "assistant messages per account per UTC day": no day gives more than the limit.
NoDayOverLimit == \A d \in Days : given[d] <= Limit
=============================================================================
