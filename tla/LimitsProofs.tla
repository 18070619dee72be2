----------------------------- MODULE LimitsProofs -----------------------------
(***************************************************************************)
(* Proofs about the two things that are counted and limited: the assistant  *)
(* turns of an account (ChatTurn) and the attempts to log in and to sign up *)
(* (RateLimit), for any number of requests, any limits and any bound on the *)
(* days and the clock.                                                      *)
(*                                                                          *)
(* ChatTurn.  A day has been given at least as many turns as there are      *)
(* requests that hold one of them (ChargesHold), so a refund on the first   *)
(* day never meets a row at zero, and over all days a refund takes no more  *)
(* off the charge than off what was given.                                  *)
(*                                                                          *)
(* RateLimit.  The table and the history of what counted agree on every     *)
(* time that is still in the window of its key (Matches), whatever was      *)
(* pruned or swept: then what a check counts is what was let through.       *)
(***************************************************************************)
EXTENDS ChatTurn, RateLimit, FiniteSetTheorems, WellFoundedInduction, TLAPS

-----------------------------------------------------------------------------
(* The sum of a function over a finite set, as the community modules define *)
(* it: what it is of nothing, that it is a natural number, that it grows    *)
(* with the function, and what one changed value changes.                   *)

\* The recursive function that SumFunctionOnSet is defined by: Pick names the
\* element that is added last.
Pick(T) == CHOOSE x \in T : TRUE
IsSum(g, f, S) == g = [T \in SUBSET S |-> IF T = {} THEN 0 ELSE f[Pick(T)] + g[T \ {Pick(T)}]]
SumTable(f, S) == CHOOSE g : IsSum(g, f, S)

LEMMA SumByChoice ==
    ASSUME NEW f, NEW S
    PROVE  SumFunctionOnSet(f, S) = SumTable(f, S)[S]
BY DEF SumFunctionOnSet, FoldFunctionOnSet, MapThenFoldSet, SumTable, IsSum, Pick

\* Induction over the subsets of a finite set: some counterexample is minimal.
LEMMA MinimalSubset ==
    ASSUME NEW S, IsFiniteSet(S), NEW Bad \in SUBSET (SUBSET S), Bad # {}
    PROVE  \E T \in Bad : \A U \in SUBSET T : U # T => U \notin Bad
<1>1. IsWellFoundedOn(StrictSubsetOrdering(S), SUBSET S)
  BY FS_StrictSubsetOrderingWellFounded, FS_FiniteSubsetsOfFinite
<1>2. PICK T \in Bad : \A U \in Bad : ~ (<<U, T>> \in StrictSubsetOrdering(S))
  BY <1>1, WFMin
<1> QED
  BY <1>2 DEF StrictSubsetOrdering

LEMMA PickedElement ==
    ASSUME NEW T, T # {}
    PROVE  Pick(T) \in T /\ T \ {Pick(T)} \in SUBSET T /\ T \ {Pick(T)} # T
BY DEF Pick

\* Two tables agree on what both are about.
LEMMA TablesAgree ==
    ASSUME NEW S, IsFiniteSet(S), NEW f, NEW T \in SUBSET S, NEW U \in SUBSET S,
           NEW g, NEW h, IsSum(g, f, T), IsSum(h, f, U)
    PROVE  \A W \in SUBSET T : W \in SUBSET U => g[W] = h[W]
<1> DEFINE Bad == {W \in SUBSET S : W \in SUBSET T /\ W \in SUBSET U /\ g[W] # h[W]}
<1> SUFFICES ASSUME Bad # {} PROVE FALSE
  OBVIOUS
<1>1. PICK W \in Bad : \A V \in SUBSET W : V # W => V \notin Bad
  <2>1. Bad \in SUBSET (SUBSET S) /\ Bad # {}
    OBVIOUS
  <2> HIDE DEF Bad
  <2> QED
    BY <2>1, MinimalSubset
<1> DEFINE rest == W \ {Pick(W)}
<1>2. /\ g[W] = IF W = {} THEN 0 ELSE f[Pick(W)] + g[rest]
      /\ h[W] = IF W = {} THEN 0 ELSE f[Pick(W)] + h[rest]
  BY DEF IsSum
<1>3. CASE W = {}
  BY <1>2, <1>3
<1>4. CASE W # {}
  <2>1. rest \in SUBSET W /\ rest # W
    BY <1>4, PickedElement
  <2>2. g[rest] = h[rest]
    BY <1>1, <2>1
  <2> QED
    BY <1>2, <1>4, <2>2
<1> QED
  BY <1>3, <1>4

\* There is a table of the sums of every finite set.
LEMMA TableExists ==
    ASSUME NEW S, IsFiniteSet(S), NEW f, NEW T \in SUBSET S
    PROVE  IsSum(SumTable(f, T), f, T)
<1> DEFINE Bad == {W \in SUBSET S : ~ \E g : IsSum(g, f, W)}
<1> SUFFICES Bad = {}
  BY DEF SumTable
<1> SUFFICES ASSUME Bad # {} PROVE FALSE
  OBVIOUS
<1>1. PICK W \in Bad : \A V \in SUBSET W : V # W => V \notin Bad
  <2>1. Bad \in SUBSET (SUBSET S) /\ Bad # {}
    OBVIOUS
  <2> HIDE DEF Bad
  <2> QED
    BY <2>1, MinimalSubset
<1> DEFINE val(V) == SumTable(f, V)[V]
           table == [V \in SUBSET W |-> IF V = {} THEN 0 ELSE f[Pick(V)] + val(V \ {Pick(V)})]
<1>2. ASSUME NEW V \in SUBSET W, V # W
      PROVE  table[V] = val(V)
  <2>1. IsSum(SumTable(f, V), f, V)
    <3>1. \E g : IsSum(g, f, V)
      BY <1>1, <1>2
    <3> QED
      BY <3>1 DEF SumTable
  <2>2. CASE V = {}
    BY <2>1, <2>2 DEF IsSum
  <2>3. CASE V # {}
    <3> DEFINE rest == V \ {Pick(V)}
    <3>1. rest \in SUBSET V /\ rest # W
      BY <2>3, PickedElement, <1>2
    <3>2. IsSum(SumTable(f, rest), f, rest)
      <4>1. \E g : IsSum(g, f, rest)
        BY <1>1, <3>1
      <4> QED
        BY <4>1 DEF SumTable
    <3>3. SumTable(f, V)[rest] = val(rest)
      BY <2>1, <3>1, <3>2, TablesAgree
    <3>4. SumTable(f, V)[V] = f[Pick(V)] + SumTable(f, V)[rest]
      BY <2>1, <2>3 DEF IsSum
    <3> QED
      BY <2>3, <3>3, <3>4
  <2> QED
    BY <2>2, <2>3
<1>3. IsSum(table, f, W)
  <2>1. \A V \in SUBSET W : V # {} => V \ {Pick(V)} \in SUBSET W /\ V \ {Pick(V)} # W
    BY PickedElement
  <2>2. \A V \in SUBSET W : V # {} => table[V \ {Pick(V)}] = val(V \ {Pick(V)})
    BY <1>2, <2>1
  <2>3. table = [V \in SUBSET W |-> IF V = {} THEN 0 ELSE f[Pick(V)] + table[V \ {Pick(V)}]]
    <3> HIDE DEF val
    <3> QED
    BY <2>2
  <2> QED
    BY <2>3 DEF IsSum
<1> QED
  BY <1>3

\* The equation of SumFunctionOnSet.
LEMMA SumUnfolds ==
    ASSUME NEW T, IsFiniteSet(T), NEW f
    PROVE  SumFunctionOnSet(f, T) =
              IF T = {} THEN 0 ELSE f[Pick(T)] + SumFunctionOnSet(f, T \ {Pick(T)})
<1>1. IsSum(SumTable(f, T), f, T)
  BY TableExists
<1>2. CASE T = {}
  BY <1>1, <1>2, SumByChoice DEF IsSum
<1>3. CASE T # {}
  <2> DEFINE rest == T \ {Pick(T)}
  <2>1. rest \in SUBSET T /\ rest # T
    BY <1>3, PickedElement
  <2>2. SumTable(f, T)[rest] = SumTable(f, rest)[rest]
    <3>1. IsSum(SumTable(f, rest), f, rest)
      BY <2>1, TableExists
    <3> QED
      BY <1>1, <2>1, <3>1, TablesAgree
  <2>3. SumTable(f, T)[T] = f[Pick(T)] + SumTable(f, T)[rest]
    BY <1>1, <1>3 DEF IsSum
  <2> QED
    BY <1>3, <2>2, <2>3, SumByChoice
<1> QED
  BY <1>2, <1>3

LEMMA SumOfNone == ASSUME NEW f PROVE SumFunctionOnSet(f, {}) = 0
BY SumUnfolds, FS_EmptySet

LEMMA SumIsNat ==
    ASSUME NEW S, IsFiniteSet(S), NEW f, \A x \in S : f[x] \in Nat
    PROVE  SumFunctionOnSet(f, S) \in Nat
<1> DEFINE Bad == {T \in SUBSET S : SumFunctionOnSet(f, T) \notin Nat}
<1> SUFFICES ASSUME Bad # {} PROVE FALSE
  OBVIOUS
<1>1. PICK T \in Bad : \A U \in SUBSET T : U # T => U \notin Bad
  <2>1. Bad \in SUBSET (SUBSET S) /\ Bad # {}
    OBVIOUS
  <2> HIDE DEF Bad
  <2> QED
    BY <2>1, MinimalSubset
<1>2. IsFiniteSet(T)
  BY FS_Subset
<1>3. T # {}
  BY SumOfNone
<1> DEFINE rest == T \ {Pick(T)}
<1>4. rest \in SUBSET T /\ rest # T /\ Pick(T) \in T
  BY <1>3, PickedElement
<1>5. SumFunctionOnSet(f, rest) \in Nat /\ f[Pick(T)] \in Nat
  BY <1>1, <1>4
<1>6. SumFunctionOnSet(f, T) = f[Pick(T)] + SumFunctionOnSet(f, rest)
  BY <1>2, <1>3, SumUnfolds
<1> QED
  BY <1>5, <1>6

LEMMA SumOfZeros ==
    ASSUME NEW S, IsFiniteSet(S), NEW f, \A x \in S : f[x] = 0
    PROVE  SumFunctionOnSet(f, S) = 0
<1> DEFINE Bad == {T \in SUBSET S : SumFunctionOnSet(f, T) # 0}
<1> SUFFICES ASSUME Bad # {} PROVE FALSE
  OBVIOUS
<1>1. PICK T \in Bad : \A U \in SUBSET T : U # T => U \notin Bad
  <2>1. Bad \in SUBSET (SUBSET S) /\ Bad # {}
    OBVIOUS
  <2> HIDE DEF Bad
  <2> QED
    BY <2>1, MinimalSubset
<1>2. T # {} /\ IsFiniteSet(T)
  BY SumOfNone, FS_Subset
<1> DEFINE rest == T \ {Pick(T)}
<1>3. rest \in SUBSET T /\ rest # T /\ Pick(T) \in T
  BY <1>2, PickedElement
<1>4. SumFunctionOnSet(f, rest) = 0 /\ f[Pick(T)] = 0
  BY <1>1, <1>3
<1>5. SumFunctionOnSet(f, T) = f[Pick(T)] + SumFunctionOnSet(f, rest)
  BY <1>2, SumUnfolds
<1> QED
  BY <1>4, <1>5

\* More of each makes more in all.
LEMMA SumIsMonotone ==
    ASSUME NEW S, IsFiniteSet(S), NEW f, NEW g,
           \A x \in S : f[x] \in Nat /\ g[x] \in Nat /\ f[x] <= g[x]
    PROVE  SumFunctionOnSet(f, S) <= SumFunctionOnSet(g, S)
<1> DEFINE Bad == {T \in SUBSET S : ~ (SumFunctionOnSet(f, T) <= SumFunctionOnSet(g, T))}
<1> SUFFICES ASSUME Bad # {} PROVE FALSE
  OBVIOUS
<1>1. PICK T \in Bad : \A U \in SUBSET T : U # T => U \notin Bad
  <2>1. Bad \in SUBSET (SUBSET S) /\ Bad # {}
    OBVIOUS
  <2> HIDE DEF Bad
  <2> QED
    BY <2>1, MinimalSubset
<1>2. IsFiniteSet(T)
  BY FS_Subset
<1>3. T # {}
  BY SumOfNone
<1> DEFINE rest == T \ {Pick(T)}
<1>4. rest \in SUBSET T /\ rest # T /\ Pick(T) \in T
  BY <1>3, PickedElement
<1>5. SumFunctionOnSet(f, rest) <= SumFunctionOnSet(g, rest)
  BY <1>1, <1>4
<1>6. SumFunctionOnSet(f, rest) \in Nat /\ SumFunctionOnSet(g, rest) \in Nat
  <2>1. IsFiniteSet(rest)
    BY <1>4, FS_Subset
  <2> QED
    BY <1>4, <2>1, SumIsNat
<1>7. /\ SumFunctionOnSet(f, T) = f[Pick(T)] + SumFunctionOnSet(f, rest)
      /\ SumFunctionOnSet(g, T) = g[Pick(T)] + SumFunctionOnSet(g, rest)
  BY <1>2, <1>3, SumUnfolds
<1> QED
  BY <1>4, <1>5, <1>6, <1>7

\* What changes at one place changes the sum by as much.
LEMMA SumChanges ==
    ASSUME NEW S, IsFiniteSet(S), NEW f, NEW g, NEW d \in S,
           \A x \in S : f[x] \in Nat /\ g[x] \in Nat,
           \A x \in S : x # d => g[x] = f[x]
    PROVE  SumFunctionOnSet(g, S) = SumFunctionOnSet(f, S) + g[d] - f[d]
<1> DEFINE Change(T) == IF d \in T THEN g[d] - f[d] ELSE 0
           Bad == {T \in SUBSET S : SumFunctionOnSet(g, T) # SumFunctionOnSet(f, T) + Change(T)}
<1> SUFFICES ASSUME Bad # {} PROVE FALSE
  <2>1. S \notin Bad
    OBVIOUS
  <2>2. SumFunctionOnSet(f, S) \in Nat
    BY SumIsNat
  <2> QED
    BY <2>1, <2>2
<1>1. PICK T \in Bad : \A U \in SUBSET T : U # T => U \notin Bad
  <2>1. Bad \in SUBSET (SUBSET S) /\ Bad # {}
    OBVIOUS
  <2> HIDE DEF Bad
  <2> QED
    BY <2>1, MinimalSubset
<1>2. IsFiniteSet(T)
  BY FS_Subset
<1>3. T # {}
  <2>1. SumFunctionOnSet(g, {}) = SumFunctionOnSet(f, {}) + Change({})
    BY SumOfNone
  <2> QED
    BY <2>1
<1> DEFINE rest == T \ {Pick(T)}
<1>4. rest \in SUBSET T /\ rest # T /\ Pick(T) \in T
  BY <1>3, PickedElement
<1>5. SumFunctionOnSet(g, rest) = SumFunctionOnSet(f, rest) + Change(rest)
  BY <1>1, <1>4
<1>6. SumFunctionOnSet(f, rest) \in Nat /\ SumFunctionOnSet(g, rest) \in Nat
  <2>1. IsFiniteSet(rest)
    BY <1>4, FS_Subset
  <2> QED
    BY <1>4, <2>1, SumIsNat
<1>7. /\ SumFunctionOnSet(f, T) = f[Pick(T)] + SumFunctionOnSet(f, rest)
      /\ SumFunctionOnSet(g, T) = g[Pick(T)] + SumFunctionOnSet(g, rest)
  BY <1>2, <1>3, SumUnfolds
<1>8. Pick(T) \in S
  BY <1>4
<1>9. CASE Pick(T) = d
  BY <1>4, <1>5, <1>6, <1>7, <1>8, <1>9
<1>10. CASE Pick(T) # d
  BY <1>4, <1>5, <1>6, <1>7, <1>8, <1>10
<1> QED
  BY <1>9, <1>10

-----------------------------------------------------------------------------
(* The turns of an account (ChatTurn).                                      *)

\* The requests that hold a turn of day d, which a refund would give back
Spending == {"ask", "retry", "refund", "save"}
Charged(d) == {t \in Threads : loc[t].pc \in Spending /\ loc[t].day = d}

\* A request inside its transaction is the writer, and has found or made a row.
TransactionHolds(t) ==
    /\ writer = t <=> loc[t].pc = "count"
    /\ loc[t].pc = "count" => /\ loc[t].day \in Days /\ loc[t].day <= today
                              /\ chat_usage[loc[t].day] # NoRow
                              /\ loc[t].inserted => chat_usage[loc[t].day] = 0
    /\ loc[t].pc \in Spending => loc[t].day \in Days /\ loc[t].day <= today

\* What a request has heard from the provider.
AnswersHold(t) ==
    /\ loc[t].pc \notin {"retry", "refund", "save"} =>
          loc[t].first = NoAnswer /\ loc[t].second = NoAnswer
    /\ loc[t].pc = "retry" => loc[t].first \in Answers /\ loc[t].second = NoAnswer
    /\ loc[t].pc = "save" =>
          /\ loc[t].outcome \in {loc[t].first, loc[t].second} \ {Unreadable, NoAnswer}
          /\ \A a \in {loc[t].first, loc[t].second} \ {Unreadable, NoAnswer} :
                loc[t].outcome.rejected <= a.rejected

ChargesHold == \A d \in Days : Cardinality(Charged(d)) <= given[d]

DaysHold == /\ TurnsOn(today) <= given[today]
            /\ today = 1 => TurnsOn(1) = given[1] /\ given[1] <= Limit
            /\ \A d \in Days : d > today => chat_usage[d] = NoRow

Inv == /\ TypeOK /\ ChargesHold /\ DaysHold
       /\ \A t \in Threads : TransactionHolds(t) /\ AnswersHold(t)
-----------------------------------------------------------------------------

LEMMA DaysAreNaturals == Days \subseteq Nat \ {0} /\ 1 \in Days
BY TurnAssumption DEF Days

LEMMA ChargedIsFinite ==
    \A d \in Days : IsFiniteSet(Charged(d)) /\ Cardinality(Charged(d)) \in Nat
<1> TAKE d \in Days
<1>1. Charged(d) \in SUBSET Threads /\ IsFiniteSet(Threads)
  BY TurnAssumption DEF Charged
<1> QED
  BY <1>1, FS_Subset, FS_CardinalityType

LEMMA ChargedIsFiniteNext ==
    \A d \in Days : IsFiniteSet(Charged(d)') /\ Cardinality(Charged(d)') \in Nat
<1> TAKE d \in Days
<1>1. Charged(d)' \in SUBSET Threads /\ IsFiniteSet(Threads)
  BY TurnAssumption DEF Charged
<1> QED
  BY <1>1, FS_Subset, FS_CardinalityType

\* A step after which no request holds a turn it did not hold before, and that gives
\* none back.
LEMMA NoNewCharge ==
    ASSUME Inv, given' = given, \A d \in Days : Charged(d)' \subseteq Charged(d)
    PROVE  ChargesHold'
<1> SUFFICES ASSUME NEW d \in Days PROVE Cardinality(Charged(d)') <= given[d]
  BY DEF ChargesHold
<1>1. Cardinality(Charged(d)') <= Cardinality(Charged(d))
  BY ChargedIsFinite, FS_Subset
<1>2. Cardinality(Charged(d)) <= given[d] /\ given[d] \in Nat
  BY DEF Inv, ChargesHold, TypeOK
<1> QED
  BY <1>1, <1>2, ChargedIsFinite, ChargedIsFiniteNext

\* A thread that holds a turn of a day shows that the day was given one.
LEMMA ChargedWasGiven ==
    ASSUME Inv, NEW t \in Threads, loc[t].pc \in Spending
    PROVE  loc[t].day \in Days /\ given[loc[t].day] >= 1
<1>1. loc[t].day \in Days
  BY DEF Inv, TransactionHolds
<1>2. t \in Charged(loc[t].day)
  BY DEF Charged
<1>3. Cardinality(Charged(loc[t].day)) # 0
  BY <1>1, <1>2, ChargedIsFinite, FS_EmptySet
<1>4. Cardinality(Charged(loc[t].day)) <= given[loc[t].day] /\ given[loc[t].day] \in Nat
  BY <1>1 DEF Inv, ChargesHold, TypeOK
<1> QED
  BY <1>1, <1>3, <1>4, ChargedIsFinite
-----------------------------------------------------------------------------

LEMMA IdleIsLocal == Idle \in Local
<1>1. FALSE \in BOOLEAN /\ 0 \in 0..MaxDay
  BY TurnAssumption
<1> QED
  BY <1>1 DEF Idle, Local

LEMMA InitHolds == Init => Inv
<1> SUFFICES ASSUME Init PROVE Inv
  OBVIOUS
<1>2. TypeOK
  BY IdleIsLocal, DaysAreNaturals DEF Init, TypeOK
<1>3. \A d \in Days : Charged(d) = {}
  BY DEF Init, Charged, Idle, Spending
<1>4. ChargesHold
  BY <1>3, FS_EmptySet DEF ChargesHold, Init
<1>5. DaysHold
  BY DaysAreNaturals, TurnAssumption DEF DaysHold, Init, TurnsOn
<1>6. \A t \in Threads : TransactionHolds(t) /\ AnswersHold(t)
  BY TurnAssumption DEF Init, Idle, TransactionHolds, AnswersHold, Spending
<1> QED
  BY <1>2, <1>4, <1>5, <1>6 DEF Inv

LEMMA MidnightHolds == ASSUME Inv, Midnight PROVE Inv'
<1>1. TypeOK'
  BY TurnAssumption DEF Inv, TypeOK, Midnight, Days
<1>2. \A d \in Days : Charged(d)' = Charged(d)
  BY DEF Midnight, Charged
<1>3. ChargesHold'
  BY <1>2, NoNewCharge DEF Midnight
<1>4. DaysHold'
  BY TurnAssumption DEF Inv, TypeOK, Midnight, Days, DaysHold, TurnsOn
<1>5. \A t \in Threads : (TransactionHolds(t) /\ AnswersHold(t))'
  BY TurnAssumption DEF Inv, TypeOK, Midnight, Days, TransactionHolds, AnswersHold
<1> QED
  BY <1>1, <1>3, <1>4, <1>5 DEF Inv

\* A request that only moves on: it neither reads nor writes the table.
LEMMA MoveHolds ==
    ASSUME Inv, NEW t \in Threads, NEW new \in Local,
           loc' = [loc EXCEPT ![t] = new],
           UNCHANGED <<today, chat_usage, writer, given>>,
           loc[t].pc # "count" /\ new.pc # "count",
           new.pc \in Spending => loc[t].pc \in Spending /\ new.day = loc[t].day,
           \* what AnswersHold says of the new state
           AnswersHold(t)'
    PROVE  Inv'
<1>1. TypeOK'
  BY DEF Inv, TypeOK
<1>2. \A d \in Days : Charged(d)' \subseteq Charged(d)
  BY DEF Inv, TypeOK, Charged
<1>3. ChargesHold'
  BY <1>2, NoNewCharge
<1>4. DaysHold'
  BY DEF Inv, DaysHold, TurnsOn
<1>5. ASSUME NEW u \in Threads PROVE TransactionHolds(u)' /\ AnswersHold(u)'
  <2>1. TransactionHolds(u)'
    BY DEF Inv, TypeOK, TransactionHolds
  <2>2. AnswersHold(u)'
    <3>1. CASE u = t
      BY <3>1
    <3>2. CASE u # t
      BY <3>2 DEF Inv, TypeOK, AnswersHold
    <3> QED
      BY <3>1, <3>2
  <2> QED
    BY <2>1, <2>2
<1> QED
  BY <1>1, <1>3, <1>4, <1>5 DEF Inv

LEMMA StartHolds == ASSUME Inv, NEW t \in Threads, StartTurn(t) PROVE Inv'
<1> DEFINE new == [loc[t] EXCEPT !.pc = "reserve"]
<1>1. new \in Local /\ loc' = [loc EXCEPT ![t] = new] /\ loc[t] = Idle
  BY DEF Inv, TypeOK, StartTurn, GoTo, Local
<1>2. new.pc = "reserve" /\ loc[t].pc = "idle"
  BY <1>1 DEF Idle, Local
<1>3. AnswersHold(t)'
  BY <1>1 DEF Inv, TypeOK, AnswersHold, Idle, Local
<1> HIDE DEF new
<1> QED
  BY <1>1, <1>2, <1>3, MoveHolds DEF StartTurn, Spending

LEMMA AnswerHolds == ASSUME Inv, NEW t \in Threads, Answer(t) PROVE Inv'
<1>1. PICK a \in Answers :
         loc' = [loc EXCEPT ![t].first = a,
                            ![t].pc = IF NeedsRetry(a) THEN "retry" ELSE "save",
                            ![t].outcome = IF NeedsRetry(a) THEN NoAnswer ELSE a]
  BY DEF Answer
<1>2. loc[t] \in Local /\ loc[t].pc = "ask" /\ loc[t].second = NoAnswer
  BY DEF Inv, TypeOK, Answer, At, AnswersHold
<1> DEFINE new == [loc[t] EXCEPT !.first = a,
                                 !.pc = IF NeedsRetry(a) THEN "retry" ELSE "save",
                                 !.outcome = IF NeedsRetry(a) THEN NoAnswer ELSE a]
<1>3. ~NeedsRetry(a) => a \in Readable /\ a # Unreadable /\ a # NoAnswer
  BY TurnAssumption DEF NeedsRetry, Answers
<1>4. new \in Local /\ loc' = [loc EXCEPT ![t] = new]
  BY <1>1, <1>2, <1>3 DEF Inv, TypeOK, Local
<1>5. /\ new.pc \in {"retry", "save"} /\ new.day = loc[t].day
      /\ new.first = a /\ new.second = NoAnswer
      /\ new.pc = "save" => new.outcome = a /\ ~NeedsRetry(a)
  BY <1>2 DEF Local
<1> HIDE DEF new
<1>6. loc'[t] = new
  BY <1>4 DEF Inv, TypeOK
<1>7. \A x \in Readable : x.rejected <= x.rejected
  BY TurnAssumption DEF Readable
<1>8. AnswersHold(t)'
  BY <1>3, <1>5, <1>6, <1>7 DEF AnswersHold
<1> QED
  BY <1>2, <1>4, <1>5, <1>8, MoveHolds DEF Answer, Spending

LEMMA AnswerAgainHolds == ASSUME Inv, NEW t \in Threads, AnswerAgain(t) PROVE Inv'
<1>1. PICK a \in Answers :
         \/ Return(t)
         \/ /\ Better(loc[t].first, a) # Unreadable
            /\ loc' = [loc EXCEPT ![t].second = a, ![t].outcome = Better(loc[t].first, a),
                                  ![t].pc = "save"]
  BY DEF AnswerAgain
<1>2. loc[t] \in Local /\ loc[t].pc = "retry" /\ loc[t].first \in Answers
  BY DEF Inv, TypeOK, AnswerAgain, At, AnswersHold
<1>3. CASE Return(t)
  <2>1. AnswersHold(t)' /\ loc' = [loc EXCEPT ![t] = Idle] /\ Idle.pc = "idle"
    BY <1>3 DEF Inv, TypeOK, Return, AnswersHold, Idle
  <2> QED
    BY <1>2, <2>1, IdleIsLocal, MoveHolds DEF AnswerAgain, Spending
<1>4. CASE ~Return(t)
  <2> DEFINE kept == Better(loc[t].first, a)
             new == [loc[t] EXCEPT !.second = a, !.outcome = kept, !.pc = "save"]
  <2>1. /\ kept \in {loc[t].first, a} \ {Unreadable, NoAnswer} /\ kept \in Readable
        /\ \A x \in {loc[t].first, a} \ {Unreadable, NoAnswer} : kept.rejected <= x.rejected
    <3>1. \A x \in Readable : x.rejected \in Int
      BY TurnAssumption DEF Readable
    <3>2. kept # Unreadable
      BY <1>1, <1>4
    <3> QED
      BY <1>2, <3>1, <3>2, TurnAssumption DEF Better, Answers
  <2>2. new \in Local /\ loc' = [loc EXCEPT ![t] = new]
    BY <1>1, <1>2, <1>4, <2>1 DEF Inv, TypeOK, Local
  <2>3. /\ new.pc = "save" /\ new.day = loc[t].day
        /\ new.first = loc[t].first /\ new.second = a /\ new.outcome = kept
    BY <1>2 DEF Local
  <2> HIDE DEF new, kept
  <2>4. loc'[t] = new
    BY <2>2 DEF Inv, TypeOK
  <2>5. AnswersHold(t)'
    BY <2>1, <2>3, <2>4 DEF AnswersHold
  <2> QED
    BY <1>2, <2>2, <2>3, <2>5, MoveHolds DEF AnswerAgain, Spending
<1> QED
  BY <1>3, <1>4

LEMMA OutageHolds == ASSUME Inv, NEW t \in Threads, Outage(t) PROVE Inv'
<1> DEFINE new == [loc[t] EXCEPT !.pc = "refund"]
<1>1. loc[t].pc \in {"ask", "retry"} /\ new \in Local /\ loc' = [loc EXCEPT ![t] = new]
  BY DEF Inv, TypeOK, Outage, At, GoTo, Local
<1>2. new.pc = "refund" /\ new.day = loc[t].day
  BY DEF Inv, TypeOK, Local
<1>3. AnswersHold(t)'
  BY <1>1 DEF Inv, TypeOK, AnswersHold, Local
<1> HIDE DEF new
<1> QED
  BY <1>1, <1>2, <1>3, MoveHolds DEF Outage, Spending

LEMMA FinishHolds == ASSUME Inv, NEW t \in Threads, Finish(t) PROVE Inv'
<1>1. /\ AnswersHold(t)' /\ loc' = [loc EXCEPT ![t] = Idle] /\ Idle.pc = "idle"
      /\ loc[t].pc \in {"save", "refused"}
  BY DEF Inv, TypeOK, Finish, At, Return, AnswersHold, Idle
<1> QED
  BY <1>1, IdleIsLocal, MoveHolds DEF Finish, Spending
-----------------------------------------------------------------------------
(* The steps that write to the table.                                       *)

LEMMA InsertHolds == ASSUME Inv, NEW t \in Threads, InsertUsage(t) PROVE Inv'
<1>0. /\ loc[t] \in Local /\ loc[t].pc = "reserve" /\ writer = NoThread /\ writer' = t
      /\ chat_usage' = [chat_usage EXCEPT ![today] = TurnsOn(today)]
      /\ today \in Days /\ UNCHANGED <<today, given>>
  BY DEF Inv, TypeOK, InsertUsage, At
<1>1. PICK inserted \in BOOLEAN : inserted = (chat_usage[today] = NoRow)
  <2>1. (chat_usage[today] = NoRow) \in BOOLEAN
    OBVIOUS
  <2> QED
    BY <2>1, Zenon
<1>2. loc' = [loc EXCEPT ![t].pc = "count", ![t].day = today, ![t].inserted = inserted]
  BY <1>1, Zenon DEF InsertUsage
<1> DEFINE new == [loc[t] EXCEPT !.pc = "count", !.day = today, !.inserted = inserted]
<1>3. today \in 0..MaxDay
  BY <1>0, TurnAssumption DEF Days
<1>4. new \in Local /\ loc' = [loc EXCEPT ![t] = new]
  BY <1>0, <1>2, <1>3 DEF Inv, TypeOK, Local
<1>5. /\ new.pc = "count" /\ new.day = today /\ new.inserted = inserted
      /\ new.first = loc[t].first /\ new.second = loc[t].second
  BY <1>0 DEF Local
<1> HIDE DEF new
<1>6. loc'[t] = new /\ \A u \in Threads \ {t} : loc'[u] = loc[u]
  BY <1>4 DEF Inv, TypeOK
<1>7. TurnsOn(today) \in Nat
  BY <1>0 DEF Inv, TypeOK, TurnsOn
<1>8. TypeOK'
  BY <1>0, <1>4, <1>7 DEF Inv, TypeOK
<1>9. ChargesHold'
  <2>1. \A d \in Days : Charged(d)' \subseteq Charged(d)
    BY <1>5, <1>6 DEF Charged, Spending
  <2> QED
    BY <1>0, <2>1, NoNewCharge
<1>10. DaysHold'
  <2>1. \A d \in Days : chat_usage'[d] = IF d = today THEN TurnsOn(today) ELSE chat_usage[d]
    BY <1>0 DEF Inv, TypeOK
  <2>2. TurnsOn(today)' = TurnsOn(today)
    BY <1>0, <1>7, <2>1, TurnAssumption DEF TurnsOn
  <2>3. today = 1 => TurnsOn(1)' = TurnsOn(1)
    BY <1>0, <2>2 DEF TurnsOn
  <2>4. \A d \in Days : d > today => chat_usage'[d] = NoRow
    BY <1>0, <2>1, DaysAreNaturals DEF Inv, DaysHold
  <2> QED
    BY <1>0, <2>2, <2>3, <2>4 DEF Inv, DaysHold
<1>11. ASSUME NEW u \in Threads PROVE TransactionHolds(u)' /\ AnswersHold(u)'
  <2>1. CASE u = t
    <3>1. chat_usage'[today] = TurnsOn(today)
      BY <1>0 DEF Inv, TypeOK
    <3>2. inserted => TurnsOn(today) = 0
      BY <1>1 DEF TurnsOn
    <3>3. TransactionHolds(t)'
      BY <1>0, <1>5, <1>6, <1>7, <3>1, <3>2, TurnAssumption, DaysAreNaturals
         DEF TransactionHolds, Spending
    <3>4. AnswersHold(t)'
      BY <1>0, <1>5, <1>6 DEF Inv, AnswersHold
    <3> QED
      BY <2>1, <3>3, <3>4
  <2>2. CASE u # t
    BY <1>0, <1>6, <2>2, TurnAssumption DEF Inv, TransactionHolds, AnswersHold, Spending
  <2> QED
    BY <2>1, <2>2
<1> QED
  BY <1>8, <1>9, <1>10, <1>11 DEF Inv

LEMMA CountHolds == ASSUME Inv, NEW t \in Threads, CountTurn(t) PROVE Inv'
<1>0. /\ loc[t] \in Local /\ loc[t].pc = "count" /\ writer = t /\ writer' = NoThread
      /\ chat_usage[today] \in Nat /\ chat_usage[today] < Limit
      /\ chat_usage' = [chat_usage EXCEPT ![today] = @ + 1]
      /\ given' = [given EXCEPT ![today] = @ + 1]
      /\ today \in Days /\ today' = today
  BY DEF Inv, TypeOK, CountTurn, At, HasTurnLeft, TransactionHolds
<1> DEFINE new == [loc[t] EXCEPT !.pc = "ask", !.day = today, !.inserted = FALSE]
<1>1. today \in 0..MaxDay /\ FALSE \in BOOLEAN
  BY <1>0, TurnAssumption DEF Days
<1>2. new \in Local /\ loc' = [loc EXCEPT ![t] = new]
  BY <1>0, <1>1 DEF Inv, TypeOK, Local, CountTurn
<1>3. /\ new.pc = "ask" /\ new.day = today
      /\ new.first = loc[t].first /\ new.second = loc[t].second
  BY <1>0 DEF Local
<1> HIDE DEF new
<1>4. loc'[t] = new /\ \A u \in Threads \ {t} : loc'[u] = loc[u]
  BY <1>2 DEF Inv, TypeOK
<1>5. \A d \in Days : /\ given[d] \in Nat
                      /\ given'[d] = IF d = today THEN given[d] + 1 ELSE given[d]
                      /\ chat_usage'[d] = IF d = today THEN chat_usage[d] + 1 ELSE chat_usage[d]
  BY <1>0 DEF Inv, TypeOK
<1>6. TypeOK'
  BY <1>0, <1>2 DEF Inv, TypeOK
<1>7. ChargesHold'
  <2> SUFFICES ASSUME NEW d \in Days PROVE Cardinality(Charged(d)') <= given'[d]
    BY DEF ChargesHold
  <2>1. Cardinality(Charged(d)) <= given[d]
    BY DEF Inv, ChargesHold
  <2>2. CASE d = today
    <3>1. Charged(d)' = Charged(d) \cup {t}
      BY <1>3, <1>4, <2>2 DEF Charged, Spending
    <3>2. Cardinality(Charged(d)') <= Cardinality(Charged(d)) + 1
      BY <3>1, ChargedIsFinite, FS_AddElement
    <3> QED
      BY <1>5, <2>1, <2>2, <3>2, ChargedIsFinite, ChargedIsFiniteNext
  <2>3. CASE d # today
    <3>1. Charged(d)' \subseteq Charged(d)
      BY <1>3, <1>4, <2>3 DEF Charged, Spending
    <3>2. Cardinality(Charged(d)') <= Cardinality(Charged(d))
      BY <3>1, ChargedIsFinite, FS_Subset
    <3> QED
      BY <1>5, <2>1, <2>3, <3>2, ChargedIsFinite, ChargedIsFiniteNext
  <2> QED
    BY <2>2, <2>3
<1>8. DaysHold'
  <2>1. TurnsOn(today) = chat_usage[today] /\ TurnsOn(today)' = chat_usage[today] + 1
    BY <1>0, <1>5, TurnAssumption DEF TurnsOn
  <2>2. TurnsOn(today)' <= given'[today]
    BY <1>0, <1>5, <2>1 DEF Inv, DaysHold
  <2>3. ASSUME today = 1 PROVE TurnsOn(1)' = given'[1] /\ given'[1] <= Limit
    BY <1>0, <1>5, <2>1, <2>3, TurnAssumption DEF Inv, DaysHold, TurnsOn
  <2>4. \A d \in Days : d > today => chat_usage'[d] = NoRow
    BY <1>0, <1>5, DaysAreNaturals DEF Inv, DaysHold
  <2> QED
    BY <1>0, <2>2, <2>3, <2>4 DEF DaysHold, TurnsOn
<1>9. ASSUME NEW u \in Threads PROVE TransactionHolds(u)' /\ AnswersHold(u)'
  <2>1. TransactionHolds(u) /\ AnswersHold(u)
    BY DEF Inv
  <2>2. CASE u = t
    BY <1>0, <1>3, <1>4, <2>1, <2>2, TurnAssumption, DaysAreNaturals
       DEF TransactionHolds, AnswersHold, Spending
  <2>3. CASE u # t
    <3>1. loc[u].pc # "count"
      BY <1>0, <2>1, <2>3 DEF TransactionHolds
    <3> QED
      BY <1>0, <1>4, <2>1, <2>3, <3>1, TurnAssumption DEF TransactionHolds, AnswersHold
  <2> QED
    BY <2>2, <2>3
<1> QED
  BY <1>6, <1>7, <1>8, <1>9 DEF Inv

LEMMA RefuseHolds == ASSUME Inv, NEW t \in Threads, RefuseTurn(t) PROVE Inv'
<1>0. /\ loc[t] \in Local /\ loc[t].pc = "count" /\ writer = t /\ writer' = NoThread
      /\ UNCHANGED <<today, chat_usage, given>>
  BY DEF Inv, TypeOK, RefuseTurn, At, TransactionHolds
<1> DEFINE new == [loc[t] EXCEPT !.pc = "refused"]
<1>1. new \in Local /\ loc' = [loc EXCEPT ![t] = new]
  BY <1>0 DEF Inv, TypeOK, Local, RefuseTurn, GoTo
<1>2. /\ new.pc = "refused"
      /\ new.first = loc[t].first /\ new.second = loc[t].second
  BY <1>0 DEF Local
<1> HIDE DEF new
<1>3. loc'[t] = new /\ \A u \in Threads \ {t} : loc'[u] = loc[u]
  BY <1>1 DEF Inv, TypeOK
<1>4. TypeOK'
  BY <1>0, <1>1 DEF Inv, TypeOK
<1>5. \A d \in Days : Charged(d)' \subseteq Charged(d)
  BY <1>2, <1>3 DEF Charged, Spending
<1>6. ChargesHold'
  BY <1>0, <1>5, NoNewCharge
<1>7. DaysHold'
  BY <1>0 DEF Inv, DaysHold, TurnsOn
<1>8. ASSUME NEW u \in Threads PROVE TransactionHolds(u)' /\ AnswersHold(u)'
  BY <1>0, <1>2, <1>3, TurnAssumption DEF Inv, TransactionHolds, AnswersHold, Spending
<1> QED
  BY <1>4, <1>6, <1>7, <1>8 DEF Inv

LEMMA RefundHolds == ASSUME Inv, NEW t \in Threads, Refund(t) PROVE Inv'
<1>0. /\ loc[t] \in Local /\ loc[t].pc = "refund" /\ writer = NoThread /\ writer' = NoThread
      /\ chat_usage' = RefundOn(t, today)
      /\ given' = [given EXCEPT ![loc[t].day] = @ - 1]
      /\ loc' = [loc EXCEPT ![t] = Idle]
      /\ today \in Days /\ today' = today
  BY DEF Inv, TypeOK, Refund, Return, At
<1> DEFINE day == loc[t].day
<1>1. day \in Days /\ given[day] >= 1
  BY <1>0, ChargedWasGiven DEF Spending
<1>2. PICK b : b = day
  OBVIOUS
<1> HIDE DEF day
<1>3. loc'[t] = Idle /\ Idle.pc = "idle" /\ Idle.first = NoAnswer /\ Idle.second = NoAnswer
      /\ \A u \in Threads \ {t} : loc'[u] = loc[u]
  BY <1>0 DEF Inv, TypeOK, Idle
<1>4. \A d \in Days : /\ given[d] \in Nat /\ chat_usage[d] \in Nat \cup {NoRow}
                      /\ given'[d] = IF d = b THEN given[d] - 1 ELSE given[d]
  BY <1>0, <1>1, <1>2 DEF Inv, TypeOK, day
<1>5. \A d \in Days :
         chat_usage'[d] = IF d # today \/ chat_usage[d] = NoRow THEN chat_usage[d]
                          ELSE IF chat_usage[d] > 1 THEN chat_usage[d] - 1 ELSE 0
  BY <1>0 DEF Inv, TypeOK, RefundOn
<1>6. TypeOK'
  <2>1. chat_usage' \in [Days -> Nat \cup {NoRow}]
    <3>1. chat_usage' = [d \in Days |-> chat_usage'[d]]
      BY <1>0 DEF Inv, TypeOK, RefundOn
    <3>2. \A d \in Days : chat_usage'[d] \in Nat \cup {NoRow}
      BY <1>4, <1>5
    <3> QED
      BY <3>1, <3>2
  <2>2. given' \in [Days -> Nat]
    BY <1>0, <1>1 DEF Inv, TypeOK, day
  <2> QED
    BY <1>0, <2>1, <2>2, IdleIsLocal DEF Inv, TypeOK
<1>7. ChargesHold'
  <2> SUFFICES ASSUME NEW d \in Days PROVE Cardinality(Charged(d)') <= given'[d]
    BY DEF ChargesHold
  <2>1. Cardinality(Charged(d)) <= given[d]
    BY DEF Inv, ChargesHold
  <2>2. CASE d = b
    <3>1. Charged(d)' = Charged(d) \ {t} /\ t \in Charged(d)
      BY <1>0, <1>2, <1>3, <2>2 DEF Charged, Spending, day
    <3>2. Cardinality(Charged(d)') = Cardinality(Charged(d)) - 1
      BY <3>1, ChargedIsFinite, FS_RemoveElement
    <3> QED
      BY <1>4, <2>1, <2>2, <3>2, ChargedIsFinite, ChargedIsFiniteNext
  <2>3. CASE d # b
    <3>1. Charged(d)' \subseteq Charged(d)
      BY <1>3 DEF Charged, Spending
    <3>2. Cardinality(Charged(d)') <= Cardinality(Charged(d))
      BY <3>1, ChargedIsFinite, FS_Subset
    <3> QED
      BY <1>4, <2>1, <2>3, <3>2, ChargedIsFinite, ChargedIsFiniteNext
  <2> QED
    BY <2>2, <2>3
<1>8. DaysHold'
  <2>1. TurnsOn(today) <= given[today] /\ given[today] \in Nat
    BY <1>0, <1>4 DEF Inv, DaysHold
  <2>2. TurnsOn(today)' <= given'[today]
    BY <1>0, <1>1, <1>2, <1>4, <1>5, <2>1, TurnAssumption DEF TurnsOn
  <2>3. ASSUME today = 1 PROVE TurnsOn(1)' = given'[1] /\ given'[1] <= Limit
    <3>1. b = 1
      <4>1. TransactionHolds(t)
        BY DEF Inv
      <4>2. b \in Days /\ b <= 1
        BY <1>0, <1>2, <2>3, <4>1 DEF TransactionHolds, Spending, day
      <4> QED
        BY <4>2, DaysAreNaturals
    <3> QED
      BY <1>0, <1>1, <1>2, <1>4, <1>5, <2>3, <3>1, TurnAssumption DEF Inv, DaysHold, TurnsOn
  <2>4. \A d \in Days : d > today => chat_usage'[d] = NoRow
    BY <1>0, <1>5, DaysAreNaturals DEF Inv, DaysHold
  <2> QED
    BY <1>0, <2>2, <2>3, <2>4 DEF DaysHold, TurnsOn
<1>9. ASSUME NEW u \in Threads PROVE TransactionHolds(u)' /\ AnswersHold(u)'
  BY <1>0, <1>3, TurnAssumption DEF Inv, TransactionHolds, AnswersHold, Spending
<1> QED
  BY <1>6, <1>7, <1>8, <1>9 DEF Inv

LEMMA FailHolds == ASSUME Inv, NEW t \in Threads, Fail(t) PROVE Inv'
<1>0. /\ loc' = [loc EXCEPT ![t] = Idle]
      /\ chat_usage' = IF loc[t].pc = "count" /\ loc[t].inserted
                       THEN [chat_usage EXCEPT ![loc[t].day] = NoRow] ELSE chat_usage
      /\ writer' = IF writer = t THEN NoThread ELSE writer
      /\ today \in Days /\ UNCHANGED <<today, given>>
  BY DEF Inv, TypeOK, Fail, Return, At
<1>1. loc'[t] = Idle /\ Idle.pc = "idle" /\ Idle.first = NoAnswer /\ Idle.second = NoAnswer
      /\ \A u \in Threads \ {t} : loc'[u] = loc[u]
  BY <1>0 DEF Inv, TypeOK, Idle
<1>2. \A d \in Days : \/ chat_usage'[d] = chat_usage[d]
                      \/ chat_usage[d] = 0 /\ chat_usage'[d] = NoRow /\ writer = t
  BY <1>0 DEF Inv, TypeOK, TransactionHolds
<1>3. TypeOK'
  BY <1>0, IdleIsLocal DEF Inv, TypeOK
<1>4. \A d \in Days : Charged(d)' \subseteq Charged(d)
  BY <1>1 DEF Charged, Spending
<1>5. ChargesHold'
  BY <1>0, <1>4, NoNewCharge
<1>6. DaysHold'
  <2>1. \A d \in Days : TurnsOn(d)' = TurnsOn(d)
    BY <1>2, TurnAssumption DEF TurnsOn
  <2>2. TurnsOn(today)' = TurnsOn(today) /\ TurnsOn(1)' = TurnsOn(1)
    BY <1>0, <2>1, DaysAreNaturals DEF TurnsOn
  <2>3. \A d \in Days : d > today => chat_usage'[d] = NoRow
    BY <1>0, <1>2, DaysAreNaturals DEF Inv, DaysHold
  <2> QED
    BY <1>0, <2>2, <2>3 DEF Inv, DaysHold
<1>7. ASSUME NEW u \in Threads PROVE TransactionHolds(u)' /\ AnswersHold(u)'
  <2>1. CASE u = t
    BY <1>0, <1>1, <2>1, TurnAssumption DEF Inv, TransactionHolds, AnswersHold, Spending
  <2>2. CASE u # t
    <3>1. writer' = u <=> writer = u
      BY <1>0, <2>2, TurnAssumption
    <3>2. TransactionHolds(u) /\ AnswersHold(u) /\ loc'[u] = loc[u]
      BY <1>1, <2>2 DEF Inv
    <3>3. loc[u].pc = "count" => chat_usage'[loc[u].day] = chat_usage[loc[u].day]
      BY <1>2, <2>2, <3>2 DEF TransactionHolds
    <3> QED
      BY <1>0, <3>1, <3>2, <3>3 DEF TransactionHolds, AnswersHold
  <2> QED
    BY <2>1, <2>2
<1> QED
  BY <1>3, <1>5, <1>6, <1>7 DEF Inv
-----------------------------------------------------------------------------

LEMMA StepHolds == Inv /\ [Next]_vars => Inv'
<1> SUFFICES ASSUME Inv, [Next]_vars PROVE Inv'
  OBVIOUS
<1>1. ASSUME UNCHANGED vars PROVE Inv'
  BY <1>1 DEF vars, Inv, TypeOK, ChargesHold, Charged, DaysHold, TurnsOn, TransactionHolds, AnswersHold
<1> QED
  BY <1>1, MidnightHolds, StartHolds, InsertHolds, CountHolds, RefuseHolds, AnswerHolds,
     AnswerAgainHolds, OutageHolds, RefundHolds, FinishHolds, FailHolds DEF Next

\* What holds of the requests, the table and the clock at every moment.
THEOREM Invariance == Spec => []Inv
BY InitHolds, StepHolds, PTL DEF Spec

\* The variables, the rows of chat_usage among them, stay within their types.
THEOREM TypeCorrect == Spec => []TypeOK
BY Invariance, PTL DEF Inv

\* While no midnight has passed, the account is charged for exactly the turns it was
\* given, within the limit, whatever requests, refunds and crashes interleave.
THEOREM ChargedExactly == Spec => []ExactUntilMidnight
<1>1. Inv => ExactUntilMidnight
  BY DEF Inv, DaysHold, ExactUntilMidnight
<1> QED
  BY <1>1, Invariance, PTL

\* The better readable answer becomes the proposal (chat.chat's choice of the retry).
THEOREM BestIsKept == Spec => []BestAnswerIsKept
<1>1. Inv => BestAnswerIsKept
  BY DEF Inv, AnswersHold, BestAnswerIsKept, At
<1> QED
  BY <1>1, Invariance, PTL

\* Unless midnight falls into the reservation, a refused message means that the day
\* has given all its turns.
THEOREM RefusedWhenSpent == Spec => RefusalsAreDue
<1>1. Inv /\ [Next]_vars =>
         [\A t \in Threads : (At(t, "count") /\ At(t, "refused")') =>
               given[today] >= Limit \/ loc[t].day # today]_vars
  <2> SUFFICES ASSUME Inv, Next, NEW t \in Threads,
                      At(t, "count"), At(t, "refused")', loc[t].day = today
               PROVE  given[today] >= Limit
    OBVIOUS
  <2>1. TransactionHolds(t) /\ loc[t].pc = "count" /\ writer = t
    BY DEF Inv, At, TransactionHolds
  <2>2. ~HasTurnLeft
    <3>1. loc \in [Threads -> Local] /\ loc'[t].pc = "refused"
      BY DEF Inv, TypeOK, At
    <3>2. Idle.pc = "idle"
      BY DEF Idle
    <3>3. \A u \in Threads : RefuseTurn(u) => u = t
      BY <2>1, <3>1 DEF RefuseTurn, At, GoTo
    <3>4. ~Midnight
      BY <2>1, <3>1 DEF Midnight
    <3>5. \A u \in Threads : ~StartTurn(u) /\ ~Outage(u)
      BY <2>1, <3>1 DEF StartTurn, Outage, GoTo, At, Idle
    <3>6. \A u \in Threads : ~InsertUsage(u) /\ ~CountTurn(u)
      <4>1. \A u \in Threads : ~InsertUsage(u)
        BY <2>1, TurnAssumption DEF InsertUsage
      <4>2. \A u \in Threads : CountTurn(u) => u = t
        BY <2>1 DEF CountTurn, At, Inv, TransactionHolds
      <4>3. ~CountTurn(t)
        BY <3>1 DEF CountTurn, Local
      <4> QED
        BY <4>1, <4>2, <4>3
    <3>7. \A u \in Threads : ~Answer(u)
      BY <2>1, <3>1 DEF Answer, At
    <3>8. \A u \in Threads : ~AnswerAgain(u)
      BY <2>1, <3>1 DEF AnswerAgain, Return, At
    <3>9. \A u \in Threads : ~Refund(u) /\ ~Finish(u) /\ ~Fail(u)
      BY <2>1, <3>1, <3>2 DEF Refund, Finish, Fail, Return, At
    <3> QED
      BY <3>3, <3>4, <3>5, <3>6, <3>7, <3>8, <3>9 DEF Next, RefuseTurn
  <2>3. chat_usage[today] # NoRow /\ chat_usage[today] \in Nat \cup {NoRow}
    BY <2>1 DEF TransactionHolds, Inv, TypeOK
  <2> QED
    BY <2>2, <2>3, TurnAssumption DEF HasTurnLeft, Inv, DaysHold, TurnsOn, TypeOK
<1> QED
  BY <1>1, Invariance, PTL DEF Spec, RefusalsAreDue
-----------------------------------------------------------------------------

LEMMA DaysAreFinite == IsFiniteSet(Days)
<1>1. 1 \in Int /\ MaxDay \in Int
  BY TurnAssumption
<1> QED
  BY <1>1, FS_Interval DEF Days

LEMMA TotalOfDays ==
    ASSUME NEW f \in [Days -> Nat]
    PROVE  SumFunction(f) = SumFunctionOnSet(f, Days) /\ SumFunction(f) \in Nat
<1>1. SumFunction(f) = SumFunctionOnSet(f, Days)
  BY DEF SumFunction
<1> QED
  BY <1>1, SumIsNat, DaysAreFinite

\* The totals of a table before and after one of its days has changed.
LEMMA TotalOfDaysChanges ==
    ASSUME NEW f \in [Days -> Nat], NEW g \in [Days -> Nat], NEW b \in Days,
           \A d \in Days : d # b => g[d] = f[d]
    PROVE  SumFunction(g) = SumFunction(f) + g[b] - f[b]
<1>1. PICK S : S = Days
  OBVIOUS
<1>2. /\ IsFiniteSet(S) /\ b \in S /\ \A x \in S : f[x] \in Nat /\ g[x] \in Nat
      /\ \A x \in S : x # b => g[x] = f[x]
  BY <1>1, DaysAreFinite
<1>3. SumFunctionOnSet(g, S) = SumFunctionOnSet(f, S) + g[b] - f[b]
  BY <1>2, SumChanges
<1> QED
  BY <1>1, <1>3, TotalOfDays

LEMMA TurnsAreNat == TypeOK => [d \in Days |-> TurnsOn(d)] \in [Days -> Nat]
BY DEF TypeOK, TurnsOn

LEMMA TurnsAreNatNext == TypeOK' => [d \in Days |-> TurnsOn(d)]' \in [Days -> Nat]
BY DEF TypeOK, TurnsOn

\* A step gives turns on one day and charges them on one, perhaps another.  What it
\* takes off the charge it takes off what was given.
LEMMA TotalStep ==
    ASSUME TypeOK, TypeOK', TotalIsCharged, NEW a \in Days, NEW b \in Days,
           \A d \in Days : d # b => given'[d] = given[d],
           \A d \in Days : d # a => TurnsOn(d)' = TurnsOn(d),
           given'[b] - given[b] <= TurnsOn(a)' - TurnsOn(a)
    PROVE  TotalIsCharged'
<1>1. PICK f \in [Days -> Nat], g \in [Days -> Nat] : f = given /\ g = given'
  BY DEF TypeOK
<1>2. PICK u \in [Days -> Nat], v \in [Days -> Nat] :
         u = [d \in Days |-> TurnsOn(d)] /\ v = [d \in Days |-> TurnsOn(d)]'
  BY TurnsAreNat, TurnsAreNatNext
<1>3. u[a] = TurnsOn(a) /\ v[a] = TurnsOn(a)' /\ \A d \in Days : d # a => v[d] = u[d]
  BY <1>2
<1>4. SumFunction(g) = SumFunction(f) + g[b] - f[b]
  BY <1>1, TotalOfDaysChanges
<1>5. SumFunction(v) = SumFunction(u) + v[a] - u[a]
  BY <1>3, TotalOfDaysChanges
<1>6. SumFunction(f) <= SumFunction(u)
  BY <1>1, <1>2 DEF TotalIsCharged
<1>7. /\ SumFunction(f) \in Nat /\ SumFunction(u) \in Nat
      /\ f[b] \in Nat /\ g[b] \in Nat /\ u[a] \in Nat /\ v[a] \in Nat
  BY TotalOfDays
<1>8. g[b] - f[b] <= v[a] - u[a]
  BY <1>1, <1>3
<1>9. SumFunction(g) <= SumFunction(v)
  BY <1>4, <1>5, <1>6, <1>7, <1>8
<1> QED
  BY <1>1, <1>2, <1>9 DEF TotalIsCharged

LEMMA NothingGiven ==
    ASSUME Inv, Inv', TotalIsCharged, given' = given,
           \A d \in Days : TurnsOn(d)' = TurnsOn(d)
    PROVE  TotalIsCharged'
<1>1. given'[1] - given[1] <= TurnsOn(1)' - TurnsOn(1)
  BY DaysAreNaturals DEF Inv, TypeOK, TurnsOn
<1> QED
  BY <1>1, DaysAreNaturals, TotalStep DEF Inv

LEMMA TotalHolds == ASSUME Inv, Inv', TotalIsCharged, [Next]_vars PROVE TotalIsCharged'
<1>0. today \in Days /\ \A d \in Days : chat_usage[d] \in Nat \cup {NoRow} /\ given[d] \in Nat
  BY DEF Inv, TypeOK
<1>1. CASE UNCHANGED <<chat_usage, given>>
  BY <1>1, NothingGiven DEF TurnsOn
<1>2. ASSUME NEW t \in Threads, InsertUsage(t) PROVE TotalIsCharged'
  <2>1. \A d \in Days : TurnsOn(d)' = TurnsOn(d)
    BY <1>0, <1>2, TurnAssumption DEF InsertUsage, TurnsOn, Inv, TypeOK
  <2> QED
    BY <1>2, <2>1, NothingGiven DEF InsertUsage
<1>3. ASSUME NEW t \in Threads, CountTurn(t) PROVE TotalIsCharged'
  <2>1. /\ \A d \in Days : d # today => given'[d] = given[d] /\ TurnsOn(d)' = TurnsOn(d)
        /\ given'[today] = given[today] + 1
        /\ chat_usage[today] \in Nat /\ chat_usage'[today] = chat_usage[today] + 1
    BY <1>0, <1>3 DEF CountTurn, HasTurnLeft, Inv, TypeOK, TurnsOn
  <2>2. given'[today] - given[today] <= chat_usage'[today] - chat_usage[today]
    BY <1>0, <2>1
  <2>3. PICK a \in Days : a = today
    BY <1>0
  <2>4. TurnsOn(a) = chat_usage[a] /\ TurnsOn(a)' = chat_usage'[a]
    BY <1>0, <2>1, <2>3, TurnAssumption DEF TurnsOn
  <2> QED
    BY <2>1, <2>2, <2>3, <2>4, TotalStep DEF Inv
<1>4. ASSUME NEW t \in Threads, Refund(t) PROVE TotalIsCharged'
  <2>1. PICK b \in Days : b = loc[t].day /\ given[b] >= 1
    BY <1>4, ChargedWasGiven DEF Refund, At, Spending
  <2>2. PICK a \in Days : a = today
    BY <1>0
  <2>3. given'[b] = given[b] - 1 /\ \A d \in Days : d # b => given'[d] = given[d]
    BY <1>4, <2>1 DEF Refund, Inv, TypeOK
  <2>4. /\ \A d \in Days : d # a => TurnsOn(d)' = TurnsOn(d)
        /\ chat_usage'[a] = IF chat_usage[a] = NoRow THEN NoRow
                            ELSE IF chat_usage[a] > 1 THEN chat_usage[a] - 1 ELSE 0
    BY <1>4, <2>2 DEF Refund, RefundOn, Inv, TypeOK, TurnsOn
  <2>5. TurnsOn(a) - 1 <= TurnsOn(a)' /\ TurnsOn(a) \in Nat /\ TurnsOn(a)' \in Nat
    BY <1>0, <2>2, <2>4, TurnAssumption DEF TurnsOn
  <2>6. given'[b] - given[b] <= TurnsOn(a)' - TurnsOn(a)
    BY <1>0, <2>3, <2>5
  <2> QED
    BY <2>3, <2>4, <2>6, TotalStep DEF Inv
<1>5. ASSUME NEW t \in Threads, Fail(t) PROVE TotalIsCharged'
  <2>1. \A d \in Days : \/ chat_usage'[d] = chat_usage[d]
                        \/ chat_usage[d] = 0 /\ chat_usage'[d] = NoRow
    BY <1>0, <1>5 DEF Inv, TypeOK, Fail, At, TransactionHolds
  <2>2. \A d \in Days : TurnsOn(d)' = TurnsOn(d)
    BY <2>1, TurnAssumption DEF TurnsOn
  <2> QED
    BY <1>5, <2>2, NothingGiven DEF Fail
<1>6. ASSUME Next, ~ UNCHANGED <<chat_usage, given>>
      PROVE  \E t \in Threads : InsertUsage(t) \/ CountTurn(t) \/ Refund(t) \/ Fail(t)
  BY <1>6 DEF Next, Midnight, StartTurn, RefuseTurn, Answer, AnswerAgain, Outage, Finish
<1> QED
  BY <1>1, <1>2, <1>3, <1>4, <1>5, <1>6 DEF vars

\* Over all days no more turns are given than are charged, though a refund after
\* midnight takes a turn off another day than it was counted on (refund_chat_turn).
THEOREM NeverUndercharged == Spec => []TotalIsCharged
<1>1. Init => TotalIsCharged
  <2> SUFFICES ASSUME Init PROVE TotalIsCharged
    OBVIOUS
  <2>1. given = [d \in Days |-> TurnsOn(d)]
    BY TurnAssumption DEF Init, TurnsOn
  <2>2. SumFunction(given) \in Nat
    BY TotalOfDays DEF Init
  <2>3. PICK f : f = given
    OBVIOUS
  <2>4. SumFunction(f) <= SumFunction(f)
    BY <2>2, <2>3
  <2> QED
    BY <2>1, <2>3, <2>4 DEF TotalIsCharged
<1>2. Inv /\ Inv' /\ TotalIsCharged /\ [Next]_vars => TotalIsCharged'
  BY TotalHolds
<1> QED
  BY <1>1, <1>2, Invariance, PTL DEF Spec

-----------------------------------------------------------------------------
(* The attempts to log in and to sign up (RateLimit).                       *)

\* A table counts for each key, in the window that ends at a moment, what c does.
Matches(table, c, at) ==
    \A k \in Keys, time \in Times : at - time < Window[k] => table[k][time] = c[k][time]

\* How many of the times that c has for a key are in the window that ends at a moment
Used(c, k, at) == SumFunction(Recent(c[k], Window[k], at))

Tables == [Keys -> [Times -> Nat]]

\* Count of RateLimit, as a function of the history
Counting(c, ks, at) == [k \in Keys |-> IF k \in ks THEN Add(c[k], at) ELSE c[k]]

\* The requests under way whose password is being verified for an email
Verifying(email) == {t \in Logins : verifying[t] = email}

\* A failure is recorded when its request ends: the failures of an email and the
\* requests that may still add one are bounded together.
AttemptsInv ==
    /\ RateTypeOK
    /\ Matches(hits, counted, now)
    /\ \A k \in Keys : k[1] # "login:fail" => Used(counted, k, now) <= MaxHits[k]
    /\ \A email \in Emails :
          Used(counted, <<"login:fail", email>>, now) + Cardinality(Verifying(email))
             < MaxHits[<<"login:fail", email>>] + Cardinality(Logins)

LEMMA KeysAre ==
    /\ \A k \in Keys : /\ MaxHits[k] \in Nat \ {0}
                       /\ Window[k] \in {LoginWindow, SignupWindow}
                       /\ Window[k] \in Nat \ {0}
    /\ \A email \in Emails : /\ <<"login:fail", email>> \in Keys
                             /\ <<"signup:email", email>> \in Keys
                             /\ <<"login:fail", email>> # <<"signup:email", email>>
    /\ \A ip \in Ips : <<"login:ip", ip>> \in Keys /\ <<"signup:ip", ip>> \in Keys
<1>1. \A k \in Keys : k[1] \in {"login:ip", "signup:ip", "login:fail", "signup:email"}
  BY DEF Keys, IpKeys, EmailKeys
<1>2. \A k \in Keys : MaxHits[k] \in Nat \ {0} /\ Window[k] \in {LoginWindow, SignupWindow}
  BY <1>1, RateLimitAssumption DEF MaxHits, Window
<1> QED
  BY <1>2, RateLimitAssumption DEF Keys, IpKeys, EmailKeys

LEMMA TimesAre == IsFiniteSet(Times) /\ Times \subseteq Nat
<1>1. 0 \in Int /\ MaxTime \in Int
  BY RateLimitAssumption
<1> QED
  BY <1>1, FS_Interval DEF Times

LEMMA TotalIs ==
    ASSUME NEW f \in [Times -> Nat]
    PROVE  SumFunction(f) = SumFunctionOnSet(f, Times) /\ SumFunction(f) \in Nat
<1>1. SumFunction(f) = SumFunctionOnSet(f, Times)
  BY DEF SumFunction
<1> QED
  BY <1>1, SumIsNat, TimesAre

LEMMA RecentIs ==
    ASSUME NEW f \in [Times -> Nat], NEW window \in Nat, NEW at \in Times
    PROVE  Recent(f, window, at) \in [Times -> Nat]
BY TimesAre DEF Recent

\* As time goes by, there is less in a window.
LEMMA UsedLater ==
    ASSUME NEW c \in Tables, NEW k \in Keys, NEW at \in Times, NEW later \in Times, at <= later
    PROVE  /\ Used(c, k, at) \in Nat /\ Used(c, k, later) \in Nat
           /\ Used(c, k, later) <= Used(c, k, at)
<1> DEFINE now0 == Recent(c[k], Window[k], at)
           then0 == Recent(c[k], Window[k], later)
<1>1. now0 \in [Times -> Nat] /\ then0 \in [Times -> Nat]
  BY RecentIs, KeysAre DEF Tables
<1>2. \A time \in Times : then0[time] <= now0[time]
  BY KeysAre, TimesAre DEF Recent, Tables
<1>3. SumFunction(then0) <= SumFunction(now0)
  <2> HIDE DEF now0, then0
  <2> QED
    BY <1>1, <1>2, TotalIs, SumIsMonotone, TimesAre
<1> QED
  BY <1>1, <1>3, TotalIs DEF Used

LEMMA AddIs ==
    ASSUME NEW f \in [Times -> Nat], NEW at \in Times
    PROVE  /\ Add(f, at) \in [Times -> Nat]
           /\ SumFunction(Add(f, at)) = SumFunction(f) + 1
<1>1. Add(f, at) \in [Times -> Nat]
  BY DEF Add
<1>2. /\ Add(f, at)[at] = f[at] + 1
      /\ \A time \in Times : time # at => Add(f, at)[time] = f[time]
  BY DEF Add
<1>3. SumFunctionOnSet(Add(f, at), Times) = SumFunctionOnSet(f, Times) + Add(f, at)[at] - f[at]
  <2>1. PICK g \in [Times -> Nat] : g = Add(f, at)
    BY <1>1
  <2>2. /\ \A time \in Times : f[time] \in Nat /\ g[time] \in Nat
        /\ \A time \in Times : time # at => g[time] = f[time]
    BY <1>2, <2>1
  <2>3. SumFunctionOnSet(g, Times) = SumFunctionOnSet(f, Times) + g[at] - f[at]
    <3>1. PICK S : S = Times
      OBVIOUS
    <3>2. /\ IsFiniteSet(S) /\ at \in S /\ \A x \in S : f[x] \in Nat /\ g[x] \in Nat
          /\ \A x \in S : x # at => g[x] = f[x]
      BY <2>2, <3>1, TimesAre
    <3>3. SumFunctionOnSet(g, S) = SumFunctionOnSet(f, S) + g[at] - f[at]
      BY <3>2, SumChanges
    <3> QED
      BY <3>1, <3>3
  <2> QED
    BY <2>1, <2>3
<1> QED
  BY <1>1, <1>2, <1>3, TotalIs

\* What is added now is in the window, and takes one place.
LEMMA CountingIs ==
    ASSUME NEW c \in Tables, NEW at \in Times, NEW ks
    PROVE  Counting(c, ks, at) \in Tables
BY AddIs DEF Counting, Tables

LEMMA UsedAdds ==
    ASSUME NEW c \in Tables, NEW k \in Keys, NEW at \in Times, NEW ks
    PROVE  Used(Counting(c, ks, at), k, at) =
              IF k \in ks THEN Used(c, k, at) + 1 ELSE Used(c, k, at)
<1>1. Counting(c, ks, at) \in Tables
  BY CountingIs
<1>2. CASE k \in ks
  <2>1. Recent(Add(c[k], at), Window[k], at) = Add(Recent(c[k], Window[k], at), at)
    <3>1. at - at < Window[k]
      BY KeysAre, TimesAre
    <3> QED
      BY <3>1, KeysAre DEF Recent, Add, Tables
  <2>2. Recent(c[k], Window[k], at) \in [Times -> Nat]
    BY RecentIs, KeysAre DEF Tables
  <2>3. Counting(c, ks, at)[k] = Add(c[k], at)
    BY <1>2 DEF Counting
  <2> QED
    BY <1>2, <1>1, <2>1, <2>2, <2>3, AddIs DEF Used
<1>3. CASE k \notin ks
  BY <1>1, <1>3 DEF Used, Counting
<1> QED
  BY <1>2, <1>3

-----------------------------------------------------------------------------
LEMMA MatchesLater ==
    ASSUME NEW table \in Tables, NEW c \in Tables, NEW at \in Times, NEW later \in Times,
           at <= later, Matches(table, c, at)
    PROVE  Matches(table, c, later)
BY KeysAre, TimesAre DEF Matches

\* _prune forgets nothing that still counts, and what it leaves is what counts.
LEMMA PrunedMatches ==
    ASSUME NEW table \in Tables, NEW c \in Tables, NEW at \in Times, NEW k \in Keys,
           Matches(table, c, at)
    PROVE  LET pruned == Pruned(table, k, Window[k], at)
           IN  /\ pruned \in Tables
               /\ Matches(pruned, c, at)
               /\ pruned[k] = Recent(c[k], Window[k], at)
               /\ \A j \in Keys : j # k => pruned[j] = table[j]
<1> DEFINE pruned == Pruned(table, k, Window[k], at)
<1>1. pruned[k] = Recent(table[k], Window[k], at) /\ \A j \in Keys : j # k => pruned[j] = table[j]
  BY DEF Pruned, Tables
<1>2. pruned \in Tables
  BY RecentIs, KeysAre DEF Pruned, Tables
<1>3. Recent(table[k], Window[k], at) = Recent(c[k], Window[k], at)
  BY DEF Recent, Matches
<1>4. ASSUME NEW j \in Keys, NEW time \in Times, at - time < Window[j]
      PROVE  pruned[j][time] = c[j][time]
  BY <1>1, <1>4 DEF Recent, Matches
<1> HIDE DEF pruned
<1>5. Matches(pruned, c, at)
  BY <1>4 DEF Matches
<1> QED
  BY <1>1, <1>2, <1>3, <1>5 DEF pruned

\* Nor does the sweep of _record.
LEMMA RecordedMatches ==
    ASSUME NEW table \in Tables, NEW c \in Tables, NEW at \in Times, NEW k \in Keys,
           Matches(table, c, at)
    PROVE  /\ Recorded(table, k, at) \in Tables
           /\ Matches(Recorded(table, k, at), Counting(c, {k}, at), at)
<1> DEFINE longest == IF LoginWindow > SignupWindow THEN LoginWindow ELSE SignupWindow
           swept == [j \in Keys |-> Recent(table[j], longest, at)]
           kept == IF Cardinality(Present(table)) > MaxKeys THEN swept ELSE table
           new == [kept EXCEPT ![k] = Add(@, at)]
<1>1. longest \in Nat /\ \A j \in Keys : Window[j] <= longest
  BY KeysAre, RateLimitAssumption
<1>2. swept \in Tables
  BY <1>1, RecentIs DEF Tables
<1>3. ASSUME NEW j \in Keys, NEW time \in Times, at - time < Window[j]
      PROVE  swept[j][time] = table[j][time]
  <2>1. at - time < longest
    BY <1>1, <1>3, KeysAre, TimesAre
  <2> QED
    BY <2>1 DEF Recent
<1> HIDE DEF swept, longest
<1>4. kept \in Tables
  BY <1>2
<1>5. ASSUME NEW j \in Keys, NEW time \in Times, at - time < Window[j]
      PROVE  kept[j][time] = c[j][time]
  BY <1>3, <1>5 DEF Matches
<1>6. Recorded(table, k, at) = new
  BY DEF Recorded, swept, longest
<1> HIDE DEF kept
<1>7. new \in Tables
  BY <1>4, AddIs DEF Tables
<1>8. ASSUME NEW j \in Keys, NEW time \in Times, at - time < Window[j]
      PROVE  new[j][time] = Counting(c, {k}, at)[j][time]
  <2>1. kept[j] \in [Times -> Nat] /\ c[j] \in [Times -> Nat]
    BY <1>4 DEF Tables
  <2>2. CASE j = k
    <3>1. new[j] = Add(kept[j], at) /\ Counting(c, {k}, at)[j] = Add(c[j], at)
      BY <1>4, <2>2 DEF Counting, Tables
    <3> QED
      BY <1>5, <1>8, <2>1, <3>1 DEF Add
  <2>3. CASE j # k
    BY <1>4, <1>5, <1>8, <2>3 DEF Counting, Tables
  <2> QED
    BY <2>2, <2>3
<1> HIDE DEF new
<1> QED
  BY <1>6, <1>7, <1>8 DEF Matches

-----------------------------------------------------------------------------

LEMMA VerifyingIs ==
    \A email \in Emails : /\ IsFiniteSet(Verifying(email))
                          /\ Cardinality(Verifying(email)) \in Nat
                          /\ Cardinality(Verifying(email)) <= Cardinality(Logins)
                          /\ Cardinality(Logins) \in Nat
BY RateLimitAssumption, FS_Subset, FS_CardinalityType DEF Verifying

LEMMA VerifyingNext ==
    \A email \in Emails : /\ IsFiniteSet(Verifying(email)')
                          /\ Cardinality(Verifying(email)') \in Nat
                          /\ Cardinality(Verifying(email)') <= Cardinality(Logins)
BY RateLimitAssumption, FS_Subset, FS_CardinalityType DEF Verifying

LEMMA UsedNow == AttemptsInv => \A k \in Keys : Used(counted, k, now) \in Nat
<1> SUFFICES ASSUME AttemptsInv, NEW k \in Keys PROVE Used(counted, k, now) \in Nat
  OBVIOUS
<1>1. counted \in Tables /\ now \in Times /\ now <= now
  BY TimesAre DEF AttemptsInv, RateTypeOK, Tables
<1> QED
  BY <1>1, UsedLater

LEMMA InitAttempts == RateInit => AttemptsInv
<1> SUFFICES ASSUME RateInit PROVE AttemptsInv
  OBVIOUS
<1>1. now = 0 /\ now \in Times /\ hits \in Tables /\ counted = hits
      /\ \A k \in Keys : counted[k] = None
  BY RateLimitAssumption DEF RateInit, Tables, None, Times
<1>2. \A k \in Keys : Used(counted, k, now) = 0
  <2> SUFFICES ASSUME NEW k \in Keys PROVE Used(counted, k, now) = 0
    OBVIOUS
  <2>1. Recent(counted[k], Window[k], now) = None
    BY <1>1 DEF Recent, None
  <2>2. None \in [Times -> Nat] /\ \A time \in Times : None[time] = 0
    BY DEF None
  <2>3. SumFunction(None) = 0
    BY <2>2, TotalIs, SumOfZeros, TimesAre
  <2> QED
    BY <2>1, <2>3 DEF Used
<1>3. \A email \in Emails : Verifying(email) = {}
  BY RateLimitAssumption DEF RateInit, Verifying
<1>4. RateTypeOK
  BY <1>1, RateLimitAssumption DEF RateInit, RateTypeOK, Tables
<1>5. Matches(hits, counted, now)
  BY <1>1 DEF Matches
<1>6. \A k \in Keys : Used(counted, k, now) <= MaxHits[k]
  BY <1>2, KeysAre
<1>7. \A email \in Emails :
         Used(counted, <<"login:fail", email>>, now) + Cardinality(Verifying(email))
            < MaxHits[<<"login:fail", email>>] + Cardinality(Logins)
  <2> SUFFICES ASSUME NEW email \in Emails
               PROVE  Used(counted, <<"login:fail", email>>, now) + Cardinality(Verifying(email))
                         < MaxHits[<<"login:fail", email>>] + Cardinality(Logins)
    OBVIOUS
  <2>1. PICK k \in Keys : k = <<"login:fail", email>>
    BY KeysAre
  <2>2. Used(counted, k, now) = 0 /\ MaxHits[k] \in Nat \ {0}
    BY <1>2, KeysAre
  <2>3. Cardinality(Verifying(email)) = 0 /\ Cardinality(Logins) \in Nat
    BY <1>3, FS_EmptySet, VerifyingIs
  <2> QED
    BY <2>1, <2>2, <2>3
<1> QED
  BY <1>4, <1>5, <1>6, <1>7 DEF AttemptsInv

\* A step that counts at most one hit for each of ks, each of which had room for it.
LEMMA CountsStep ==
    ASSUME AttemptsInv, RateTypeOK', Matches(hits, counted, now)', NEW ks,
           \A k \in Keys : /\ Used(counted, k, now)' \in Nat
                           /\ Used(counted, k, now)' <= Used(counted, k, now) + (IF k \in ks THEN 1 ELSE 0)
                           /\ k[1] # "login:fail" /\ k \in ks => Used(counted, k, now) < MaxHits[k],
           \A email \in Emails :
              \/ <<"login:fail", email>> \notin ks /\ Verifying(email)' \subseteq Verifying(email)
              \/ /\ <<"login:fail", email>> \notin ks
                 /\ Used(counted, <<"login:fail", email>>, now) < MaxHits[<<"login:fail", email>>]
              \/ Cardinality(Verifying(email)') = Cardinality(Verifying(email)) - 1
    PROVE  AttemptsInv'
<1>1. \A k \in Keys : Used(counted, k, now) \in Nat
  BY UsedNow
<1>2. \A k \in Keys : k[1] # "login:fail" => Used(counted, k, now)' <= MaxHits[k]
  BY <1>1, KeysAre DEF AttemptsInv
<1>3. ASSUME NEW email \in Emails
      PROVE  Used(counted, <<"login:fail", email>>, now)' + Cardinality(Verifying(email)')
                < MaxHits[<<"login:fail", email>>] + Cardinality(Logins)
  <2> DEFINE k == <<"login:fail", email>>
  <2>0. k \in Keys
    BY KeysAre
  <2>1. PICK u \in Nat, v \in Nat : u = Used(counted, k, now) /\ v = Used(counted, k, now)'
    BY <1>1, <2>0
  <2>2. v <= u + (IF k \in ks THEN 1 ELSE 0)
    BY <2>0, <2>1
  <2>3. u + Cardinality(Verifying(email)) < MaxHits[k] + Cardinality(Logins)
    BY <2>1 DEF AttemptsInv
  <2>4. MaxHits[k] \in Nat \ {0}
    BY <2>0, KeysAre
  <2>5. CASE k \notin ks /\ Verifying(email)' \subseteq Verifying(email)
    <3>1. Cardinality(Verifying(email)') <= Cardinality(Verifying(email))
      BY <2>5, VerifyingIs, FS_Subset
    <3> QED
      BY <2>1, <2>2, <2>3, <2>4, <2>5, <3>1, VerifyingIs, VerifyingNext
  <2>6. CASE k \notin ks /\ u < MaxHits[k]
    BY <2>1, <2>2, <2>4, <2>6, VerifyingIs, VerifyingNext
  <2>7. CASE Cardinality(Verifying(email)') = Cardinality(Verifying(email)) - 1
    BY <2>1, <2>2, <2>3, <2>4, <2>7, VerifyingIs, VerifyingNext
  <2> QED
    BY <2>1, <2>5, <2>6, <2>7
<1> QED
  BY <1>2, <1>3 DEF AttemptsInv

\* A step in which time may pass, and a hit is counted for each of ks.
LEMMA CountedNow ==
    ASSUME AttemptsInv, now' \in Times, now <= now', NEW ks,
           counted' = Counting(counted, ks, now')
    PROVE  /\ counted' \in Tables
           /\ \A k \in Keys :
                 /\ Used(counted, k, now)' \in Nat
                 /\ Used(counted, k, now)' <= Used(counted, k, now) + (IF k \in ks THEN 1 ELSE 0)
<1>1. counted \in Tables /\ now \in Times
  BY DEF AttemptsInv, RateTypeOK, Tables
<1>2. counted' \in Tables
  BY <1>1, CountingIs
<1>3. ASSUME NEW k \in Keys
      PROVE  /\ Used(counted', k, now') \in Nat
             /\ Used(counted', k, now') <= Used(counted, k, now) + (IF k \in ks THEN 1 ELSE 0)
  <2>1. /\ Used(counted, k, now) \in Nat /\ Used(counted, k, now') \in Nat
        /\ Used(counted, k, now') <= Used(counted, k, now)
    BY <1>1, UsedLater
  <2>2. Used(counted', k, now') = IF k \in ks THEN Used(counted, k, now') + 1 ELSE Used(counted, k, now')
    BY <1>1, UsedAdds
  <2> QED
    BY <2>1, <2>2
<1> QED
  BY <1>2, <1>3

\* A step that counts nothing: what was counted stays, or is forgotten.
LEMMA NoneCounted ==
    ASSUME AttemptsInv, RateTypeOK', Matches(hits, counted, now)',
           \A k \in Keys : Used(counted, k, now)' \in Nat /\ Used(counted, k, now)' <= Used(counted, k, now),
           \A email \in Emails : Verifying(email)' \subseteq Verifying(email)
    PROVE  AttemptsInv'
<1>1. PICK ks : ks = {}
  OBVIOUS
<1>2. \A k \in Keys : /\ Used(counted, k, now)' \in Nat
                      /\ Used(counted, k, now)' <= Used(counted, k, now) + (IF k \in ks THEN 1 ELSE 0)
                      /\ k[1] # "login:fail" /\ k \in ks => Used(counted, k, now) < MaxHits[k]
  BY <1>1, UsedNow
<1>3. \A email \in Emails : <<"login:fail", email>> \notin ks
  BY <1>1
<1> QED
  BY <1>2, <1>3, CountsStep

\* A step in which time may pass and nothing is counted.
LEMMA NotCounted ==
    ASSUME AttemptsInv, now' \in Times, now <= now', counted' = counted,
           hits' \in Tables, Matches(hits', counted, now),
           verifying' \in [Logins -> Emails \cup {Nobody}],
           \A email \in Emails : Verifying(email)' \subseteq Verifying(email)
    PROVE  AttemptsInv'
<1>1. counted \in Tables /\ now \in Times
  BY DEF AttemptsInv, RateTypeOK, Tables
<1>3. RateTypeOK'
  BY <1>1 DEF RateTypeOK, Tables
<1>4. Matches(hits, counted, now)'
  BY <1>1, MatchesLater
<1>5. \A k \in Keys : Used(counted, k, now)' \in Nat /\ Used(counted, k, now)' <= Used(counted, k, now)
  BY <1>1, UsedLater
<1> QED
  BY <1>3, <1>4, <1>5, NoneCounted

LEMMA TickHolds == ASSUME AttemptsInv, Tick PROVE AttemptsInv'
<1>1. now' \in Times /\ now <= now'
  BY RateLimitAssumption DEF Tick, AttemptsInv, RateTypeOK, Times
<1> QED
  BY <1>1, NotCounted DEF Tick, AttemptsInv, RateTypeOK, Tables, Verifying

LEMMA RestartHolds == ASSUME AttemptsInv, Restart PROVE AttemptsInv'
<1>1. hits' = counted' /\ counted' = [k \in Keys |-> None] /\ now' = now
      /\ verifying' = [t \in Logins |-> Nobody]
  BY DEF Restart
<1>2. None \in [Times -> Nat] /\ \A time \in Times : None[time] = 0
  BY DEF None
<1>3. RateTypeOK' /\ Matches(hits, counted, now)' /\ counted' \in Tables /\ counted \in Tables /\ now \in Times
  BY <1>1, <1>2 DEF AttemptsInv, RateTypeOK, Matches, Tables
<1>4. \A k \in Keys : Used(counted', k, now') = 0 /\ Used(counted, k, now) \in Nat
  <2> SUFFICES ASSUME NEW k \in Keys PROVE Used(counted', k, now') = 0 /\ Used(counted, k, now) \in Nat
    OBVIOUS
  <2>1. Recent(counted'[k], Window[k], now') = None
    BY <1>1 DEF Recent, None
  <2>2. SumFunction(None) = 0
    BY <1>2, TotalIs, SumOfZeros, TimesAre
  <2> QED
    BY <1>3, <2>1, <2>2, UsedLater, TimesAre DEF Used
<1>5. \A email \in Emails : Verifying(email)' \subseteq Verifying(email)
  BY <1>1, RateLimitAssumption DEF Verifying
<1>6. \A k \in Keys : Used(counted, k, now)' \in Nat /\ Used(counted, k, now)' <= Used(counted, k, now)
  BY <1>4
<1> QED
  BY <1>3, <1>5, <1>6, NoneCounted

LEMMA AbortedHolds == ASSUME AttemptsInv, NEW t \in Logins, LoginAborted(t) PROVE AttemptsInv'
<1>1. /\ now' \in Times /\ now <= now' /\ counted' = counted /\ hits' \in Tables
      /\ Matches(hits', counted, now)
  BY TimesAre DEF LoginAborted, AttemptsInv, RateTypeOK, Tables
<1>2. /\ verifying' \in [Logins -> Emails \cup {Nobody}]
      /\ \A email \in Emails : Verifying(email)' \subseteq Verifying(email)
  BY RateLimitAssumption DEF LoginAborted, AttemptsInv, RateTypeOK, Verifying
<1> QED
  BY <1>1, <1>2, NotCounted

LEMMA FailedHolds == ASSUME AttemptsInv, NEW t \in Logins, LoginFailed(t) PROVE AttemptsInv'
<1>1. PICK email \in Emails : email = verifying[t]
  BY DEF LoginFailed, AttemptsInv, RateTypeOK
<1> DEFINE fail == <<"login:fail", email>>
<1>2. /\ hits' = Recorded(hits, fail, now) /\ counted' = Counting(counted, {fail}, now)
      /\ verifying' = [verifying EXCEPT ![t] = Nobody] /\ now' = now /\ now \in Times /\ now <= now
      /\ hits \in Tables /\ counted \in Tables /\ verifying \in [Logins -> Emails \cup {Nobody}]
  BY <1>1, TimesAre DEF LoginFailed, Count, Counting, AttemptsInv, RateTypeOK, Tables
<1>3. fail \in Keys
  BY KeysAre
<1>4. hits' \in Tables /\ Matches(hits, counted, now)'
  BY <1>2, <1>3, RecordedMatches DEF AttemptsInv
<1>5. /\ counted' \in Tables
      /\ \A k \in Keys :
            /\ Used(counted, k, now)' \in Nat
            /\ Used(counted, k, now)' <= Used(counted, k, now) + (IF k \in {fail} THEN 1 ELSE 0)
  BY <1>2, CountedNow
<1>6. RateTypeOK'
  BY <1>2, <1>4, <1>5 DEF RateTypeOK, Tables
<1>7. ASSUME NEW other \in Emails, other # email
      PROVE  <<"login:fail", other>> \notin {fail} /\ Verifying(other)' \subseteq Verifying(other)
  BY <1>1, <1>2, <1>7, RateLimitAssumption DEF Verifying
<1>8. Cardinality(Verifying(email)') = Cardinality(Verifying(email)) - 1
  <2>1. Verifying(email)' = Verifying(email) \ {t} /\ t \in Verifying(email)
    BY <1>1, <1>2, RateLimitAssumption DEF Verifying
  <2> QED
    BY <2>1, VerifyingIs, FS_RemoveElement
<1>9. \A k \in Keys : k[1] # "login:fail" => k \notin {fail}
  OBVIOUS
<1> QED
  BY <1>4, <1>5, <1>6, <1>7, <1>8, <1>9, CountsStep

LEMMA SucceededHolds == ASSUME AttemptsInv, NEW t \in Logins, LoginSucceeded(t) PROVE AttemptsInv'
<1>1. PICK email \in Emails : email = verifying[t]
  BY DEF LoginSucceeded, AttemptsInv, RateTypeOK
<1> DEFINE fail == <<"login:fail", email>>
<1>2. /\ hits' = [hits EXCEPT ![fail] = None] /\ counted' = [counted EXCEPT ![fail] = None]
      /\ verifying' = [verifying EXCEPT ![t] = Nobody] /\ now' = now /\ now \in Times
      /\ hits \in Tables /\ counted \in Tables /\ verifying \in [Logins -> Emails \cup {Nobody}]
  BY <1>1 DEF LoginSucceeded, AttemptsInv, RateTypeOK, Tables
<1>3. None \in [Times -> Nat] /\ \A time \in Times : None[time] = 0
  BY DEF None
<1>4. hits' \in Tables /\ counted' \in Tables
  BY <1>2, <1>3 DEF Tables
<1>5. Matches(hits, counted, now)'
  BY <1>2, KeysAre DEF Matches, AttemptsInv, Tables
<1>6. RateTypeOK'
  BY <1>2, <1>4 DEF RateTypeOK, Tables
<1>7. ASSUME NEW k \in Keys
      PROVE  Used(counted', k, now) \in Nat /\ Used(counted', k, now) <= Used(counted, k, now)
  <2>1. Used(counted, k, now) \in Nat /\ Used(counted', k, now) \in Nat
    BY <1>2, <1>4, UsedLater, TimesAre
  <2>2. CASE k = fail
    <3>1. Recent(counted'[k], Window[k], now) = None
      BY <1>2, <2>2, KeysAre DEF Recent, None, Tables
    <3>2. SumFunction(None) = 0
      BY <1>3, TotalIs, SumOfZeros, TimesAre
    <3> QED
      BY <2>1, <3>1, <3>2 DEF Used
  <2>3. CASE k # fail
    <3>1. Used(counted', k, now) = Used(counted, k, now)
      BY <1>2, <2>3 DEF Used, Tables
    <3> QED
      BY <2>1, <3>1
  <2> QED
    BY <2>2, <2>3
<1>8. \A k \in Keys : Used(counted, k, now)' \in Nat /\ Used(counted, k, now)' <= Used(counted, k, now)
  BY <1>2, <1>7
<1>9. \A other \in Emails : Verifying(other)' \subseteq Verifying(other)
  BY <1>1, <1>2, RateLimitAssumption DEF Verifying
<1> QED
  BY <1>5, <1>6, <1>8, <1>9, NoneCounted

\* The check of a key leaves what counts for it, if the key was not pruned yet.
LEMMA RoomIs ==
    ASSUME NEW table \in Tables, NEW c \in Tables, NEW at \in Times, NEW k \in Keys,
           Matches(table, c, at)
    PROVE  HasRoom(Pruned(table, k, Window[k], at), k) => Used(c, k, at) < MaxHits[k]
BY PrunedMatches DEF HasRoom, Used

LEMMA CheckLoginHolds ==
    ASSUME AttemptsInv, NEW t \in Logins, NEW ip \in Ips, NEW email \in Emails,
           NEW later \in Times, CheckLogin(t, ip, email, later)
    PROVE  AttemptsInv'
<1> DEFINE fail == <<"login:fail", email>>
           addr == <<"login:ip", ip>>
           first == Pruned(hits, fail, Window[fail], now)
           both == Pruned(first, addr, Window[addr], now)
<1>1. fail \in Keys /\ addr \in Keys
  BY KeysAre
<1>2. /\ now' = later /\ now' \in Times /\ now <= now' /\ now \in Times /\ now <= now
      /\ hits \in Tables /\ counted \in Tables /\ verifying \in [Logins -> Emails \cup {Nobody}]
      /\ verifying[t] = Nobody
  BY TimesAre DEF CheckLogin, Until, AttemptsInv, RateTypeOK, Tables
<1>3. first \in Tables /\ Matches(first, counted, now)
  BY <1>1, <1>2, PrunedMatches DEF AttemptsInv
<1>4. HasRoom(first, fail) => Used(counted, fail, now) < MaxHits[fail]
  BY <1>1, <1>2, RoomIs DEF AttemptsInv
<1> HIDE DEF first
<1>5. both \in Tables /\ Matches(both, counted, now)
  BY <1>1, <1>2, <1>3, PrunedMatches
<1> HIDE DEF both
<1>6. \/ hits' \in {first, both} /\ UNCHANGED <<verifying, counted>>
      \/ /\ HasRoom(first, fail) /\ HasRoom(both, addr)
         /\ hits' = Recorded(both, addr, later)
         /\ verifying' = [verifying EXCEPT ![t] = email]
         /\ counted' = Counting(counted, {addr}, later)
  BY DEF CheckLogin, Count, Counting, first, both
<1>7. CASE hits' \in {first, both} /\ UNCHANGED <<verifying, counted>>
  BY <1>2, <1>3, <1>5, <1>7, NotCounted DEF Verifying
<1>8. CASE /\ HasRoom(first, fail) /\ HasRoom(both, addr)
           /\ hits' = Recorded(both, addr, later)
           /\ verifying' = [verifying EXCEPT ![t] = email]
           /\ counted' = Counting(counted, {addr}, later)
  <2>1. Used(counted, addr, now) < MaxHits[addr]
    BY <1>1, <1>2, <1>3, <1>8, RoomIs DEF both
  <2>2. Matches(both, counted, later)
    BY <1>2, <1>5, MatchesLater
  <2>3. hits' \in Tables /\ Matches(hits, counted, now)'
    BY <1>1, <1>2, <1>5, <1>8, <2>2, RecordedMatches
  <2>4. /\ counted' \in Tables
        /\ \A k \in Keys :
              /\ Used(counted, k, now)' \in Nat
              /\ Used(counted, k, now)' <= Used(counted, k, now) + (IF k \in {addr} THEN 1 ELSE 0)
    BY <1>2, <1>8, CountedNow
  <2>5. RateTypeOK'
    BY <1>2, <1>8, <2>3, <2>4 DEF RateTypeOK, Tables
  <2>6. \A k \in Keys : k[1] # "login:fail" /\ k \in {addr} => Used(counted, k, now) < MaxHits[k]
    BY <2>1
  <2>7. ASSUME NEW other \in Emails
        PROVE  /\ <<"login:fail", other>> \notin {addr}
               /\ \/ Verifying(other)' \subseteq Verifying(other)
                  \/ Used(counted, <<"login:fail", other>>, now) < MaxHits[<<"login:fail", other>>]
    <3>1. <<"login:fail", other>> # addr
      OBVIOUS
    <3>2. CASE other = email
      BY <1>4, <1>8, <3>1, <3>2
    <3>3. CASE other # email
      BY <1>2, <1>8, <3>1, <3>3 DEF Verifying
    <3> QED
      BY <3>2, <3>3
  <2> HIDE DEF addr
  <2> QED
    BY <2>3, <2>4, <2>5, <2>6, <2>7, CountsStep
<1> QED
  BY <1>6, <1>7, <1>8

LEMMA CheckSignupHolds ==
    ASSUME AttemptsInv, NEW ip \in Ips, NEW email \in Emails,
           NEW later \in Times, CheckSignup(ip, email, later)
    PROVE  AttemptsInv'
<1> DEFINE addr == <<"signup:ip", ip>>
           mail == <<"signup:email", email>>
           first == Pruned(hits, addr, Window[addr], now)
           both == Pruned(first, mail, Window[mail], now)
<1>1. addr \in Keys /\ mail \in Keys /\ addr # mail
  BY KeysAre
<1>2. /\ now' = later /\ now' \in Times /\ now <= now' /\ now \in Times /\ now <= now
      /\ hits \in Tables /\ counted \in Tables /\ verifying \in [Logins -> Emails \cup {Nobody}]
      /\ verifying' = verifying
  BY TimesAre DEF CheckSignup, Until, AttemptsInv, RateTypeOK, Tables
<1>3. first \in Tables /\ Matches(first, counted, now)
  BY <1>1, <1>2, PrunedMatches DEF AttemptsInv
<1>4. HasRoom(first, addr) => Used(counted, addr, now) < MaxHits[addr]
  BY <1>1, <1>2, RoomIs DEF AttemptsInv
<1> HIDE DEF first
<1>5. both \in Tables /\ Matches(both, counted, now)
  BY <1>1, <1>2, <1>3, PrunedMatches
<1> HIDE DEF both
<1>6. \/ hits' \in {first, both} /\ counted' = counted
      \/ /\ HasRoom(first, addr) /\ HasRoom(both, mail)
         /\ hits' = Recorded(Recorded(both, addr, later), mail, later)
         /\ counted' = Counting(counted, {addr, mail}, later)
  BY DEF CheckSignup, Count, Counting, first, both
<1>7. CASE hits' \in {first, both} /\ counted' = counted
  BY <1>2, <1>3, <1>5, <1>7, NotCounted DEF Verifying
<1>8. CASE /\ HasRoom(first, addr) /\ HasRoom(both, mail)
           /\ hits' = Recorded(Recorded(both, addr, later), mail, later)
           /\ counted' = Counting(counted, {addr, mail}, later)
  <2>1. Used(counted, mail, now) < MaxHits[mail]
    BY <1>1, <1>2, <1>3, <1>8, RoomIs DEF both
  <2>2. Matches(both, counted, later)
    BY <1>2, <1>5, MatchesLater
  <2>3. PICK c \in Tables : c = Counting(counted, {addr}, later)
    BY <1>2, CountingIs
  <2>4. PICK table \in Tables : table = Recorded(both, addr, later) /\ Matches(table, c, later)
    BY <1>1, <1>2, <1>5, <2>2, <2>3, RecordedMatches
  <2>5. hits' \in Tables /\ Matches(hits', Counting(c, {mail}, later), later)
    BY <1>1, <1>8, <2>4, RecordedMatches
  <2>6. counted' = Counting(c, {mail}, later)
    BY <1>1, <1>8, <2>3 DEF Counting
  <2>7. /\ counted' \in Tables
        /\ \A k \in Keys :
              /\ Used(counted, k, now)' \in Nat
              /\ Used(counted, k, now)' <= Used(counted, k, now) + (IF k \in {addr, mail} THEN 1 ELSE 0)
    BY <1>2, <1>8, CountedNow
  <2>8. RateTypeOK' /\ Matches(hits, counted, now)'
    BY <1>2, <2>5, <2>6, <2>7 DEF RateTypeOK, Tables
  <2>9. \A k \in Keys : k[1] # "login:fail" /\ k \in {addr, mail} => Used(counted, k, now) < MaxHits[k]
    BY <1>4, <1>8, <2>1
  <2>10. ASSUME NEW other \in Emails
         PROVE  <<"login:fail", other>> \notin {addr, mail} /\ Verifying(other)' \subseteq Verifying(other)
    BY <1>2 DEF Verifying
  <2> HIDE DEF addr, mail
  <2> QED
    BY <2>7, <2>8, <2>9, <2>10, CountsStep
<1> QED
  BY <1>6, <1>7, <1>8

LEMMA AttemptsStep == AttemptsInv /\ [RateNext]_rateVars => AttemptsInv'
<1> SUFFICES ASSUME AttemptsInv, [RateNext]_rateVars PROVE AttemptsInv'
  OBVIOUS
<1>1. CASE UNCHANGED rateVars
  BY <1>1 DEF rateVars, AttemptsInv, RateTypeOK, Matches, Used, Verifying
<1> QED
  BY <1>1, TickHolds, RestartHolds, CheckSignupHolds, CheckLoginHolds, FailedHolds,
     SucceededHolds, AbortedHolds DEF RateNext

\* What holds of the table, the history and the requests at every moment
THEOREM AttemptsInvariance == RateSpec => []AttemptsInv
BY InitAttempts, AttemptsStep, PTL DEF RateSpec

\* The variables of the limiter, _hits among them, stay within their types.
THEOREM RateTypeCorrect == RateSpec => []RateTypeOK
BY AttemptsInvariance, PTL DEF AttemptsInv

\* What a check counts is what was let through in the window that ends then.
THEOREM CountsExactly == RateSpec => []CountsAreExact
<1>1. AttemptsInv => CountsAreExact
  <2> SUFFICES ASSUME AttemptsInv, NEW k \in Keys
               PROVE  Pruned(hits, k, Window[k], now)[k] = Recent(counted[k], Window[k], now)
    BY DEF CountsAreExact
  <2>1. hits \in Tables /\ counted \in Tables /\ now \in Times /\ Matches(hits, counted, now)
    BY DEF AttemptsInv, RateTypeOK, Tables
  <2> QED
    BY <2>1, PrunedMatches
<1> QED
  BY <1>1, AttemptsInvariance, PTL

\* No window holds more logins or signups of an address, or signups of an email, than
\* the limit of check_login and check_signup, and the failures of an email exceed
\* theirs by less than the number of requests.
THEOREM WithinLimits == RateSpec => []LimitsHold
<1>1. AttemptsInv => LimitsHold
  <2> SUFFICES ASSUME AttemptsInv PROVE LimitsHold
    OBVIOUS
  <2>1. \A k \in IpKeys \cup ({"signup:email"} \X Emails) : k \in Keys /\ k[1] # "login:fail"
    BY DEF Keys, IpKeys, EmailKeys
  <2>2. \A k \in IpKeys \cup ({"signup:email"} \X Emails) : InWindow(k) <= MaxHits[k]
    BY <2>1 DEF AttemptsInv, InWindow, Used
  <2>3. ASSUME NEW k \in {"login:fail"} \X Emails
        PROVE  InWindow(k) < MaxHits[k] + Cardinality(Logins)
    <3>1. PICK email \in Emails : k = <<"login:fail", email>>
      OBVIOUS
    <3>2. k \in Keys
      BY <3>1, KeysAre
    <3>3. PICK u \in Nat : u = InWindow(k)
      BY <3>2, UsedNow DEF InWindow, Used
    <3>4. u + Cardinality(Verifying(email)) < MaxHits[k] + Cardinality(Logins)
      BY <3>1, <3>3 DEF AttemptsInv, InWindow, Used
    <3>5. MaxHits[k] \in Nat /\ Cardinality(Verifying(email)) \in Nat /\ Cardinality(Logins) \in Nat
      BY <3>2, KeysAre, VerifyingIs
    <3> QED
      BY <3>3, <3>4, <3>5
  <2> QED
    BY <2>2, <2>3 DEF LimitsHold
<1> QED
  BY <1>1, AttemptsInvariance, PTL
=============================================================================
