------------------------------ MODULE HttpProofs ------------------------------
(***************************************************************************)
(* Proofs about WsgiEntry, BodyLimit and their composition Http, for any    *)
(* number of processes and threads and for any limit.  A thread that is     *)
(* given a wrapper knows that it is of its own process, because a stamp     *)
(* cannot be inherited (ProcessHolds); and what the client has got follows  *)
(* from where the two tasks of the request are (WireHolds).                 *)
(***************************************************************************)
EXTENDS Http, SequenceTheorems, TLAPS

\* What the variables of a process say of each other.  A stamp that is the process's
\* own is proof that it built the wrapper; a process builds at most one.
ProcessHolds(p) ==
    /\ wrapper_pid[p] \in alive \cup {NoProcess}
    /\ p \notin alive => built[p] = 0 /\ \A t \in Threads : pc[p][t] = "idle"
    /\ wrapper_pid[p] = p => wrapper[p] = p
    /\ built[p] <= 1
    /\ built[p] = 1 => /\ wrapper[p] = p
                       /\ wrapper_pid[p] = p \/ \E t \in Threads : pc[p][t] = "stamp"

\* What each place in the code knows.
ThreadHolds(p, t) ==
    /\ pc[p][t] = "build" => built[p] = 0
    /\ pc[p][t] = "stamp" => wrapper[p] = p
    /\ pc[p][t] = "return" => wrapper_pid[p] = p
    /\ pc[p][t] = "serve" => used[p][t] = p

WsgiInv == /\ TypeOK
           /\ \A p \in Processes : ProcessHolds(p)
           /\ \A p \in Processes, t \in Threads : ThreadHolds(p, t)
-----------------------------------------------------------------------------

LEMMA WsgiInit == Init => WsgiInv
<1> SUFFICES ASSUME Init PROVE WsgiInv
  OBVIOUS
<1>1. \A p \in Processes, t \in Threads : pc[p][t] = "idle"
  BY DEF Init
<1>2. TypeOK
  BY <1>1, WsgiAssumption DEF Init, TypeOK
<1> QED
  BY <1>1, <1>2, WsgiAssumption DEF Init, WsgiInv, ProcessHolds, ThreadHolds

LEMMA ForkHolds ==
    ASSUME WsgiInv, NEW p \in Processes, NEW q \in Processes, Fork(p, q) PROVE WsgiInv'
<1>1. TypeOK'
  BY WsgiAssumption DEF WsgiInv, TypeOK, Fork, ForkedLock, ProcessHolds
<1>2. ASSUME NEW r \in Processes PROVE ProcessHolds(r)'
  BY WsgiAssumption DEF WsgiInv, TypeOK, Fork, ProcessHolds
<1>3. ASSUME NEW r \in Processes, NEW t \in Threads PROVE ThreadHolds(r, t)'
  BY WsgiAssumption DEF WsgiInv, TypeOK, Fork, ProcessHolds, ThreadHolds
<1> QED
  BY <1>1, <1>2, <1>3 DEF WsgiInv

\* A thread that goes on, and what it changes of its own process.
LEMMA ThreadStep ==
    ASSUME WsgiInv, NEW p \in Processes, NEW t \in Threads,
           ReadWrapper(p, t) \/ GetWrapper(p, t) \/ Serve(p, t)
    PROVE  WsgiInv'
<1>1. CASE ReadWrapper(p, t)
  <2>1. TypeOK'
    BY <1>1, WsgiAssumption DEF WsgiInv, TypeOK, ReadWrapper, At, Goto
  <2>2. ASSUME NEW r \in Processes PROVE ProcessHolds(r)'
    BY <1>1, WsgiAssumption DEF WsgiInv, TypeOK, ReadWrapper, At, Goto, ProcessHolds, ThreadHolds
  <2>3. ASSUME NEW r \in Processes, NEW u \in Threads PROVE ThreadHolds(r, u)'
    BY <1>1, WsgiAssumption DEF WsgiInv, TypeOK, ReadWrapper, At, Goto, ProcessHolds, ThreadHolds
  <2> QED
    BY <2>1, <2>2, <2>3 DEF WsgiInv
<1>2. CASE ReadPid(p, t)
  <2>1. TypeOK'
    BY <1>2, WsgiAssumption DEF WsgiInv, TypeOK, ReadPid, At, Goto, IsOwn
  <2>2. ASSUME NEW r \in Processes PROVE ProcessHolds(r)'
    BY <1>2, WsgiAssumption DEF WsgiInv, TypeOK, ReadPid, At, Goto, IsOwn, ProcessHolds, ThreadHolds
  <2>3. ASSUME NEW r \in Processes, NEW u \in Threads PROVE ThreadHolds(r, u)'
    BY <1>2, WsgiAssumption DEF WsgiInv, TypeOK, ReadPid, At, Goto, IsOwn, ProcessHolds, ThreadHolds
  <2> QED
    BY <2>1, <2>2, <2>3 DEF WsgiInv
<1>3. CASE Acquire(p, t)
  <2>0. /\ lock[p] = NoThread /\ pc[p][t] = "lock" /\ p \in alive
        /\ UNCHANGED <<alive, wrapper, wrapper_pid, used, built, failures>>
    BY <1>3 DEF Acquire, At
  <2>1. \A u \in Threads : pc[p][u] \notin {"build", "stamp"}
    BY <2>0, WsgiAssumption DEF WsgiInv, TypeOK
  <2>2. CASE Stale(p)
    <3>1. lock' = [lock EXCEPT ![p] = t] /\ pc' = [pc EXCEPT ![p][t] = "build"]
      BY <1>3, <2>2 DEF Acquire, Goto
    <3>2. built[p] = 0
      <4>1. ProcessHolds(p) /\ built[p] \in Nat
        BY DEF WsgiInv, TypeOK
      <4>2. wrapper[p] = NoProcess \/ wrapper_pid[p] # p
        BY <2>2 DEF Stale, IsOwn
      <4>3. built[p] # 1
        BY <2>1, <4>1, <4>2, WsgiAssumption DEF ProcessHolds
      <4> QED
        BY <4>1, <4>3 DEF ProcessHolds
    <3>3. TypeOK'
      BY <2>0, <2>1, <3>1, WsgiAssumption DEF WsgiInv, TypeOK
    <3>4. ASSUME NEW r \in Processes PROVE ProcessHolds(r)'
      BY <2>0, <3>1, <3>2 DEF WsgiInv, TypeOK, ProcessHolds
    <3>5. ASSUME NEW r \in Processes, NEW u \in Threads PROVE ThreadHolds(r, u)'
      BY <2>0, <3>1, <3>2 DEF WsgiInv, TypeOK, ThreadHolds
    <3> QED
      BY <3>3, <3>4, <3>5 DEF WsgiInv
  <2>3. CASE ~Stale(p)
    <3>1. lock' = lock /\ pc' = [pc EXCEPT ![p][t] = "return"] /\ wrapper_pid[p] = p
      BY <1>3, <2>3 DEF Acquire, Goto, Stale, IsOwn
    <3>3. TypeOK'
      BY <2>0, <2>1, <3>1, WsgiAssumption DEF WsgiInv, TypeOK
    <3>4. ASSUME NEW r \in Processes PROVE ProcessHolds(r)'
      BY <2>0, <3>1 DEF WsgiInv, TypeOK, ProcessHolds
    <3>5. ASSUME NEW r \in Processes, NEW u \in Threads PROVE ThreadHolds(r, u)'
      BY <2>0, <3>1 DEF WsgiInv, TypeOK, ThreadHolds
    <3> QED
      BY <3>3, <3>4, <3>5 DEF WsgiInv
  <2> QED
    BY <2>2, <2>3
<1>4. CASE Build(p, t)
  <2>1. TypeOK'
    BY <1>4, WsgiAssumption DEF WsgiInv, TypeOK, Build, At, Goto
  <2>2. ASSUME NEW r \in Processes PROVE ProcessHolds(r)'
    BY <1>4, WsgiAssumption DEF WsgiInv, TypeOK, Build, At, Goto, ProcessHolds, ThreadHolds
  <2>3. ASSUME NEW r \in Processes, NEW u \in Threads PROVE ThreadHolds(r, u)'
    BY <1>4, WsgiAssumption DEF WsgiInv, TypeOK, Build, At, Goto, ProcessHolds, ThreadHolds
  <2> QED
    BY <2>1, <2>2, <2>3 DEF WsgiInv
<1>5. CASE BuildFails(p, t)
  <2>1. TypeOK'
    BY <1>5, WsgiAssumption DEF WsgiInv, TypeOK, BuildFails, At, Goto, Released
  <2>2. ASSUME NEW r \in Processes PROVE ProcessHolds(r)'
    BY <1>5, WsgiAssumption DEF WsgiInv, TypeOK, BuildFails, At, Goto, Released, ProcessHolds, ThreadHolds
  <2>3. ASSUME NEW r \in Processes, NEW u \in Threads PROVE ThreadHolds(r, u)'
    BY <1>5, WsgiAssumption DEF WsgiInv, TypeOK, BuildFails, At, Goto, Released, ProcessHolds, ThreadHolds
  <2> QED
    BY <2>1, <2>2, <2>3 DEF WsgiInv
<1>6. CASE Stamp(p, t)
  <2>1. TypeOK'
    BY <1>6, WsgiAssumption DEF WsgiInv, TypeOK, Stamp, At, Goto, Released
  <2>2. ASSUME NEW r \in Processes PROVE ProcessHolds(r)'
    BY <1>6, WsgiAssumption DEF WsgiInv, TypeOK, Stamp, At, Goto, Released, ProcessHolds, ThreadHolds
  <2>3. ASSUME NEW r \in Processes, NEW u \in Threads PROVE ThreadHolds(r, u)'
    BY <1>6, WsgiAssumption DEF WsgiInv, TypeOK, Stamp, At, Goto, Released, ProcessHolds, ThreadHolds
  <2> QED
    BY <2>1, <2>2, <2>3 DEF WsgiInv
<1>7. CASE Return(p, t)
  <2>1. TypeOK'
    BY <1>7, WsgiAssumption DEF WsgiInv, TypeOK, Return, At, Goto
  <2>2. ASSUME NEW r \in Processes PROVE ProcessHolds(r)'
    BY <1>7, WsgiAssumption DEF WsgiInv, TypeOK, Return, At, Goto, ProcessHolds, ThreadHolds
  <2>3. ASSUME NEW r \in Processes, NEW u \in Threads PROVE ThreadHolds(r, u)'
    BY <1>7, WsgiAssumption DEF WsgiInv, TypeOK, Return, At, Goto, ProcessHolds, ThreadHolds
  <2> QED
    BY <2>1, <2>2, <2>3 DEF WsgiInv
<1>8. CASE Serve(p, t)
  <2>1. TypeOK'
    BY <1>8, WsgiAssumption DEF WsgiInv, TypeOK, Serve, At, Goto
  <2>2. ASSUME NEW r \in Processes PROVE ProcessHolds(r)'
    BY <1>8, WsgiAssumption DEF WsgiInv, TypeOK, Serve, At, Goto, ProcessHolds, ThreadHolds
  <2>3. ASSUME NEW r \in Processes, NEW u \in Threads PROVE ThreadHolds(r, u)'
    BY <1>8, WsgiAssumption DEF WsgiInv, TypeOK, Serve, At, Goto, ProcessHolds, ThreadHolds
  <2> QED
    BY <2>1, <2>2, <2>3 DEF WsgiInv
<1> QED
  BY <1>1, <1>2, <1>3, <1>4, <1>5, <1>6, <1>7, <1>8 DEF GetWrapper
-----------------------------------------------------------------------------
(* The middleware.                                                          *)

\* Short sequences, as the provers do not compute them.
LEMMA ShortAppend ==
    ASSUME NEW S, NEW a \in S, NEW b \in S
    PROVE  /\ Append(<<>>, a) = <<a>>
           /\ Append(<<a>>, b) = <<a, b>>
           /\ <<>> \o <<a, b>> = <<a, b>>
<1>1. Append(<<>>, a) = <<a>>
  OBVIOUS
<1>2. Append(<<a>>, b) = <<a, b>>
  <2>1. <<a>> \in Seq(S) /\ <<a, b>> \in Seq(S)
    OBVIOUS
  <2>2. Append(<<a>>, b) \in Seq(S) /\ Len(Append(<<a>>, b)) = 2
    BY <2>1
  <2>3. Append(<<a>>, b)[1] = a /\ Append(<<a>>, b)[2] = b
    BY <2>1
  <2>4. \A i \in 1..2 : Append(<<a>>, b)[i] = <<a, b>>[i]
    BY <2>3
  <2> QED
    BY <2>1, <2>2, <2>4, SeqEqual
<1>3. <<>> \o <<a, b>> = <<a, b>>
  OBVIOUS
<1> QED
  BY <1>1, <1>2, <1>3

LEMMA ShortPrefix ==
    ASSUME NEW a, NEW b
    PROVE  /\ Middleware!IsPrefix(<<>>, <<a, b>>)
           /\ Middleware!IsPrefix(<<a>>, <<a, b>>)
           /\ Middleware!IsPrefix(<<a, b>>, <<a, b>>)
BY DEF Middleware!IsPrefix

LEMMA ShortSet ==
    ASSUME NEW a, NEW b
    PROVE  /\ Middleware!ToSet(<<>>) = {}
           /\ Middleware!ToSet(<<a>>) = {a}
           /\ Middleware!ToSet(<<a, b>>) = {a, b}
BY DEF Middleware!ToSet

AppSays(type) == [from |-> "app", type |-> type]
Says413(type) == [from |-> "413", type |-> type]

\* While nothing is refused, the application's messages follow each other.
AppAnswers ==
    /\ receiving = "idle" /\ ~refused
    /\ \/ response = "none" /\ ~started /\ sending = {} /\ wire = <<>>
       \/ response = "start" /\ started /\ sending = {AppSays("start")} /\ wire = <<>>
       \/ response = "start" /\ started /\ sending = {} /\ wire = <<AppSays("start")>>
       \/ response = "end" /\ started /\ sending = {AppSays("body")} /\ wire = <<AppSays("start")>>
       \/ response = "end" /\ started /\ sending = {} /\ wire = <<AppSays("start"), AppSays("body")>>

\* A refusal begins before the application's response, and nothing comes between its parts.
Refuses ==
    /\ refused /\ ~started /\ sending = {} /\ seen > Limit
    /\ \/ receiving = "start" /\ wire = <<>>
       \/ receiving = "body" /\ wire = <<Says413("start")>>
       \/ receiving = "gone" /\ wire = <<Says413("start"), Says413("body")>>

\* Before the application is called, or instead of it.
NotCalled ==
    /\ ~started /\ ~refused /\ sending = {} /\ response = "none"
    /\ \/ receiving = "called" /\ wire = <<>>
       \/ /\ receiving = "never" /\ Middleware!DeclaredTooBig
          /\ wire = <<Says413("start"), Says413("body")>>

CountHolds ==
    /\ header \in {"absent", "fits", "over", "garbled"}
    /\ seen \in Nat /\ passed \in Nat
    /\ passed <= Limit
    /\ ~started => passed <= seen
    /\ ~started /\ ~refused => passed = seen

RequestInv == CountHolds /\ (NotCalled \/ AppAnswers \/ Refuses)

LEMMA BeginHolds ==
    ASSUME NEW h \in {"absent", "fits", "over", "garbled"}, Middleware!Begin(h)
    PROVE  RequestInv'
BY HttpAssumption
   DEF Middleware!Begin, Middleware!Nothing, RequestInv, CountHolds, NotCalled

LEMMA MiddlewareStep ==
    ASSUME RequestInv, Middleware!Next
    PROVE  RequestInv'
<1>0. \A type \in {"start", "body"} :
         AppSays(type) \in Middleware!Messages /\ Says413(type) \in Middleware!Messages
  BY DEF AppSays, Says413, Middleware!Messages
<1>1. CASE Middleware!RefuseDeclared
  <2>1. NotCalled /\ wire = <<>>
    BY <1>1 DEF RequestInv, Middleware!RefuseDeclared, NotCalled, AppAnswers, Refuses
  <2>2. wire' = <<Says413("start"), Says413("body")>>
    BY <1>0, <1>1, <2>1, ShortAppend DEF Middleware!RefuseDeclared, Says413
  <2>3. NotCalled'
    BY <1>1, <2>1, <2>2 DEF Middleware!RefuseDeclared, NotCalled, Middleware!DeclaredTooBig
  <2>4. CountHolds'
    BY <1>1 DEF RequestInv, CountHolds, Middleware!RefuseDeclared
  <2> QED
    BY <2>3, <2>4 DEF RequestInv
<1>2. CASE Middleware!CallApp
  <2>1. AppAnswers'
    BY <1>2 DEF RequestInv, Middleware!CallApp, NotCalled, AppAnswers, Refuses
  <2>2. CountHolds'
    BY <1>2 DEF RequestInv, CountHolds, Middleware!CallApp
  <2> QED
    BY <2>1, <2>2 DEF RequestInv
<1>3. CASE Middleware!RefuseStart
  <2>1. Refuses /\ wire = <<>>
    BY <1>3 DEF RequestInv, Middleware!RefuseStart, NotCalled, AppAnswers, Refuses
  <2>2. wire' = <<Says413("start")>>
    BY <1>0, <1>3, <2>1, ShortAppend DEF Middleware!RefuseStart, Middleware!Put, Says413
  <2>3. Refuses'
    BY <1>3, <2>1, <2>2 DEF Middleware!RefuseStart, Refuses
  <2>4. CountHolds'
    BY <1>3 DEF RequestInv, CountHolds, Middleware!RefuseStart
  <2> QED
    BY <2>3, <2>4 DEF RequestInv
<1>4. CASE Middleware!RefuseBody
  <2>1. Refuses /\ wire = <<Says413("start")>>
    BY <1>4 DEF RequestInv, Middleware!RefuseBody, NotCalled, AppAnswers, Refuses
  <2>2. wire' = <<Says413("start"), Says413("body")>>
    BY <1>0, <1>4, <2>1, ShortAppend DEF Middleware!RefuseBody, Middleware!Put, Says413
  <2>3. Refuses'
    BY <1>4, <2>1, <2>2 DEF Middleware!RefuseBody, Refuses
  <2>4. CountHolds'
    BY <1>4 DEF RequestInv, CountHolds, Middleware!RefuseBody
  <2> QED
    BY <2>3, <2>4 DEF RequestInv
<1>5. ASSUME NEW size \in 0..MaxChunk, Middleware!Receive(size) PROVE RequestInv'
  <2>0. size \in Nat
    BY HttpAssumption
  <2>1. AppAnswers
    BY <1>5 DEF RequestInv, Middleware!Receive, NotCalled, AppAnswers, Refuses
  <2>2. CASE Middleware!TooBig(size)
    <3>1. Refuses'
      BY <1>5, <2>1, <2>2 DEF Middleware!Receive, Middleware!TooBig, AppAnswers, Refuses
    <3>2. CountHolds'
      BY <1>5, <2>0, <2>2, HttpAssumption
         DEF RequestInv, CountHolds, Middleware!Receive, Middleware!TooBig
    <3> QED
      BY <3>1, <3>2 DEF RequestInv
  <2>3. CASE ~Middleware!TooBig(size)
    <3>1. AppAnswers'
      BY <1>5, <2>1, <2>3 DEF Middleware!Receive, AppAnswers
    <3>2. CountHolds'
      BY <1>5, <2>0, <2>1, <2>3, HttpAssumption
         DEF RequestInv, CountHolds, AppAnswers, Middleware!Receive, Middleware!TooBig
    <3> QED
      BY <3>1, <3>2 DEF RequestInv
  <2> QED
    BY <2>2, <2>3
<1>6. CASE Middleware!GuardedSend
  <2>1. AppAnswers \/ Refuses
    BY <1>6 DEF RequestInv, Middleware!GuardedSend, Middleware!CanSend, Middleware!AppRuns, NotCalled
  <2>2. CASE Refuses
    <3>1. Refuses'
      BY <1>6, <2>2 DEF Middleware!GuardedSend, Middleware!Dropped, Refuses
    <3>2. CountHolds'
      BY <1>6, <2>2 DEF RequestInv, CountHolds, Middleware!GuardedSend, Middleware!Dropped, Refuses
    <3> QED
      BY <3>1, <3>2 DEF RequestInv
  <2>3. CASE AppAnswers
    <3>1. AppAnswers'
      BY <1>6, <2>3 DEF Middleware!GuardedSend, Middleware!Dropped, Middleware!CanSend,
         Middleware!Nothing, Middleware!NextType, AppAnswers, AppSays
    <3>2. CountHolds'
      BY <1>6, <2>3 DEF RequestInv, CountHolds, Middleware!GuardedSend, Middleware!Dropped,
         Middleware!NextType, AppAnswers
    <3> QED
      BY <3>1, <3>2 DEF RequestInv
  <2> QED
    BY <2>1, <2>2, <2>3
<1>7. CASE Middleware!Emit
  <2>1. PICK m \in Middleware!Messages :
          /\ sending = {m} /\ Middleware!Put(m.from, m.type) /\ sending' = {}
          /\ UNCHANGED <<header, seen, started, refused, receiving, response, passed>>
    BY <1>7 DEF Middleware!Emit, Middleware!Nothing
  <2>2. AppAnswers
    BY <2>1 DEF RequestInv, NotCalled, Refuses
  <2>3. wire' = Append(wire, m)
    BY <2>1 DEF Middleware!Put, Middleware!Messages
  <2>4. CASE response = "start"
    <3>1. m = AppSays("start") /\ wire = <<>> /\ started
      BY <2>1, <2>2, <2>4 DEF AppAnswers
    <3>2. wire' = <<AppSays("start")>>
      BY <1>0, <2>3, <3>1, ShortAppend
    <3> QED
      BY <2>1, <2>2, <2>4, <3>1, <3>2 DEF AppAnswers, RequestInv, CountHolds
  <2>5. CASE response = "end"
    <3>1. m = AppSays("body") /\ wire = <<AppSays("start")>> /\ started
      BY <2>1, <2>2, <2>5 DEF AppAnswers
    <3>2. wire' = <<AppSays("start"), AppSays("body")>>
      BY <1>0, <2>3, <3>1, ShortAppend
    <3> QED
      BY <2>1, <2>2, <2>5, <3>1, <3>2 DEF AppAnswers, RequestInv, CountHolds
  <2> QED
    BY <2>1, <2>2, <2>4, <2>5 DEF AppAnswers
<1> QED
  BY <1>1, <1>2, <1>3, <1>4, <1>5, <1>6, <1>7 DEF Middleware!Next, Middleware!Receiving

LEMMA WireFromPlaces == RequestInv => OneResponse /\ LimitIsExact
<1> SUFFICES ASSUME RequestInv PROVE OneResponse /\ LimitIsExact
  OBVIOUS
<1>1. CASE NotCalled \/ Refuses
  <2>1. Middleware!IsPrefix(wire, Middleware!Response("413"))
    BY <1>1, ShortPrefix DEF NotCalled, Refuses, Says413, Middleware!Response
  <2>2. OneResponse
    BY <2>1 DEF OneResponse, Middleware!OneResponse
  <2>3. Middleware!RefusedForItsLength
    <3>1. CASE wire = <<>>
      BY <3>1, ShortSet DEF Middleware!RefusedForItsLength
    <3>2. CASE wire # <<>>
      BY <1>1, <3>2 DEF NotCalled, Refuses, Middleware!RefusedForItsLength, RequestInv,
         CountHolds, Middleware!DeclaredTooBig
    <3> QED
      BY <3>1, <3>2
  <2> QED
    BY <2>2, <2>3 DEF LimitIsExact, Middleware!LimitIsExact, Middleware!AppSeesAtMostLimit,
       RequestInv, CountHolds
<1>2. CASE AppAnswers
  <2>1. Middleware!IsPrefix(wire, Middleware!Response("app"))
    BY <1>2, ShortPrefix DEF AppAnswers, AppSays, Middleware!Response
  <2>2. OneResponse
    BY <2>1 DEF OneResponse, Middleware!OneResponse
  <2>3. Says413("start") \notin Middleware!ToSet(wire)
    <3>1. \A type \in {"start", "body"} : AppSays(type) # Says413("start")
      BY DEF AppSays, Says413
    <3>2. Middleware!ToSet(wire) \subseteq {AppSays("start"), AppSays("body")}
      <4>1. \/ wire = <<>> \/ wire = <<AppSays("start")>>
            \/ wire = <<AppSays("start"), AppSays("body")>>
        BY <1>2 DEF AppAnswers
      <4>2. CASE wire = <<>>
        BY <4>2, ShortSet
      <4>3. CASE wire = <<AppSays("start")>>
        BY <4>3, ShortSet
      <4>4. CASE wire = <<AppSays("start"), AppSays("body")>>
        BY <4>4, ShortSet
      <4> QED
        BY <4>1, <4>2, <4>3, <4>4
    <3> QED
      BY <3>1, <3>2
  <2> QED
    BY <2>2, <2>3 DEF LimitIsExact, Middleware!LimitIsExact, Middleware!AppSeesAtMostLimit,
       Middleware!RefusedForItsLength, Says413, RequestInv, CountHolds
<1> QED
  BY <1>1, <1>2 DEF RequestInv
-----------------------------------------------------------------------------
(* The composition.                                                         *)

HttpInv == WsgiInv /\ RequestInv

LEMMA HttpStep == HttpInv /\ [HttpNext]_allVars => HttpInv'
<1> SUFFICES ASSUME HttpInv, [HttpNext]_allVars PROVE HttpInv'
  OBVIOUS
<1>w. ASSUME UNCHANGED vars PROVE WsgiInv'
  BY <1>w DEF HttpInv, WsgiInv, vars, TypeOK, ProcessHolds, ThreadHolds
<1>r. ASSUME UNCHANGED request PROVE RequestInv'
  BY <1>r DEF HttpInv, request, RequestInv, CountHolds, NotCalled, AppAnswers, Refuses,
     Middleware!DeclaredTooBig
<1>1. CASE Enter
  BY <1>1, <1>r, ForkHolds, ThreadStep DEF Enter, HttpInv
<1>2. ASSUME NEW p \in Processes, NEW t \in Threads, Prepare(p, t) PROVE HttpInv'
  BY <1>2, <1>r, ThreadStep DEF Prepare, HttpInv
<1>3. ASSUME NEW p \in Processes, NEW t \in Threads,
             NEW length \in Middleware!Headers, Call(p, t, length)
      PROVE  HttpInv'
  <2>1. Given(length) \in {"absent", "fits", "over", "garbled"}
    BY DEF Given, Middleware!Headers
  <2> QED
    BY <1>3, <1>w, <2>1, BeginHolds DEF Call, HttpInv
<1>4. ASSUME NEW p \in Processes, NEW t \in Threads, Finish(p, t) PROVE HttpInv'
  BY <1>4, <1>r, ThreadStep, BeginHolds DEF Finish, HttpInv
<1>5. CASE InLoop /\ Middleware!Next
  BY <1>5, <1>w, MiddlewareStep DEF InLoop, HttpInv
<1>6. CASE UNCHANGED allVars
  BY <1>6, <1>w, <1>r DEF allVars, HttpInv
<1> QED
  BY <1>1, <1>2, <1>3, <1>4, <1>5, <1>6 DEF HttpNext

\* What holds of every request at every moment.
THEOREM Invariance == HttpSpec => []HttpInv
<1>1. HttpInit => HttpInv
  <2>1. HttpInit => RequestInv
    BY HttpAssumption DEF HttpInit, Middleware!Init, Middleware!Nothing, RequestInv, CountHolds, NotCalled
  <2> QED
    BY <2>1, WsgiInit DEF HttpInit, HttpInv
<1>2. HttpSpec => HttpInit /\ [][HttpNext]_allVars
  BY PTL DEF HttpSpec
<1> QED
  BY <1>1, <1>2, HttpStep, PTL

\* A request is only ever handed to a wrapper that was built in its own process
\* (get_wrapper, whatever forks and whatever threads race).
THEOREM OwnWrapper == HttpSpec => []UsesOwnWrapper
<1>1. HttpInv => UsesOwnWrapper
  BY DEF HttpInv, WsgiInv, ThreadHolds, UsesOwnWrapper
<1> QED
  BY <1>1, Invariance, PTL

\* A process constructs one wrapper, however many first requests race.
THEOREM OneWrapper == HttpSpec => []BuildsOnce
<1>1. HttpInv => BuildsOnce
  BY DEF HttpInv, WsgiInv, ProcessHolds, BuildsOnce
<1> QED
  BY <1>1, Invariance, PTL

\* The client gets one response, whatever the application sends during a refusal.
THEOREM SingleResponse == HttpSpec => []OneResponse
BY Invariance, WireFromPlaces, PTL DEF HttpInv

\* The body limit neither lets more through nor refuses for another reason.
THEOREM ExactLimit == HttpSpec => []LimitIsExact
BY Invariance, WireFromPlaces, PTL DEF HttpInv
-----------------------------------------------------------------------------
(* Every request ends.  For the provers ENABLED is a predicate that nothing *)
(* is known of, so the guards of what is fair are written out.              *)

\* What each fair action asks; the rest of it is what it assigns.
CanPrepare(p, t) == /\ p \in alive /\ pc[p][t] \notin {"idle", "serve"}
                    /\ pc[p][t] = "lock" => lock[p] = NoThread
CanFinish(p, t) == /\ At(p, t, "serve") /\ used[p][t] = p
                   /\ followed = <<p, t>> => Middleware!Answered
CanRefuse == /\ followed # NoRequest /\ receiving \in {"called", "start", "body"}
CanSay == followed # NoRequest /\ Middleware!CanSend /\ response # "end"
CanEmit == followed # NoRequest /\ \E m \in Middleware!Messages : sending = {m}

LEMMA GuardsAreAsked ==
    ASSUME NEW p \in Processes, NEW t \in Threads
    PROVE  /\ Prepare(p, t) => CanPrepare(p, t)
           /\ Finish(p, t) => CanFinish(p, t)
           /\ InLoop /\ Middleware!Receiving => CanRefuse
           /\ InLoop /\ Middleware!GuardedSend => CanSay
           /\ InLoop /\ Middleware!Emit => CanEmit
<1>1. Prepare(p, t) => CanPrepare(p, t)
  BY DEF Prepare, GetWrapper, ReadPid, Acquire, Build, BuildFails, Stamp, Return, At, CanPrepare
<1>2. Finish(p, t) => CanFinish(p, t)
  BY DEF Finish, Serve, CanFinish
<1>3. InLoop /\ Middleware!Receiving => CanRefuse
  BY DEF InLoop, Middleware!Receiving, Middleware!RefuseDeclared, Middleware!CallApp,
     Middleware!RefuseStart, Middleware!RefuseBody, CanRefuse
<1>4. InLoop /\ Middleware!GuardedSend => CanSay
  BY DEF InLoop, Middleware!GuardedSend, CanSay
<1>5. InLoop /\ Middleware!Emit => CanEmit
  BY DEF InLoop, Middleware!Emit, CanEmit
<1> QED
  BY <1>1, <1>2, <1>3, <1>4, <1>5

\* The request that is followed is being served.
FollowedHolds == followed # NoRequest =>
    \E p \in Processes, t \in Threads : followed = <<p, t>> /\ At(p, t, "serve")

THEOREM FollowedIsServed == HttpSpec => []FollowedHolds
<1>1. HttpInit => FollowedHolds
  BY DEF HttpInit, FollowedHolds
<1>2. HttpInv /\ FollowedHolds /\ [HttpNext]_allVars => FollowedHolds'
  <2> SUFFICES ASSUME HttpInv, FollowedHolds, [HttpNext]_allVars, followed' # NoRequest
               PROVE  FollowedHolds'
    BY DEF FollowedHolds
  <2>0. pc \in [Processes -> [Threads ->
                 {"idle", "pid", "lock", "build", "stamp", "return", "serve"}]]
    BY DEF HttpInv, WsgiInv, TypeOK
  <2>1. CASE Enter
    BY <2>0, <2>1 DEF Enter, Fork, ReadWrapper, Goto, At, FollowedHolds, request
  <2>2. ASSUME NEW p \in Processes, NEW t \in Threads, Prepare(p, t) PROVE FollowedHolds'
    BY <2>0, <2>2 DEF Prepare, GetWrapper, ReadPid, Acquire, Build, BuildFails, Stamp, Return,
       Goto, At, FollowedHolds, request
  <2>3. ASSUME NEW p \in Processes, NEW t \in Threads,
               NEW length \in Middleware!Headers, Call(p, t, length)
        PROVE  FollowedHolds'
    BY <2>3 DEF Call, FollowedHolds, At, vars
  <2>4. ASSUME NEW p \in Processes, NEW t \in Threads, Finish(p, t) PROVE FollowedHolds'
    BY <2>0, <2>4 DEF Finish, Serve, Goto, At, FollowedHolds, request
  <2>5. CASE InLoop
    BY <2>5 DEF InLoop, FollowedHolds, At, vars
  <2>6. CASE UNCHANGED allVars
    BY <2>6 DEF allVars, FollowedHolds, At, vars
  <2> QED
    BY <2>1, <2>2, <2>3, <2>4, <2>5, <2>6 DEF HttpNext
<1>3. HttpSpec => HttpInit /\ [][HttpNext]_allVars
  BY PTL DEF HttpSpec
<1> QED
  BY <1>1, <1>2, <1>3, Invariance, PTL

\* What the invariant leaves open of the types.
Bounded == /\ seen \in 0..MaxBody /\ passed \in 0..MaxBody
           /\ response \in {"none", "start", "end"}
Flags == started \in BOOLEAN /\ refused \in BOOLEAN

LEMMA BoundedStays == RequestInv /\ Bounded /\ [HttpNext]_allVars => Bounded'
<1> SUFFICES ASSUME RequestInv, Bounded, [HttpNext]_allVars PROVE Bounded'
  OBVIOUS
<1>0. UNCHANGED request => Bounded'
  BY DEF request, Bounded
<1>1. ASSUME NEW h, Middleware!Begin(h) PROVE Bounded'
  BY <1>1, HttpAssumption DEF Middleware!Begin, Bounded
<1>2. CASE Middleware!Receiving
  BY <1>2 DEF Middleware!Receiving, Middleware!RefuseDeclared, Middleware!CallApp,
     Middleware!RefuseStart, Middleware!RefuseBody, Bounded
<1>3. ASSUME NEW size \in 0..MaxChunk, Middleware!Receive(size) PROVE Bounded'
  <2>1. size \in Nat
    BY HttpAssumption
  <2>2. ~refused
    BY <1>3 DEF Middleware!Receive
  <2>3. seen' = seen + size /\ seen' <= MaxBody /\ response' = response
    BY <1>3 DEF Middleware!Receive
  <2>4. passed' = passed \/ (passed' = passed + size /\ ~started)
    BY <1>3 DEF Middleware!Receive
  <2>5. passed' \in 0..MaxBody
    BY <2>1, <2>2, <2>3, <2>4, HttpAssumption DEF RequestInv, CountHolds, Bounded
  <2> QED
    BY <2>1, <2>3, <2>5, HttpAssumption DEF Bounded
<1>4. CASE Middleware!GuardedSend \/ Middleware!Emit
  BY <1>4 DEF Middleware!GuardedSend, Middleware!Emit, Bounded
<1>5. CASE Enter
  BY <1>0, <1>5 DEF Enter
<1>6. ASSUME NEW p \in Processes, NEW t \in Threads,
             \/ Prepare(p, t)
             \/ \E length \in Middleware!Headers : Call(p, t, length)
             \/ Finish(p, t)
      PROVE  Bounded'
  BY <1>0, <1>1, <1>6 DEF Prepare, Call, Finish
<1>7. CASE InLoop /\ Middleware!Next
  BY <1>2, <1>3, <1>4, <1>7 DEF Middleware!Next
<1>8. CASE UNCHANGED allVars
  BY <1>0, <1>8 DEF allVars
<1> QED
  BY <1>5, <1>6, <1>7, <1>8 DEF HttpNext

LEMMA FlagsStay == Flags /\ [HttpNext]_allVars => Flags'
<1> SUFFICES ASSUME Flags, [HttpNext]_allVars PROVE Flags'
  OBVIOUS
<1>0. UNCHANGED started /\ UNCHANGED refused => Flags'
  BY DEF Flags
<1>1. UNCHANGED request => Flags'
  BY <1>0 DEF request
<1>2. ASSUME NEW h, Middleware!Begin(h) PROVE Flags'
  BY <1>2, Zenon DEF Middleware!Begin, Flags
<1>3. CASE Middleware!Receiving
  BY <1>0, <1>3 DEF Middleware!Receiving, Middleware!RefuseDeclared, Middleware!CallApp,
     Middleware!RefuseStart, Middleware!RefuseBody
<1>4. ASSUME NEW size \in 0..MaxChunk, Middleware!Receive(size) PROVE Flags'
  BY <1>4, Zenon DEF Middleware!Receive, Flags
<1>5. CASE Middleware!GuardedSend
  BY <1>5, Zenon DEF Middleware!GuardedSend, Flags
<1>6. CASE Middleware!Emit
  BY <1>0, <1>6 DEF Middleware!Emit
<1>7. CASE Enter
  BY <1>1, <1>7 DEF Enter
<1>8. ASSUME NEW p \in Processes, NEW t \in Threads,
             \/ Prepare(p, t)
             \/ \E length \in Middleware!Headers : Call(p, t, length)
             \/ Finish(p, t)
      PROVE  Flags'
  BY <1>1, <1>2, <1>8 DEF Prepare, Call, Finish
<1>9. CASE InLoop /\ Middleware!Next
  BY <1>3, <1>4, <1>5, <1>6, <1>9 DEF Middleware!Next
<1>10. CASE UNCHANGED allVars
  BY <1>1, <1>10 DEF allVars
<1> QED
  BY <1>7, <1>8, <1>9, <1>10 DEF HttpNext

\* The processes, their threads and the request that is followed keep their types:
\* no more of a body is counted than there is, and nothing but whole messages is sent.
THEOREM TypeCorrect == HttpSpec => []HttpTypeOK
<1>1. HttpInit => Bounded /\ Flags
  <2>1. HttpInit => Bounded
    BY HttpAssumption DEF HttpInit, Middleware!Init, Bounded
  <2>2. HttpInit => Flags
    BY Zenon DEF HttpInit, Middleware!Init, Flags
  <2> QED
    BY <2>1, <2>2
<1>2. HttpInv /\ FollowedHolds /\ Bounded /\ Flags => HttpTypeOK
  <2> SUFFICES ASSUME HttpInv, FollowedHolds, Bounded, Flags PROVE HttpTypeOK
    OBVIOUS
  <2>1. followed \in (Processes \X Threads) \cup {NoRequest}
    BY DEF FollowedHolds
  <2>2. \A type \in {"start", "body"} :
           AppSays(type) \in Middleware!Messages /\ Says413(type) \in Middleware!Messages
    BY DEF AppSays, Says413, Middleware!Messages
  <2>3. wire \in Seq(Middleware!Messages)
    <3>1. \/ wire = <<>> \/ wire = <<AppSays("start")>> \/ wire = <<Says413("start")>>
          \/ wire = <<AppSays("start"), AppSays("body")>>
          \/ wire = <<Says413("start"), Says413("body")>>
      BY DEF HttpInv, RequestInv, NotCalled, AppAnswers, Refuses
    <3>2. ASSUME NEW m \in Middleware!Messages, NEW n \in Middleware!Messages
          PROVE  /\ <<>> \in Seq(Middleware!Messages)
                 /\ <<m>> \in Seq(Middleware!Messages)
                 /\ <<m, n>> \in Seq(Middleware!Messages)
      OBVIOUS
    <3> QED
      BY <2>2, <3>1, <3>2
  <2>4. sending \in {Middleware!Nothing} \cup {{m} : m \in Middleware!Messages}
    BY <2>2 DEF HttpInv, RequestInv, NotCalled, AppAnswers, Refuses, Middleware!Nothing
  <2>5. /\ receiving \in {"called", "idle", "start", "body", "gone", "never"}
        /\ header \in Middleware!Headers
    BY DEF HttpInv, RequestInv, CountHolds, NotCalled, AppAnswers, Refuses, Middleware!Headers
  <2> QED
    BY <2>1, <2>3, <2>4, <2>5 DEF HttpTypeOK, HttpInv, WsgiInv, Middleware!TypeOK, Bounded, Flags
<1>3. HttpSpec => HttpInit /\ [][HttpNext]_allVars
  BY PTL DEF HttpSpec
<1>4. HttpInv => RequestInv
  BY DEF HttpInv
<1> QED
  BY <1>1, <1>2, <1>3, <1>4, BoundedStays, FlagsStay, Invariance, FollowedIsServed, PTL
-----------------------------------------------------------------------------
(* Where a thread goes from each place.                                     *)

\* No constructor fails.
NoFailure == UNCHANGED failures

\* What others do leaves a thread where it is.
LEMMA ThreadMoves ==
    ASSUME HttpInv, NEW p \in Processes, NEW t \in Threads, [HttpNext]_allVars
    PROVE  UNCHANGED pc[p][t] \/ ReadWrapper(p, t) \/ Prepare(p, t) \/ Finish(p, t)
<1>0. pc \in [Processes -> [Threads ->
               {"idle", "pid", "lock", "build", "stamp", "return", "serve"}]]
  BY DEF HttpInv, WsgiInv, TypeOK
<1>1. ASSUME NEW q \in Processes, NEW r \in Processes, Fork(q, r) PROVE UNCHANGED pc[p][t]
  BY <1>1 DEF Fork
<1>2. ASSUME NEW q \in Processes, NEW u \in Threads, ReadWrapper(q, u)
      PROVE  UNCHANGED pc[p][t] \/ ReadWrapper(p, t)
  BY <1>0, <1>2 DEF ReadWrapper, Goto
<1>3. ASSUME NEW q \in Processes, NEW u \in Threads, Prepare(q, u)
      PROVE  UNCHANGED pc[p][t] \/ Prepare(p, t)
  <2>1. (q = p /\ u = t) \/ UNCHANGED pc[p][t]
    BY <1>0, <1>3 DEF Prepare, GetWrapper, ReadPid, Acquire, Build, BuildFails, Stamp, Return, Goto
  <2> QED
    BY <1>3, <2>1
<1>4. ASSUME NEW q \in Processes, NEW u \in Threads, Finish(q, u)
      PROVE  UNCHANGED pc[p][t] \/ Finish(p, t)
  <2>1. (q = p /\ u = t) \/ UNCHANGED pc[p][t]
    BY <1>0, <1>4 DEF Finish, Serve, Goto
  <2> QED
    BY <1>4, <2>1
<1>5. ASSUME NEW q \in Processes, NEW u \in Threads,
             NEW length \in Middleware!Headers, Call(q, u, length)
      PROVE  UNCHANGED pc[p][t]
  BY <1>5 DEF Call, vars
<1>6. CASE InLoop
  BY <1>6 DEF InLoop, vars
<1>7. CASE UNCHANGED allVars
  BY <1>7 DEF allVars, vars
<1> QED
  BY <1>1, <1>2, <1>3, <1>4, <1>5, <1>6, <1>7 DEF HttpNext, Enter

IsAt(p, t, at) == pc[p][t] = at

\* What a thread does with its wrapper-to-be leads on.
LEMMA PrepareMoves ==
    ASSUME HttpInv, NEW p \in Processes, NEW t \in Threads, Prepare(p, t)
    PROVE  /\ IsAt(p, t, "pid") => IsAt(p, t, "return")' \/ IsAt(p, t, "lock")'
           /\ IsAt(p, t, "lock") => IsAt(p, t, "return")' \/ IsAt(p, t, "build")'
           /\ IsAt(p, t, "build") => IsAt(p, t, "stamp")' \/ IsAt(p, t, "idle")'
           /\ IsAt(p, t, "stamp") => IsAt(p, t, "return")'
           /\ IsAt(p, t, "return") => IsAt(p, t, "serve")'
           /\ ~IsAt(p, t, "serve")
<1>0. pc \in [Processes -> [Threads ->
               {"idle", "pid", "lock", "build", "stamp", "return", "serve"}]]
  BY DEF HttpInv, WsgiInv, TypeOK
<1> QED
  BY <1>0 DEF Prepare, GetWrapper, ReadPid, Acquire, Build, BuildFails, Stamp, Return, Goto, At, IsAt

LEMMA FinishMoves ==
    ASSUME HttpInv, NEW p \in Processes, NEW t \in Threads, Finish(p, t)
    PROVE  IsAt(p, t, "serve") /\ IsAt(p, t, "idle")'
<1>0. pc \in [Processes -> [Threads ->
               {"idle", "pid", "lock", "build", "stamp", "return", "serve"}]]
  BY DEF HttpInv, WsgiInv, TypeOK
<1> QED
  BY <1>0 DEF Finish, Serve, Goto, At, IsAt

LEMMA ThreadGoes ==
    ASSUME HttpInv, NEW p \in Processes, NEW t \in Threads, [HttpNext]_allVars
    PROVE  /\ IsAt(p, t, "pid") => (IsAt(p, t, "pid") \/ IsAt(p, t, "return") \/ IsAt(p, t, "lock"))'
           /\ IsAt(p, t, "lock") => (IsAt(p, t, "lock") \/ IsAt(p, t, "return") \/ IsAt(p, t, "build"))'
           /\ IsAt(p, t, "build") => (IsAt(p, t, "build") \/ IsAt(p, t, "stamp") \/ IsAt(p, t, "idle"))'
           /\ IsAt(p, t, "stamp") => (IsAt(p, t, "stamp") \/ IsAt(p, t, "return"))'
           /\ IsAt(p, t, "return") => (IsAt(p, t, "return") \/ IsAt(p, t, "serve"))'
           /\ IsAt(p, t, "serve") => (IsAt(p, t, "serve") \/ IsAt(p, t, "idle"))'
<1>1. CASE UNCHANGED pc[p][t]
  BY <1>1 DEF IsAt
<1>2. CASE ReadWrapper(p, t)
  BY <1>2 DEF ReadWrapper, At, IsAt
<1>3. CASE Prepare(p, t)
  BY <1>3, PrepareMoves
<1>4. CASE Finish(p, t)
  BY <1>4, FinishMoves DEF IsAt
<1> QED
  BY <1>1, <1>2, <1>3, <1>4, ThreadMoves

\* A thread that need not wait can go on.
LEMMA CanGoOn ==
    ASSUME HttpInv, NEW p \in Processes, NEW t \in Threads
    PROVE  /\ IsAt(p, t, "pid") \/ IsAt(p, t, "build") \/ IsAt(p, t, "stamp") \/ IsAt(p, t, "return")
                  => CanPrepare(p, t)
           /\ IsAt(p, t, "lock") /\ lock[p] = NoThread => CanPrepare(p, t)
           /\ IsAt(p, t, "serve") /\ followed # <<p, t>> => CanFinish(p, t)
           /\ IsAt(p, t, "serve") /\ Middleware!Answered => CanFinish(p, t)
BY DEF HttpInv, WsgiInv, ProcessHolds, ThreadHolds, IsAt, At, CanPrepare, CanFinish
-----------------------------------------------------------------------------
(* The lock.                                                                *)

\* The wrapper of the process is there, and nobody holds the lock.
Settled(p) == p \in alive /\ ~Stale(p) /\ lock[p] = NoThread

Holds(p, h, at) == lock[p] = h /\ IsAt(p, h, at)

LEMMA SettledStays ==
    ASSUME HttpInv, NEW p \in Processes, Settled(p), [HttpNext]_allVars PROVE Settled(p)'
<1>0. TypeOK /\ ProcessHolds(p)
  BY DEF HttpInv, WsgiInv
<1>1. ASSUME NEW q \in Processes, NEW r \in Processes, Fork(q, r) PROVE Settled(p)'
  BY <1>0, <1>1 DEF Fork, Settled, Stale, IsOwn, TypeOK
<1>2. ASSUME NEW q \in Processes, NEW u \in Threads, ReadWrapper(q, u) PROVE Settled(p)'
  BY <1>2 DEF ReadWrapper, Settled, Stale, IsOwn
<1>3. ASSUME NEW q \in Processes, NEW u \in Threads, Prepare(q, u) PROVE Settled(p)'
  <2>1. CASE q # p
    BY <1>0, <1>3, <2>1 DEF Prepare, GetWrapper, ReadPid, Acquire, Build, BuildFails, Stamp, Return,
       Released, Settled, Stale, IsOwn, TypeOK
  <2>2. CASE q = p
    <3>1. pc[p][u] \notin {"build", "stamp"}
      BY <1>0, WsgiAssumption DEF Settled, TypeOK
    <3> QED
      BY <1>3, <2>2, <3>1 DEF Prepare, GetWrapper, ReadPid, Acquire, Build, BuildFails, Stamp, Return,
         At, Settled, Stale, IsOwn
  <2> QED
    BY <2>1, <2>2
<1>4. ASSUME NEW q \in Processes, NEW u \in Threads, Finish(q, u) PROVE Settled(p)'
  BY <1>4 DEF Finish, Serve, Settled, Stale, IsOwn
<1>5. ASSUME NEW q \in Processes, NEW u \in Threads,
             NEW length \in Middleware!Headers, Call(q, u, length)
      PROVE  Settled(p)'
  BY <1>5 DEF Call, vars, Settled, Stale, IsOwn
<1>6. CASE InLoop
  BY <1>6 DEF InLoop, vars, Settled, Stale, IsOwn
<1>7. CASE UNCHANGED allVars
  BY <1>7 DEF allVars, vars, Settled, Stale, IsOwn
<1> QED
  BY <1>1, <1>2, <1>3, <1>4, <1>5, <1>6, <1>7 DEF HttpNext, Enter

\* While no constructor fails, who holds the lock leaves it with a wrapper.
LEMMA HolderMoves ==
    ASSUME HttpInv, NEW p \in Processes, NEW h \in Threads, [HttpNext]_allVars, NoFailure
    PROVE  /\ Holds(p, h, "build") => (Holds(p, h, "build") \/ Holds(p, h, "stamp"))'
           /\ Holds(p, h, "stamp") => (Holds(p, h, "stamp") \/ Settled(p))'
<1>0. TypeOK /\ ProcessHolds(p) /\ ThreadHolds(p, h) /\ failures \in Nat
  BY WsgiAssumption DEF HttpInv, WsgiInv, TypeOK
<1>1. CASE UNCHANGED pc[p][h]
  <2>1. TypeOK'
    BY HttpStep DEF HttpInv, WsgiInv
  <2>2. Holds(p, h, "build") => Holds(p, h, "build")'
    BY <1>0, <1>1, <2>1 DEF Holds, IsAt, TypeOK
  <2>3. Holds(p, h, "stamp") => Holds(p, h, "stamp")'
    BY <1>0, <1>1, <2>1 DEF Holds, IsAt, TypeOK
  <2> QED
    BY <2>2, <2>3
<1>2. CASE ReadWrapper(p, h)
  BY <1>2 DEF ReadWrapper, At, Holds, IsAt
<1>3. CASE Prepare(p, h)
  <2>1. ~BuildFails(p, h)
    BY <1>0, <1>3 DEF NoFailure, BuildFails
  <2>2. ASSUME Holds(p, h, "build") PROVE Holds(p, h, "stamp")'
    BY <1>0, <1>3, <2>1, <2>2 DEF Prepare, GetWrapper, ReadPid, Acquire, Build, Stamp, Return, At,
       Goto, Holds, IsAt, TypeOK
  <2>3. ASSUME Holds(p, h, "stamp") PROVE Settled(p)'
    BY <1>0, <1>3, <2>1, <2>3, WsgiAssumption DEF Prepare, GetWrapper, ReadPid, Acquire, Build, Stamp,
       Return, At, Goto, Holds, IsAt, TypeOK, ThreadHolds, Settled, Stale, IsOwn, Released
  <2> QED
    BY <2>2, <2>3
<1>4. CASE Finish(p, h)
  BY <1>4 DEF Finish, Serve, At, Holds, IsAt
<1> QED
  BY <1>1, <1>2, <1>3, <1>4, ThreadMoves
-----------------------------------------------------------------------------
(* The request that is followed.                                            *)

\* Where the tasks of a request are until it is answered.
ReceivingAt(at) == receiving = at
Saying(r) == receiving = "idle" /\ response = r /\ sending = {}
Emitting(r) == receiving = "idle" /\ response = r /\ sending # {}
Done == receiving \in {"never", "gone"} \/ Saying("end")

LEMMA RequestPlaces ==
    RequestInv => \/ ReceivingAt("called") \/ ReceivingAt("start") \/ ReceivingAt("body")
                  \/ Saying("none") \/ Emitting("start") \/ Saying("start") \/ Emitting("end")
                  \/ Done
BY DEF RequestInv, NotCalled, AppAnswers, Refuses, ReceivingAt, Saying, Emitting, Done, AppSays

LEMMA DoneIsAnswered == RequestInv /\ Done => Middleware!Answered
BY DEF RequestInv, NotCalled, AppAnswers, Refuses, Saying, Done,
   Middleware!Answered, Middleware!Response, AppSays, Says413

\* Whatever either task does, the request comes nearer to its answer.
Nearer ==
    /\ ReceivingAt("called") => (ReceivingAt("called") \/ Saying("none") \/ Done)'
    /\ Saying("none") => (Saying("none") \/ ReceivingAt("start") \/ Emitting("start"))'
    /\ Emitting("start") => (Emitting("start") \/ Saying("start"))'
    /\ Saying("start") => (Saying("start") \/ Emitting("end"))'
    /\ Emitting("end") => (Emitting("end") \/ Done)'
    /\ ReceivingAt("start") => (ReceivingAt("start") \/ ReceivingAt("body"))'
    /\ ReceivingAt("body") => (ReceivingAt("body") \/ Done)'
    /\ Done => Done'

LEMMA RequestMoves == ASSUME RequestInv, Middleware!Next PROVE Nearer
<1>1. CASE Middleware!Receiving
  <2>1. \/ ReceivingAt("called") /\ (Saying("none") \/ Done)'
        \/ ReceivingAt("start") /\ ReceivingAt("body")'
        \/ ReceivingAt("body") /\ Done'
    BY <1>1 DEF Middleware!Receiving, Middleware!RefuseDeclared, Middleware!CallApp,
       Middleware!RefuseStart, Middleware!RefuseBody, RequestInv, NotCalled, AppAnswers, Refuses,
       ReceivingAt, Saying, Done
  <2> QED
    BY <2>1 DEF Nearer, ReceivingAt, Saying, Emitting, Done
<1>2. ASSUME NEW size \in 0..MaxChunk, Middleware!Receive(size) PROVE Nearer
  <2>1. \/ UNCHANGED receiving /\ UNCHANGED sending /\ UNCHANGED response
        \/ Saying("none") /\ ReceivingAt("start")'
    BY <1>2 DEF Middleware!Receive, Middleware!TooBig, RequestInv, NotCalled, AppAnswers, Refuses,
       ReceivingAt, Saying
  <2> QED
    BY <2>1 DEF Nearer, ReceivingAt, Saying, Emitting, Done
<1>3. CASE Middleware!GuardedSend
  BY <1>3 DEF Middleware!GuardedSend, Middleware!CanSend, Middleware!AppRuns, Middleware!Dropped,
     Middleware!Nothing, Middleware!NextType, RequestInv, NotCalled, AppAnswers, Refuses,
     Nearer, ReceivingAt, Saying, Emitting, Done
<1>4. CASE Middleware!Emit
  BY <1>4 DEF Middleware!Emit, Middleware!Nothing, RequestInv, NotCalled, AppAnswers, Refuses,
     Nearer, ReceivingAt, Saying, Emitting, Done
<1> QED
  BY <1>1, <1>2, <1>3, <1>4 DEF Middleware!Next

Followed(p, t) == followed = <<p, t>>

\* Until its thread returns, the request is followed and comes nearer to its answer.
LEMMA FollowedMoves ==
    ASSUME HttpInv, NEW p \in Processes, NEW t \in Threads, Followed(p, t), [HttpNext]_allVars
    PROVE  IsAt(p, t, "idle")' \/ (Followed(p, t)' /\ Nearer)
<1>1. followed # NoRequest
  BY HttpAssumption DEF Followed
<1>2. UNCHANGED request => Nearer
  BY DEF request, Nearer, ReceivingAt, Saying, Emitting, Done
<1>3. CASE Enter
  BY <1>2, <1>3 DEF Enter, Followed
<1>4. ASSUME NEW q \in Processes, NEW u \in Threads, Prepare(q, u)
      PROVE  Followed(p, t)' /\ Nearer
  BY <1>2, <1>4 DEF Prepare, Followed
<1>5. ASSUME NEW q \in Processes, NEW u \in Threads, Finish(q, u)
      PROVE  IsAt(p, t, "idle")' \/ (Followed(p, t)' /\ Nearer)
  <2>1. CASE followed = <<q, u>>
    BY <1>5, <2>1, FinishMoves DEF Followed
  <2>2. CASE followed # <<q, u>>
    BY <1>2, <1>5, <2>2 DEF Finish, Followed
  <2> QED
    BY <2>1, <2>2
<1>6. CASE InLoop /\ Middleware!Next
  BY <1>6, RequestMoves DEF InLoop, Followed, HttpInv
<1>7. CASE UNCHANGED allVars
  BY <1>2, <1>7 DEF allVars, Followed
<1> QED
  BY <1>1, <1>3, <1>4, <1>5, <1>6, <1>7 DEF HttpNext, Call

\* What the loop does does not stay.
LEMMA LoopMoves ==
    ASSUME HttpInv
    PROVE  /\ InLoop /\ Middleware!Receiving =>
                 \A at \in {"called", "start", "body"} : ReceivingAt(at) => ~ReceivingAt(at)'
           /\ InLoop /\ Middleware!GuardedSend =>
                 \A r \in {"none", "start"} : Saying(r) => ~Saying(r)'
           /\ InLoop /\ Middleware!Emit =>
                 \A r \in {"start", "end"} : Emitting(r) => ~Emitting(r)'
<1>1. Middleware!Receiving =>
         \A at \in {"called", "start", "body"} : ReceivingAt(at) => ~ReceivingAt(at)'
  BY DEF Middleware!Receiving, Middleware!RefuseDeclared, Middleware!CallApp,
     Middleware!RefuseStart, Middleware!RefuseBody, ReceivingAt
<1>2. Middleware!GuardedSend => \A r \in {"none", "start"} : Saying(r) => ~Saying(r)'
  BY DEF Middleware!GuardedSend, Saying
<1>3. Middleware!Emit => \A r \in {"start", "end"} : Emitting(r) => ~Emitting(r)'
  BY DEF Middleware!Emit, Middleware!Nothing, Emitting
<1> QED
  BY <1>1, <1>2, <1>3

\* What the loop can do for the request.
LEMMA LoopCanGoOn ==
    ASSUME HttpInv, NEW p \in Processes, NEW t \in Threads, Followed(p, t)
    PROVE  /\ ReceivingAt("called") \/ ReceivingAt("start") \/ ReceivingAt("body") => CanRefuse
           /\ Saying("none") \/ Saying("start") => CanSay
           /\ Emitting("start") \/ Emitting("end") => CanEmit
<1>1. followed # NoRequest
  BY HttpAssumption DEF Followed
<1>2. Emitting("start") \/ Emitting("end") => \E m \in Middleware!Messages : sending = {m}
  BY DEF HttpInv, RequestInv, NotCalled, AppAnswers, Refuses, Emitting, AppSays, Middleware!Messages
<1> QED
  BY <1>1, <1>2 DEF ReceivingAt, Saying, CanRefuse, CanSay, CanEmit, Middleware!CanSend,
     Middleware!AppRuns, Middleware!Nothing
-----------------------------------------------------------------------------
(* What leads to what.                                                      *)

\* What the prover is not told: where its guards hold, a fair action is possible.
GuardsSuffice(p, t) ==
    /\ [](CanPrepare(p, t) => ENABLED <<Prepare(p, t)>>_allVars)
    /\ [](CanFinish(p, t) => ENABLED <<Finish(p, t)>>_allVars)

LoopGuardsSuffice ==
    /\ [](CanRefuse => ENABLED <<InLoop /\ Middleware!Receiving>>_allVars)
    /\ [](CanSay => ENABLED <<InLoop /\ Middleware!GuardedSend>>_allVars)
    /\ [](CanEmit => ENABLED <<InLoop /\ Middleware!Emit>>_allVars)

\* Threads are scheduled, and loops run.
ThreadGoesOn(p, t) == Scheduled(p, t) /\ GuardsSuffice(p, t)
LoopGoesOn == LoopRuns /\ LoopGuardsSuffice

Course == []HttpInv /\ []FollowedHolds /\ [][HttpNext]_allVars

LEMMA FollowedIsAnswered ==
    ASSUME NEW p \in Processes, NEW t \in Threads
    PROVE  Course /\ LoopGoesOn =>
              (Followed(p, t) ~> (IsAt(p, t, "idle") \/ (Followed(p, t) /\ Done)))
<1>1. HttpInv => \/ ReceivingAt("called") \/ ReceivingAt("start") \/ ReceivingAt("body")
                 \/ Saying("none") \/ Emitting("start") \/ Saying("start") \/ Emitting("end")
                 \/ Done
  BY RequestPlaces DEF HttpInv
<1>2. HttpInv /\ Followed(p, t) /\ [HttpNext]_allVars =>
         IsAt(p, t, "idle")' \/ (Followed(p, t)' /\ Nearer)
  BY FollowedMoves
<1>3. HttpInv /\ <<InLoop /\ Middleware!Receiving>>_allVars =>
         /\ ReceivingAt("called") => ~ReceivingAt("called")'
         /\ ReceivingAt("start") => ~ReceivingAt("start")'
         /\ ReceivingAt("body") => ~ReceivingAt("body")'
  BY LoopMoves
<1>4. HttpInv /\ <<InLoop /\ Middleware!GuardedSend>>_allVars =>
         /\ Saying("none") => ~Saying("none")'
         /\ Saying("start") => ~Saying("start")'
  BY LoopMoves
<1>5. HttpInv /\ <<InLoop /\ Middleware!Emit>>_allVars =>
         /\ Emitting("start") => ~Emitting("start")'
         /\ Emitting("end") => ~Emitting("end")'
  BY LoopMoves
<1>6. HttpInv /\ Followed(p, t) =>
         /\ ReceivingAt("called") \/ ReceivingAt("start") \/ ReceivingAt("body") => CanRefuse
         /\ Saying("none") \/ Saying("start") => CanSay
         /\ Emitting("start") \/ Emitting("end") => CanEmit
  BY LoopCanGoOn
<1> QED
  BY <1>1, <1>2, <1>3, <1>4, <1>5, <1>6, PTL
     DEF Course, LoopGoesOn, LoopRuns, LoopGuardsSuffice, Nearer

LEMMA ServedThreadEnds ==
    ASSUME NEW p \in Processes, NEW t \in Threads
    PROVE  Course /\ LoopGoesOn /\ ThreadGoesOn(p, t) =>
              (IsAt(p, t, "serve") ~> IsAt(p, t, "idle"))
<1>1. HttpInv /\ [HttpNext]_allVars =>
         (IsAt(p, t, "serve") => (IsAt(p, t, "serve") \/ IsAt(p, t, "idle"))')
  BY ThreadGoes
<1>2. HttpInv /\ Followed(p, t) /\ Done /\ [HttpNext]_allVars =>
         IsAt(p, t, "idle")' \/ (Followed(p, t)' /\ Done')
  BY FollowedMoves DEF Nearer
<1>3. HttpInv /\ IsAt(p, t, "serve") /\ (~Followed(p, t) \/ Done) => CanFinish(p, t)
  BY CanGoOn, DoneIsAnswered DEF Followed, HttpInv
<1>4. HttpInv /\ <<Finish(p, t)>>_allVars => IsAt(p, t, "idle")'
  BY FinishMoves
<1>5. IsAt(p, t, "serve") => ~IsAt(p, t, "idle")
  BY DEF IsAt
<1> QED
  BY <1>1, <1>2, <1>3, <1>4, <1>5, FollowedIsAnswered, PTL
     DEF Course, ThreadGoesOn, Scheduled, GuardsSuffice

NoneFails == [][NoFailure]_allVars

\* The thread that holds the lock leaves a wrapper.
HolderLeaves(p, h) == lock[p] = h ~> Settled(p)

LEMMA HolderLeavesIt ==
    ASSUME NEW p \in Processes, NEW h \in Threads
    PROVE  Course /\ NoneFails /\ ThreadGoesOn(p, h) => HolderLeaves(p, h)
<1>1. HttpInv => (lock[p] = h => Holds(p, h, "build") \/ Holds(p, h, "stamp"))
  BY DEF HttpInv, WsgiInv, TypeOK, Holds, IsAt
<1>2. HttpInv /\ [HttpNext]_allVars /\ [NoFailure]_allVars =>
         /\ Holds(p, h, "build") => (Holds(p, h, "build") \/ Holds(p, h, "stamp"))'
         /\ Holds(p, h, "stamp") => (Holds(p, h, "stamp") \/ Settled(p))'
  <2>1. [NoFailure]_allVars => NoFailure
    BY DEF NoFailure, allVars, vars
  <2> QED
    BY <2>1, HolderMoves
<1>3. HttpInv /\ <<Prepare(p, h)>>_allVars =>
         /\ Holds(p, h, "build") => ~Holds(p, h, "build")'
         /\ Holds(p, h, "stamp") => ~Holds(p, h, "stamp")'
  BY PrepareMoves DEF Holds, IsAt
<1>4. HttpInv => (Holds(p, h, "build") \/ Holds(p, h, "stamp") => CanPrepare(p, h))
  BY CanGoOn DEF Holds
<1> QED
  BY <1>1, <1>2, <1>3, <1>4, PTL
     DEF Course, NoneFails, HolderLeaves, ThreadGoesOn, Scheduled, GuardsSuffice

ThreadsGoOn == \A p \in Processes, t \in Threads : ThreadGoesOn(p, t)

Settles(p) == <>Settled(p)

LEMMA LockIsFreed ==
    ASSUME NEW p \in Processes
    PROVE  Course /\ NoneFails /\ []ThreadsGoOn => (lock[p] # NoThread ~> Settled(p))
<1> SUFFICES ASSUME []HttpInv, []FollowedHolds, [][HttpNext]_allVars,
                    [][NoFailure]_allVars, []ThreadsGoOn
             PROVE  lock[p] # NoThread ~> Settled(p)
  BY PTL DEF Course, NoneFails
<1>1. ASSUME NEW h \in Threads PROVE lock[p] = h => Settles(p)
  <2>1. ThreadGoesOn(p, h)
    <3>1. ThreadsGoOn
      BY PTL
    <3> QED
      BY <3>1 DEF ThreadsGoOn
  <2> QED
    BY <2>1, HolderLeavesIt, PTL DEF Course, NoneFails, HolderLeaves, Settles
<1>2. lock[p] # NoThread => Settles(p)
  <2>1. HttpInv
    BY PTL
  <2> QED
    BY <1>1, <2>1 DEF HttpInv, WsgiInv, TypeOK
<1> QED
  BY <1>2, PTL DEF Settles

\* A thread gets the lock, or finds the wrapper that another has left.
LEMMA WaitingEnds ==
    ASSUME NEW p \in Processes, NEW t \in Threads
    PROVE  Course /\ NoneFails /\ []ThreadsGoOn /\ ThreadGoesOn(p, t) =>
              (IsAt(p, t, "lock") ~> (IsAt(p, t, "return") \/ IsAt(p, t, "build")))
<1>1. HttpInv /\ [HttpNext]_allVars =>
         (IsAt(p, t, "lock") => (IsAt(p, t, "lock") \/ IsAt(p, t, "return") \/ IsAt(p, t, "build"))')
  BY ThreadGoes
<1>2. HttpInv /\ [HttpNext]_allVars => (Settled(p) => Settled(p)')
  BY SettledStays
<1>3. Settled(p) => ~(lock[p] # NoThread)
  BY DEF Settled
<1>4. HttpInv => (IsAt(p, t, "lock") /\ ~(lock[p] # NoThread) => CanPrepare(p, t))
  BY CanGoOn
<1>5. HttpInv /\ <<Prepare(p, t)>>_allVars =>
         (IsAt(p, t, "lock") => (IsAt(p, t, "return") \/ IsAt(p, t, "build"))')
  BY PrepareMoves
<1>6. IsAt(p, t, "lock") => ~IsAt(p, t, "return") /\ ~IsAt(p, t, "build")
  BY DEF IsAt
<1> QED
  BY <1>1, <1>2, <1>3, <1>4, <1>5, <1>6, LockIsFreed, PTL
     DEF Course, NoneFails, ThreadGoesOn, Scheduled, GuardsSuffice

\* Once no constructor fails any more, every request ends.
LEMMA ThreadEnds ==
    ASSUME NEW p \in Processes, NEW t \in Threads
    PROVE  Course /\ NoneFails /\ LoopGoesOn /\ []ThreadsGoOn /\ ThreadGoesOn(p, t) =>
              RequestEnds(p, t)
<1>1. HttpInv => (pc[p][t] # "idle" =>
                    \/ IsAt(p, t, "pid") \/ IsAt(p, t, "lock") \/ IsAt(p, t, "build")
                    \/ IsAt(p, t, "stamp") \/ IsAt(p, t, "return") \/ IsAt(p, t, "serve"))
  BY DEF HttpInv, WsgiInv, TypeOK, IsAt
<1>2. HttpInv /\ [HttpNext]_allVars =>
         /\ IsAt(p, t, "pid") => (IsAt(p, t, "pid") \/ IsAt(p, t, "return") \/ IsAt(p, t, "lock"))'
         /\ IsAt(p, t, "build") => (IsAt(p, t, "build") \/ IsAt(p, t, "stamp") \/ IsAt(p, t, "idle"))'
         /\ IsAt(p, t, "stamp") => (IsAt(p, t, "stamp") \/ IsAt(p, t, "return"))'
         /\ IsAt(p, t, "return") => (IsAt(p, t, "return") \/ IsAt(p, t, "serve"))'
  BY ThreadGoes
<1>3. HttpInv => (IsAt(p, t, "pid") \/ IsAt(p, t, "build") \/ IsAt(p, t, "stamp") \/ IsAt(p, t, "return")
                     => CanPrepare(p, t))
  BY CanGoOn
<1>4. HttpInv /\ <<Prepare(p, t)>>_allVars =>
         /\ IsAt(p, t, "pid") => ~IsAt(p, t, "pid")'
         /\ IsAt(p, t, "build") => ~IsAt(p, t, "build")'
         /\ IsAt(p, t, "stamp") => ~IsAt(p, t, "stamp")'
         /\ IsAt(p, t, "return") => ~IsAt(p, t, "return")'
  BY PrepareMoves DEF IsAt
<1>5. IsAt(p, t, "idle") => pc[p][t] = "idle"
  BY DEF IsAt
<1> QED
  BY <1>1, <1>2, <1>3, <1>4, <1>5, WaitingEnds, ServedThreadEnds, PTL
     DEF Course, ThreadGoesOn, Scheduled, GuardsSuffice, RequestEnds

\* Every request is answered (application, get_wrapper, BodyLimitMiddleware): whenever
\* the server forks, whichever requests race for the first wrapper, whether the
\* application's response or a refusal comes first.  Asked for are the fairness of the
\* specification, at every moment (which is the same as at the first); that a fair action
\* is possible where its guards hold; and that in the end constructors stop failing.
THEOREM EveryRequestEnds ==
    /\ HttpSpec
    /\ []ThreadsGoOn /\ LoopGuardsSuffice
    /\ <>[][NoFailure]_allVars
    => RequestsEnd
<1>1. ASSUME NEW p \in Processes, NEW t \in Threads
      PROVE  /\ []HttpInv /\ []FollowedHolds /\ [][HttpNext]_allVars
             /\ LoopRuns /\ LoopGuardsSuffice /\ []ThreadsGoOn /\ <>[][NoFailure]_allVars
             => RequestEnds(p, t)
  <2>1. ThreadsGoOn => ThreadGoesOn(p, t)
    BY DEF ThreadsGoOn
  <2>2. HttpInv => (pc[p][t] # "idle" <=> ~(pc[p][t] = "idle"))
    OBVIOUS
  <2> QED
    BY <2>1, <2>2, ThreadEnds, PTL DEF Course, NoneFails, LoopGoesOn, LoopRuns, LoopGuardsSuffice, RequestEnds
<1>2. HttpSpec => []HttpInv /\ []FollowedHolds /\ [][HttpNext]_allVars /\ LoopRuns
  BY Invariance, FollowedIsServed, PTL DEF HttpSpec
<1> QED
  BY <1>1, <1>2 DEF RequestsEnd
=============================================================================
