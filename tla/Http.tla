---------------------------------- MODULE Http ----------------------------------
(***************************************************************************)
(* One HTTP request from the WSGI server to its answer, among others: the   *)
(* thread gets a wrapper (WsgiEntry), the wrapper runs the application in   *)
(* the loop of its process, and the middleware (BodyLimit) is the outermost *)
(* part of the application.  Of all requests, one is followed through the   *)
(* middleware; the others are answered in one step.                         *)
(***************************************************************************)
EXTENDS WsgiEntry, Sequences

CONSTANTS Limit, MaxChunk, MaxBody,     \* of BodyLimit
          NoRequest

ASSUME HttpAssumption == /\ Limit \in Nat /\ MaxChunk \in Nat /\ MaxBody \in Nat
                         /\ NoRequest \notin Processes \X Threads

VARIABLES
    followed,   \* the process and thread that serve it
    header, seen, started, refused, receiving, sending, response, passed, wire

Middleware == INSTANCE BodyLimit

request == <<header, seen, started, refused, receiving, sending, response, passed, wire>>

allVars == <<vars, followed, request>>

HttpTypeOK == /\ TypeOK
              /\ Middleware!TypeOK
              /\ followed \in (Processes \X Threads) \cup {NoRequest}

\* Fault: the environ is handed on as it is.
Given_AsIs(length) == length

\* application: an empty CONTENT_LENGTH is none.
Given(length) == IF length = "empty" THEN "absent" ELSE length

HttpInit == /\ Init
            /\ Middleware!Init /\ header = "absent"
            /\ followed = NoRequest

-----------------------------------------------------------------------------

\* Everything up to the wrapper.
Enter == /\ \/ \E p, q \in Processes : Fork(p, q)
            \/ \E p \in Processes, t \in Threads : ReadWrapper(p, t)
         /\ UNCHANGED <<followed, request>>

Prepare(p, t) == /\ GetWrapper(p, t)
                 /\ UNCHANGED <<followed, request>>

\* The call of the wrapper, with the request that is followed and the variables
\* that it has to itself.
Call(p, t, length) == /\ At(p, t, "serve") /\ used[p][t] = p
                      /\ followed = NoRequest
                      /\ followed' = <<p, t>>
                      /\ Middleware!Begin(Given(length))
                      /\ UNCHANGED vars

\* A step of the application in the loop of its wrapper
InLoop == followed # NoRequest /\ UNCHANGED <<vars, followed>>

\* The wrapper returns when the response is complete.
Finish(p, t) ==
    /\ Serve(p, t)
    /\ IF followed = <<p, t>>
       THEN Middleware!Answered /\ followed' = NoRequest /\ Middleware!Begin("absent")
       ELSE UNCHANGED <<followed, request>>

HttpNext == \/ Enter
            \/ \E p \in Processes, t \in Threads :
                  \/ Prepare(p, t)
                  \/ \E length \in Middleware!Headers : Call(p, t, length)
                  \/ Finish(p, t)
            \/ InLoop /\ Middleware!Next

\* Threads are scheduled.
Scheduled(p, t) == WF_allVars(Prepare(p, t)) /\ WF_allVars(Finish(p, t))

\* So are the tasks of a loop; an awaited send ends, and the application answers.
\* The client may stop sending.
LoopRuns == /\ WF_allVars(InLoop /\ Middleware!Receiving)
            /\ WF_allVars(InLoop /\ Middleware!GuardedSend)
            /\ WF_allVars(InLoop /\ Middleware!Emit)

HttpSpec == /\ HttpInit /\ [][HttpNext]_allVars
            /\ \A p \in Processes, t \in Threads : Scheduled(p, t)
            /\ LoopRuns

-----------------------------------------------------------------------------

\* However its two tasks interleave, the client of the request that is followed gets
\* one response, the application's or the refusal, in order.
OneResponse == Middleware!OneResponse

\* The limit bites when it should and only then: an application that has not begun to
\* answer is given no more of the body, and nothing is refused for another reason.
LimitIsExact == Middleware!LimitIsExact

RequestEnds(p, t) == pc[p][t] # "idle" ~> pc[p][t] = "idle"

\* Every request is answered: it hangs neither on a lock that was held at the fork,
\* nor on a loop that does not run, nor in the middleware when it is refused.
RequestsEnd == \A p \in Processes, t \in Threads : RequestEnds(p, t)
=============================================================================
