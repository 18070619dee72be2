------------------------------- MODULE BodyLimit -------------------------------
(***************************************************************************)
(* BodyLimitMiddleware (agentic/middleware.py) during one HTTP request.     *)
(* The application may be receiving the body in one task while it sends its *)
(* response in another; a task can be suspended at each await, before what  *)
(* it awaits has happened.                                                  *)
(***************************************************************************)
EXTENDS Naturals, SequencesExt

CONSTANTS Limit,        \* max_body_bytes
          MaxChunk,     \* bound on the bytes in a message of the body
          MaxBody       \* bound on the bytes of the body

VARIABLES
    header,         \* the Content-Length of the request, as the middleware gets it
    seen, started, refused,     \* the variables of the two closures
    receiving,      \* where the task that receives is
    sending,        \* what the task that sends waits to put on the wire
    response,       \* how far the application is with its response
    passed,         \* history: bytes given to the application before it started
    wire            \* what the client gets

vars == <<header, seen, started, refused, receiving, sending, response, passed, wire>>

Messages == [from : {"app", "413"}, type : {"start", "body"}]
Nothing == {}       \* no message is waiting to be sent

\* Empty and garbled are no numbers.
Headers == {"absent", "fits", "over", "empty", "garbled"}

TypeOK == /\ header \in Headers
          /\ seen \in 0..MaxBody
          /\ started \in BOOLEAN /\ refused \in BOOLEAN
          /\ receiving \in {"called", "idle", "start", "body", "gone", "never"}
          /\ sending \in {Nothing} \cup {{m} : m \in Messages}
          /\ response \in {"none", "start", "end"}
          /\ passed \in 0..MaxBody
          /\ wire \in Seq(Messages)

Init == /\ header \in Headers
        /\ seen = 0 /\ started = FALSE /\ refused = FALSE
        /\ receiving = "called"
        /\ sending = Nothing
        /\ response = "none"
        /\ passed = 0
        /\ wire = <<>>

\* The next request begins in the same way, with variables of its own.
Begin(h) == /\ header' = h
            /\ seen' = 0 /\ started' = FALSE /\ refused' = FALSE
            /\ receiving' = "called"
            /\ sending' = Nothing
            /\ response' = "none"
            /\ passed' = 0
            /\ wire' = <<>>

Put(from, type) == wire' = Append(wire, [from |-> from, type |-> type])

\* A Content-Length over the limit, or one that is no number: the application
\* is never called.
DeclaredTooBig == header \in {"over", "empty", "garbled"}

RefuseDeclared ==
    /\ receiving = "called" /\ DeclaredTooBig
    /\ wire' = wire \o <<[from |-> "413", type |-> "start"], [from |-> "413", type |-> "body"]>>
    /\ receiving' = "never"
    /\ UNCHANGED <<header, seen, started, refused, sending, response, passed>>

CallApp == /\ receiving = "called" /\ ~DeclaredTooBig
           /\ receiving' = "idle"
           /\ UNCHANGED <<header, seen, started, refused, sending, response, passed, wire>>

\* Fault: each message is compared with the limit on its own.
TooBig_EachAlone(size) == size > Limit /\ ~started

TooBig(size) == seen + size > Limit /\ ~started

\* counting_receive, up to the refusal or with a message for the application
Receive(size) ==
    /\ receiving = "idle" /\ ~refused
    /\ seen + size <= MaxBody
    /\ seen' = seen + size
    /\ IF TooBig(size)
       THEN refused' = TRUE /\ receiving' = "start" /\ UNCHANGED passed
       ELSE passed' = (IF started THEN passed ELSE passed + size) /\ UNCHANGED <<refused, receiving>>
    /\ UNCHANGED <<header, started, sending, response, wire>>

\* _refuse awaits twice, then the application is told that the client is gone.
RefuseStart == /\ receiving = "start"
               /\ Put("413", "start")
               /\ receiving' = "body"
               /\ UNCHANGED <<header, seen, started, refused, sending, response, passed>>

RefuseBody == /\ receiving = "body"
              /\ Put("413", "body")
              /\ receiving' = "gone"
              /\ UNCHANGED <<header, seen, started, refused, sending, response, passed>>

\* What the application sends next: its start, then its body.
NextType == IF response = "none" THEN "start" ELSE "body"

AppRuns == receiving \notin {"called", "never"}

CanSend == AppRuns /\ sending = Nothing

\* Fault: nothing is dropped.
Dropped_Never == FALSE

\* Anything the application says after a refusal is dropped.
Dropped == refused

\* guarded_send, up to its await
GuardedSend ==
    /\ CanSend /\ response # "end"
    /\ response' = IF response = "none" THEN "start" ELSE "end"
    /\ IF Dropped
       THEN UNCHANGED <<sending, started>>
       ELSE /\ sending' = sending \cup {[from |-> "app", type |-> NextType]}
            /\ started' = (started \/ NextType = "start")
    /\ UNCHANGED <<header, seen, refused, receiving, passed, wire>>

Emit == \E m \in Messages : /\ sending = {m}
                            /\ Put(m.from, m.type)
                            /\ sending' = Nothing
                            /\ UNCHANGED <<header, seen, started, refused, receiving, response, passed>>

Receiving == RefuseDeclared \/ CallApp \/ RefuseStart \/ RefuseBody

Next == \/ Receiving
        \/ \E size \in 0..MaxChunk : Receive(size)
        \/ GuardedSend
        \/ Emit

Spec == Init /\ [][Next]_vars

-----------------------------------------------------------------------------

Response(from) == <<[from |-> from, type |-> "start"], [from |-> from, type |-> "body"]>>

\* However the two tasks interleave, the client gets one response, whole and in
\* order: the application's or the refusal.
OneResponse == \E from \in {"app", "413"} : IsPrefix(wire, Response(from))

\* "cut off ... before the app sees the rest": an application that has not
\* begun to answer is never given more than the limit.
AppSeesAtMostLimit == passed <= Limit

\* "Dropping the empty value restores "no declared length"": a request is refused
\* only if its body is too long, or is declared to be, or its length is no number.
RefusedForItsLength ==
    [from |-> "413", type |-> "start"] \in ToSet(wire) =>
       seen > Limit \/ header \in {"over", "garbled"}

\* The limit bites when it should, and only then.
LimitIsExact == AppSeesAtMostLimit /\ RefusedForItsLength

Answered == wire \in {Response("app"), Response("413")}
=============================================================================
