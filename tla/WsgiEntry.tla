------------------------------- MODULE WsgiEntry -------------------------------
(***************************************************************************)
(* The WSGI entry point (wsgi.py): a process builds the wrapper that runs   *)
(* the application on its first request.  A fork copies the memory of the   *)
(* process but none of its threads, and the loop of a wrapper is a thread:  *)
(* the child must build a wrapper of its own.  Process ids are taken to be  *)
(* unique.                                                                  *)
(***************************************************************************)
EXTENDS Naturals

CONSTANTS Processes, Master,    \* all process ids, and the one that imports wsgi.py
          Threads,              \* the threads that serve requests in a process
          MaxFailures,          \* bound on the constructions that fail
          NoProcess, NoThread

ASSUME WsgiAssumption == /\ Master \in Processes
                         /\ MaxFailures \in Nat
                         /\ NoProcess \notin Processes /\ NoThread \notin Threads

VARIABLES
    alive,          \* the processes there are
    wrapper,        \* _wrapper of each process: whose thread its loop is
    wrapper_pid,    \* _wrapper_pid of each process
    lock,           \* the holder of _lock in each process
    pc,             \* where each thread is
    used,           \* the wrapper a thread calls with its request
    built,          \* history: how many wrappers each process constructed
    failures        \* how many constructions failed

vars == <<alive, wrapper, wrapper_pid, lock, pc, used, built, failures>>

TypeOK == /\ Master \in alive /\ alive \subseteq Processes
          /\ wrapper \in [Processes -> Processes \cup {NoProcess}]
          /\ wrapper_pid \in [Processes -> Processes \cup {NoProcess}]
          /\ lock \in [Processes -> Threads \cup {NoThread}]
          /\ pc \in [Processes -> [Threads ->
                       {"idle", "pid", "lock", "build", "stamp", "return", "serve"}]]
          /\ used \in [Processes -> [Threads -> Processes \cup {NoProcess}]]
          /\ built \in [Processes -> Nat]
          /\ failures \in 0..MaxFailures
          /\ \A p \in Processes, t \in Threads :
                lock[p] = t <=> pc[p][t] \in {"build", "stamp"}

Init == /\ alive = {Master}
        /\ wrapper = [p \in Processes |-> NoProcess]
        /\ wrapper_pid = wrapper
        /\ lock = [p \in Processes |-> NoThread]
        /\ pc = [p \in Processes |-> [t \in Threads |-> "idle"]]
        /\ used = [p \in Processes |-> [t \in Threads |-> NoProcess]]
        /\ built = [p \in Processes |-> 0]
        /\ failures = 0

At(p, t, at) == p \in alive /\ pc[p][t] = at
Goto(p, t, at) == pc' = [pc EXCEPT ![p][t] = at]

\* Fault: any wrapper will do.
IsOwn_Any(p) == TRUE

IsOwn(p) == wrapper_pid[p] = p

\* Fault: the thread that gets the lock does not check again.
Stale_Always(p) == TRUE

Stale(p) == wrapper[p] = NoProcess \/ ~IsOwn(p)

Released(p) == [lock EXCEPT ![p] = NoThread]

-----------------------------------------------------------------------------

\* Fault: the copy of the lock stays as it was at the fork.
ForkedLock_Copied(p) == lock[p]

\* _after_fork_in_child
ForkedLock(p) == NoThread

\* The server forks, whatever the threads of the parent are doing.  The
\* threads of the child are new.
Fork(p, q) == /\ p \in alive /\ q \notin alive
              /\ alive' = alive \cup {q}
              /\ wrapper' = [wrapper EXCEPT ![q] = wrapper[p]]
              /\ wrapper_pid' = [wrapper_pid EXCEPT ![q] = wrapper_pid[p]]
              /\ lock' = [lock EXCEPT ![q] = ForkedLock(p)]
              /\ UNCHANGED <<pc, used, built, failures>>

\* A request comes in.  The first check reads two variables without the lock.
ReadWrapper(p, t) ==
    /\ At(p, t, "idle")
    /\ Goto(p, t, IF wrapper[p] = NoProcess THEN "lock" ELSE "pid")
    /\ UNCHANGED <<alive, wrapper, wrapper_pid, lock, used, built, failures>>

ReadPid(p, t) ==
    /\ At(p, t, "pid")
    /\ Goto(p, t, IF IsOwn(p) THEN "return" ELSE "lock")
    /\ UNCHANGED <<alive, wrapper, wrapper_pid, lock, used, built, failures>>

\* The second check, with the lock: nobody else is between Build and Stamp.
Acquire(p, t) ==
    /\ At(p, t, "lock") /\ lock[p] = NoThread
    /\ IF Stale(p) THEN lock' = [lock EXCEPT ![p] = t] /\ Goto(p, t, "build")
                   ELSE Goto(p, t, "return") /\ UNCHANGED lock
    /\ UNCHANGED <<alive, wrapper, wrapper_pid, used, built, failures>>

Build(p, t) == /\ At(p, t, "build")
               /\ wrapper' = [wrapper EXCEPT ![p] = p]
               /\ built' = [built EXCEPT ![p] = @ + 1]
               /\ Goto(p, t, "stamp")
               /\ UNCHANGED <<alive, wrapper_pid, lock, used, failures>>

\* The constructor raises (it may not get its thread): the request fails, and
\* the `with` block releases the lock.
BuildFails(p, t) ==
    /\ At(p, t, "build") /\ failures < MaxFailures
    /\ failures' = failures + 1
    /\ lock' = Released(p)
    /\ Goto(p, t, "idle")
    /\ UNCHANGED <<alive, wrapper, wrapper_pid, used, built>>

Stamp(p, t) == /\ At(p, t, "stamp")
               /\ wrapper_pid' = [wrapper_pid EXCEPT ![p] = p]
               /\ lock' = Released(p)
               /\ Goto(p, t, "return")
               /\ UNCHANGED <<alive, wrapper, used, built, failures>>

\* `return _wrapper` reads the variable again.
Return(p, t) == /\ At(p, t, "return")
                /\ used' = [used EXCEPT ![p][t] = wrapper[p]]
                /\ Goto(p, t, "serve")
                /\ UNCHANGED <<alive, wrapper, wrapper_pid, lock, built, failures>>

\* The call of the wrapper returns if its loop runs.
Serve(p, t) == /\ At(p, t, "serve") /\ used[p][t] = p
               /\ used' = [used EXCEPT ![p][t] = NoProcess]
               /\ Goto(p, t, "idle")
               /\ UNCHANGED <<alive, wrapper, wrapper_pid, lock, built, failures>>

\* What a thread does once it has a request, until it has a wrapper.
GetWrapper(p, t) == \/ ReadPid(p, t) \/ Acquire(p, t)
                    \/ Build(p, t) \/ BuildFails(p, t) \/ Stamp(p, t)
                    \/ Return(p, t)

Next == \/ \E p, q \in Processes : Fork(p, q)
        \/ \E p \in Processes, t \in Threads :
              ReadWrapper(p, t) \/ GetWrapper(p, t) \/ Serve(p, t)

Spec == Init /\ [][Next]_vars

-----------------------------------------------------------------------------

\* No request is handed "to a loop that no longer runs": whenever the process
\* forked, a request is served by a wrapper built in its own process.
UsesOwnWrapper == \A p \in Processes, t \in Threads :
                     pc[p][t] = "serve" => used[p][t] = p

\* Requests that race for the first wrapper construct one.
BuildsOnce == \A p \in Processes : built[p] <= 1
=============================================================================
