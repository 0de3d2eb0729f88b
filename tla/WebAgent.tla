------------------------------ MODULE WebAgent -------------------------------
(***************************************************************************)
(* The web console's scheduler thread (inbox_agent/web/agent_manager.py):  *)
(* requests start, stop and show the scheduler of module Service, which    *)
(* runs as the thread Web of the server process, next to schedulers of     *)
(* other processes.  A request probes the very lock the thread needs.      *)
(* If the server process dies, all this is as at the start again and the   *)
(* lock is free: module Service has that case as Crash.                    *)
(***************************************************************************)
EXTENDS Service

CONSTANTS
    Web,            \* the runner that is this process's thread
    Requests        \* concurrent requests to the manager

ASSUME WebAssumption == Web \in Runners /\ Requests \subseteq Probers

VARIABLES
    mutex,          \* who holds the manager's RLock
    thread,         \* the thread: none (or dead), serving, failed, ending
    managed,        \* _runner, _database and _thread are set
    stopping,       \* _stopping
    req,            \* per request: next step
    owned,          \* per request: its copy of "a thread of ours is alive"
    server          \* the web server: up, closing, joining, down

managerVars == <<mutex, thread, managed, stopping>>
webVars     == <<managerVars, req, owned, server>>
agentVars   == <<serviceVars, webVars>>

RequestSteps == {"idle", "start", "start_probe", "launch", "stop", "stop_probe",
                 "status", "status_probe", "external"}
ThreadStates == {"none", "serving", "failed", "ending"}
ServerStates == {"up", "closing", "joining", "down"}

Alive == managed /\ thread # "none"

WebInit ==
    /\ ServiceInit
    /\ mutex = NoOne
    /\ thread = "none"
    /\ managed = FALSE
    /\ stopping = FALSE
    /\ req = [q \in Requests |-> "idle"]
    /\ owned = [q \in Requests |-> FALSE]
    /\ server = "up"

-----------------------------------------------------------------------------
Await(q, step) == req' = [req EXCEPT ![q] = step]

(* The server hands a request to a worker thread of its own.               *)
Receive(q) ==
    /\ server = "up"
    /\ req[q] = "idle"
    /\ \E step \in {"start", "stop", "status"} : Await(q, step)
    /\ UNCHANGED <<serviceVars, managerVars, owned, server>>

(* Plausible bug: start_sync looks for the thread before it locks.         *)
StartLocksUnchecked(q) ==
    /\ req[q] = "start"
    /\ mutex = NoOne
    /\ Await(q, "start_probe")
    /\ mutex' = q
    /\ UNCHANGED <<serviceVars, thread, managed, stopping, owned, server>>

(* start_sync: SYNC_ALREADY_RUNNING, or on with the lock held.             *)
StartLocks(q) ==
    /\ req[q] = "start"
    /\ mutex = NoOne
    /\ IF Alive
         THEN Await(q, "idle") /\ UNCHANGED mutex
         ELSE Await(q, "start_probe") /\ mutex' = q
    /\ UNCHANGED <<serviceVars, thread, managed, stopping, owned, server>>

(* inspect_service, within start_sync, stop_sync or status.                *)
Inspect(q) ==
    /\ req[q] \in {"start_probe", "stop_probe", "status_probe"}
    /\ ProbeFree(q) \/ ProbeBusy(q) \/ ProbeEnds(q)
    /\ UNCHANGED webVars

(* EXTERNAL_SYNC_ACTIVE, or build a runner.                                *)
StartInspected(q) ==
    /\ req[q] = "start_probe"
    /\ Dismiss(q)
    /\ IF report[q] = "active"
         THEN Await(q, "idle") /\ mutex' = NoOne
         ELSE Await(q, "launch") /\ UNCHANGED mutex
    /\ UNCHANGED <<thread, managed, stopping, owned, server>>

Launch(q) ==
    /\ req[q] = "launch"
    /\ Start(Web, FALSE)
    /\ thread' = "serving"
    /\ managed' = TRUE
    /\ stopping' = FALSE
    /\ mutex' = NoOne
    /\ Await(q, "status")
    /\ UNCHANGED <<owned, server>>

(* request_stop, on a runner that may have finished already.               *)
AskToStop ==
    /\ stopping' = TRUE
    /\ IF pc[Web] # "idle" THEN RequestStop(Web) ELSE UNCHANGED serviceVars

StopLocks(q) ==
    /\ req[q] = "stop"
    /\ mutex = NoOne
    /\ IF Alive
         THEN AskToStop /\ Await(q, "status") /\ UNCHANGED mutex
         ELSE /\ Await(q, "stop_probe")
              /\ mutex' = q
              /\ UNCHANGED <<serviceVars, stopping>>
    /\ UNCHANGED <<thread, managed, owned, server>>

(* EXTERNAL_SYNC_ACTIVE or SYNC_NOT_RUNNING.                               *)
StopInspected(q) ==
    /\ req[q] = "stop_probe"
    /\ Dismiss(q)
    /\ Await(q, "idle")
    /\ mutex' = NoOne
    /\ UNCHANGED <<thread, managed, stopping, owned, server>>

(* status: the flags are copied under the lock, the probe comes after it.  *)
StatusCopies(q) ==
    /\ req[q] = "status"
    /\ mutex = NoOne
    /\ owned' = [owned EXCEPT ![q] = Alive]
    /\ Await(q, "status_probe")
    /\ UNCHANGED <<serviceVars, managerVars, server>>

StatusInspected(q) ==
    /\ req[q] = "status_probe"
    /\ Dismiss(q)
    /\ Await(q, IF report[q] = "active" /\ ~owned[q] THEN "external" ELSE "idle")
    /\ owned' = [owned EXCEPT ![q] = FALSE]
    /\ UNCHANGED <<managerVars, server>>

(* The answer shows sync_external.                                         *)
Answer(q) ==
    /\ req[q] = "external"
    /\ Await(q, "idle")
    /\ UNCHANGED <<serviceVars, managerVars, owned, server>>

-----------------------------------------------------------------------------
(* _serve: serve() has returned, or raised and its error is kept.          *)
ServeReturns ==
    /\ thread = "serving"
    /\ pc[Web] = "idle"
    /\ thread' \in {"failed", "ending"}
    /\ UNCHANGED <<serviceVars, mutex, managed, stopping, req, owned, server>>

KeepError ==
    /\ thread = "failed"
    /\ mutex = NoOne
    /\ thread' = "ending"
    /\ UNCHANGED <<serviceVars, mutex, managed, stopping, req, owned, server>>

(* Plausible bug: the finally clause forgets the flag.                     *)
ThreadEndsStopping ==
    /\ thread = "ending"
    /\ mutex = NoOne
    /\ thread' = "none"
    /\ managed' = FALSE
    /\ UNCHANGED <<serviceVars, mutex, stopping, req, owned, server>>

ThreadEnds ==
    /\ thread = "ending"
    /\ mutex = NoOne
    /\ thread' = "none"
    /\ managed' = FALSE
    /\ stopping' = FALSE
    /\ UNCHANGED <<serviceVars, mutex, req, owned, server>>

-----------------------------------------------------------------------------
(* The server shuts down once its requests have been answered.             *)
ServerCloses ==
    /\ server = "up"
    /\ \A q \in Requests : req[q] = "idle"
    /\ server' = "closing"
    /\ UNCHANGED <<serviceVars, managerVars, req, owned>>

(* Plausible bug: the thread is joined with the lock held.                 *)
ShutdownAsksLocked ==
    /\ server = "closing"
    /\ mutex = NoOne
    /\ mutex' = Web
    /\ IF Alive THEN AskToStop ELSE UNCHANGED <<serviceVars, stopping>>
    /\ server' = "joining"
    /\ UNCHANGED <<thread, managed, req, owned>>

(* shutdown: ask the thread to stop under the lock, join it without.       *)
ShutdownAsks ==
    /\ server = "closing"
    /\ mutex = NoOne
    /\ IF Alive THEN AskToStop ELSE UNCHANGED <<serviceVars, stopping>>
    /\ server' = "joining"
    /\ UNCHANGED <<mutex, thread, managed, req, owned>>

ShutdownJoins ==
    /\ server = "joining"
    /\ thread = "none"
    /\ server' = "down"
    /\ UNCHANGED <<serviceVars, managerVars, req, owned>>

ServerStarts ==
    /\ server = "down"
    /\ server' = "up"
    /\ UNCHANGED <<serviceVars, managerVars, req, owned>>

-----------------------------------------------------------------------------
Request(q) ==
    \/ StartLocks(q) \/ Inspect(q) \/ StartInspected(q) \/ Launch(q)
    \/ StopLocks(q) \/ StopInspected(q)
    \/ StatusCopies(q) \/ StatusInspected(q) \/ Answer(q)

Thread == ServeReturns \/ KeepError \/ ThreadEnds
Shutdown == ShutdownAsks \/ ShutdownJoins

Elsewhere ==
    \/ \E r \in Runners : Step(r)
    \/ Raise(Web)
    \/ \E r \in Runners \ {Web} :
          Mishap(r) \/ \E single \in BOOLEAN : Start(r, single)
    \/ \E p \in Probers \ Requests : Probe(p)

WebNext ==
    \/ \E q \in Requests : Receive(q) \/ Request(q)
    \/ Thread
    \/ ServerCloses \/ Shutdown \/ ServerStarts
    \/ Elsewhere /\ UNCHANGED webVars

(* Threads are scheduled, and the workflow's requests time out.            *)
WebSpec ==
    /\ WebInit /\ [][WebNext]_agentVars
    /\ WF_agentVars(Step(Web) /\ UNCHANGED webVars)
    /\ \A q \in Requests : WF_agentVars(Request(q))
    /\ WF_agentVars(Thread)
    /\ WF_agentVars(Shutdown)

-----------------------------------------------------------------------------
WebTypeOK ==
    /\ ServiceTypeOK
    /\ mutex \in Requests \cup {NoOne}
    /\ thread \in ThreadStates
    /\ managed \in BOOLEAN
    /\ stopping \in BOOLEAN
    /\ req \in [Requests -> RequestSteps]
    /\ owned \in [Requests -> BOOLEAN]
    /\ server \in ServerStates

(* What the console shows is so: a managed thread exists exactly while one *)
(* is set, and "stopping" is shown only of a runner that was asked to stop *)
(* or has already finished, never of the next one.                         *)
FlagsAreTrue ==
    /\ managed <=> thread # "none"
    /\ pc[Web] # "idle" => thread = "serving"
    /\ stopping => managed /\ (stop[Web] \/ pc[Web] = "idle")

(* A second start never begins while the first thread is not quite gone,   *)
(* with its runner, its database handle and its last words under the lock. *)
NoStartOverAnEnding ==
    [][thread' = "serving" /\ thread # "serving" => thread = "none"]_agentVars

(* Closing the server ends: the join never waits for a thread that waits   *)
(* for the manager's lock, or for a stop request it did not see.           *)
ShutdownEnds == server = "closing" ~> server = "down"

(* Why it does: once the server closes no request is left that could hold  *)
(* the lock or start a thread, the thread that is waited for was asked to  *)
(* stop or has finished, and a server that is down leaves none behind.     *)
JoinIsSafe ==
    server # "up" =>
        /\ mutex = NoOne /\ \A q \in Requests : req[q] = "idle"
        /\ server = "joining" /\ thread # "none" => stop[Web] \/ pc[Web] = "idle"
        /\ server = "down" => thread = "none"

-----------------------------------------------------------------------------
(* What the documents say and the code does not do.                        *)

(* stage4_local_scheduler.md: a start is refused when another service      *)
(* start or run-once holds the lock.                                       *)
RefusedOnlyByService ==
    [][\A r \in Runners :
          pc[r] = "acquire" /\ pc'[r] = "refused" => lock \in Runners]_agentVars
=============================================================================
