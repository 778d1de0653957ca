------------------------------ MODULE Lifecycle ------------------------------
(***************************************************************************)
(* The process around the pipeline (__main__.py, context.py): start, the   *)
(* two uvicorn servers, the periodic reconcile, handlers that use the      *)
(* database, the HTTP client and the audit log, and the teardown that      *)
(* closes these while a handler or a reconcile may still hold one.         *)
(*                                                                         *)
(* The servers are external: serve() returns once told to stop and, for    *)
(* the agent server, its handlers are over; or it raises, and then gather  *)
(* leaves the other server's handlers running.                             *)
(***************************************************************************)
EXTENDS AuditLog, FiniteSets

CONSTANTS
    Handler,    \* slots for requests in flight
    MaxLog,     \* bound: events ever logged
    MaxRuns     \* bound: times the process is started

ASSUME LifecycleAssumption ==
    /\ IsFiniteSet(Handler) /\ MaxLog \in Nat /\ MaxRuns \in Nat

VARIABLES
    main,       \* where _serve is
    servers,    \* "up", "draining", "stopped" or "failed", per server
    pc,         \* the handlers
    reconcile,  \* the periodic task: "off", "sleep", "list" or "cancelling"
    database,   \* "open" or "closed"
    client,     \* the HTTP client: "open" or "closed"
    logged,     \* history: log calls so far
    late,       \* history: events logged when the sentinel was in the queue
    lost,       \* history: events in the queue of a process that died
    runs        \* bound: processes started

procVars == <<main, servers, pc, reconcile, database, client>>
lifeVars == <<auditVars, procVars, logged, late, lost, runs>>

Server == {"agent", "admin"}
Idle == [h \in Handler |-> "idle"]

Init ==
    /\ AuditInit
    /\ main = "down" /\ servers = [s \in Server |-> "stopped"] /\ pc = Idle
    /\ reconcile = "off" /\ database = "closed" /\ client = "closed"
    /\ logged = 0 /\ late = {} /\ lost = {} /\ runs = 0

Pending == {queue[k] : k \in DOMAIN queue} \ {Stop}
Asked == writer = "done" \/ \E k \in DOMAIN queue : queue[k] = Stop

LogNext ==
    /\ Log(logged + 1)
    /\ logged' = logged + 1
    /\ late' = IF Asked THEN late \cup {logged + 1} ELSE late
-----------------------------------------------------------------------------
(* Start.                                                                  *)

\* State and AuditLog are made, the writer started, then the first reconcile.
Boot ==
    /\ main = "down" /\ runs < MaxRuns
    /\ main' = "startup" /\ runs' = runs + 1
    /\ database' = "open" /\ client' = "open"
    /\ AuditStart
    /\ UNCHANGED <<servers, pc, reconcile, logged, late, lost>>

\* reconcile_all returned, complete or not: the servers and the periodic task start.
OpenPorts ==
    /\ main = "startup"
    /\ main' = "gather" /\ reconcile' = "sleep"
    /\ servers' = [s \in Server |-> "up"]
    /\ UNCHANGED <<auditVars, pc, database, client, logged, late, lost, runs>>
-----------------------------------------------------------------------------
(* Handlers and the periodic reconcile.                                    *)

Going(h, step) ==
    /\ pc' = [pc EXCEPT ![h] = step]
    /\ UNCHANGED <<main, servers, reconcile, database, client, lost, runs>>

Arrive(h) ==
    /\ servers["agent"] = "up" /\ pc[h] = "idle"
    /\ logged + Cardinality({i \in Handler : pc[i] # "idle"}) < MaxLog
    /\ Going(h, "gate") /\ UNCHANGED <<auditVars, logged, late>>

\* Snapshot, gates and record: a closed database raises, a denial is logged.
Gate(h) ==
    /\ pc[h] = "gate"
    /\ \/ Going(h, "idle") /\ UNCHANGED <<auditVars, logged, late>>
       \/ database = "open" /\ Going(h, "idle") /\ LogNext
       \/ database = "open" /\ Going(h, "send") /\ UNCHANGED <<auditVars, logged, late>>

\* forward: a closed client raises.
Send(h) ==
    /\ pc[h] = "send"
    /\ Going(h, IF client = "open" THEN "await" ELSE "idle")
    /\ UNCHANGED <<auditVars, logged, late>>

\* The forge's answer is logged and relayed, or the call raised.
Reply(h) ==
    /\ pc[h] = "await"
    /\ Going(h, "idle")
    /\ \/ LogNext
       \/ UNCHANGED <<auditVars, logged, late>>

HandlerStep(h) == Gate(h) \/ Send(h) \/ Reply(h)

Reconciling(step) ==
    /\ reconcile' = step
    /\ UNCHANGED <<auditVars, main, servers, pc, database, client, logged, late, lost, runs>>

\* prune, then the first listing is awaited.
WakeUp == reconcile = "sleep" /\ Reconciling("list")

\* A listing is installed in the database; another follows, or the pass is over.
Install == reconcile = "list" /\ \E step \in {"list", "sleep"} : Reconciling(step)

\* CancelledError is no Exception: neither loop of the reconcile catches it.
Cancelled == reconcile = "cancelling" /\ Reconciling("off")
-----------------------------------------------------------------------------
(* Stop.                                                                   *)

Serving(s, status) ==
    /\ servers' = [servers EXCEPT ![s] = status]
    /\ UNCHANGED <<auditVars, main, pc, reconcile, database, client, logged, late, lost, runs>>

\* A signal reaches the servers in either order.
Terminate(s) == servers[s] = "up" /\ Serving(s, "draining")

\* The agent server waits for its handlers.
Drained(s) ==
    /\ servers[s] = "draining"
    /\ s = "agent" => pc = Idle
    /\ Serving(s, "stopped")

ServerFails(s) == servers[s] \in {"up", "draining"} /\ Serving(s, "failed")

\* Fault: gather waits for both servers before it raises (return_exceptions).
OverAll == \A s \in Server : servers[s] \in {"stopped", "failed"}

Over == (\A s \in Server : servers[s] = "stopped") \/ (\E s \in Server : servers[s] = "failed")

\* Fault: the reconcile is cancelled last, after the database is closed.
TeardownUncancelled ==
    /\ main = "gather" /\ Over
    /\ main' = "router"
    /\ UNCHANGED <<auditVars, servers, pc, reconcile, database, client, logged, late, lost, runs>>

\* gather returned or raised; the finally clause cancels the reconcile.
Teardown ==
    /\ main = "gather" /\ Over
    /\ main' = "router"
    /\ reconcile' = IF reconcile = "off" THEN "off" ELSE "cancelling"
    /\ UNCHANGED <<auditVars, servers, pc, database, client, logged, late, lost, runs>>

CloseRouter ==
    /\ main = "router"
    /\ main' = "audit" /\ client' = "closed"
    /\ UNCHANGED <<auditVars, servers, pc, reconcile, database, logged, late, lost, runs>>

StopAudit ==
    /\ main = "audit"
    /\ main' = "join"
    /\ AskToStop
    /\ UNCHANGED <<servers, pc, reconcile, database, client, logged, late, lost, runs>>

\* Fault: the database is closed without waiting for the writer.
CloseStateAtOnce ==
    /\ main = "join"
    /\ main' = "exit" /\ database' = "closed"
    /\ UNCHANGED <<auditVars, servers, pc, reconcile, client, logged, late, lost, runs>>

\* The writer is done: stop returns and the database is closed.
CloseState ==
    /\ main = "join" /\ writer = "done"
    /\ main' = "exit" /\ database' = "closed"
    /\ UNCHANGED <<auditVars, servers, pc, reconcile, client, logged, late, lost, runs>>

End ==
    /\ main' = "down" /\ servers' = [s \in Server |-> "stopped"] /\ pc' = Idle
    /\ reconcile' = "off" /\ database' = "closed" /\ client' = "closed"
    /\ lost' = lost \cup Pending
    /\ AuditReset
    /\ UNCHANGED <<logged, late, runs>>

\* asyncio.run cancels whatever still runs.
Exit == main = "exit" /\ End

\* Killed, or the host goes down.
Crash == main # "down" /\ End
-----------------------------------------------------------------------------
Writer == Run /\ UNCHANGED <<procVars, logged, late, lost, runs>>

MainStep == OpenPorts \/ Teardown \/ CloseRouter \/ StopAudit \/ CloseState \/ Exit

Next ==
    \/ Boot \/ MainStep \/ Crash \/ Writer
    \/ WakeUp \/ Install \/ Cancelled
    \/ \E s \in Server : Terminate(s) \/ Drained(s) \/ ServerFails(s)
    \/ \E h \in Handler : Arrive(h) \/ HandlerStep(h)

Spec == Init /\ [][Next]_lifeVars

\* Every ready task gets its turn, and a server whose handlers are over returns.
\* Nothing is promised of a handler: its client may stall the body of a push, which no
\* timeout bounds, and the drain then waits for it (timeout_graceful_shutdown is unset).
Fairness ==
    /\ WF_lifeVars(MainStep) /\ WF_lifeVars(Writer) /\ WF_lifeVars(Cancelled)
    /\ \A s \in Server : WF_lifeVars(Drained(s))

FairSpec == Spec /\ Fairness
-----------------------------------------------------------------------------
(* Properties.                                                             *)

Events == UNION {{file[k][j] : j \in DOMAIN file[k]} : k \in DOMAIN file}

TypeOK ==
    /\ queue \in Seq((1 .. logged) \cup {Stop}) /\ writer \in {"none", "running", "done"}
    /\ file \in Seq(Seq(1 .. logged)) /\ torn \in BOOLEAN /\ dropped \subseteq 1 .. logged
    /\ main \in {"down", "startup", "gather", "router", "audit", "join", "exit"}
    /\ servers \in [Server -> {"up", "draining", "stopped", "failed"}]
    /\ pc \in [Handler -> {"idle", "gate", "send", "await"}]
    /\ reconcile \in {"off", "sleep", "list", "cancelling"}
    /\ database \in {"open", "closed"} /\ client \in {"open", "closed"}
    /\ logged \in Nat /\ late \subseteq 1 .. logged /\ lost \subseteq 1 .. logged
    /\ runs \in Nat

\* "fail-safe: never block policy on logging": whatever writes fail, every event
\* still reaches the file, was dropped by its own failing write, was in the queue
\* of a process that was killed or failed, or waits for a writer that runs; the
\* order of the log calls is kept, and an event shares its line only with events
\* whose writes fell short (AuditLog._run, _write).
NothingElseLost ==
    /\ 1 .. logged = Events \cup dropped \cup lost \cup Pending
    /\ \A j, k \in DOMAIN file : j < k => file[j][1] < file[k][1]
    /\ \A k \in DOMAIN file : \A j \in DOMAIN file[k] : j < Len(file[k]) => file[k][j] \in dropped

Clean == \A s \in Server : servers[s] = "stopped"

\* An orderly stop loses no event: when the database is closed the queue is empty,
\* unless a server failed, and then only events logged behind the sentinel remain
\* (AppContext.aclose: the audit log stops after the handlers and before the end).
StopDrains == main = "exit" => Pending \subseteq late /\ (Clean => late \cap Pending = {})

\* The reconcile never works behind the teardown's back: a task that can still prune
\* or install a listing has the database open (_run_servers' finally clause).
ClosedDatabaseUnused == reconcile \in {"sleep", "list"} => database = "open"

Failed == \E s \in Server : servers[s] = "failed"

Told == \A s \in Server : servers[s] # "up"

\* Every handler ends again and again: no client stalls its request for ever.
ClientsGoOn == \A h \in Handler : []<>(pc[h] = "idle")

\* The failure of one server ends the process, though the other is up or drains and
\* clients stall their requests for ever; a stop signal to both ends it as soon as
\* every request in flight ends.  Writes may fail, the reconcile may be anywhere, and
\* late handlers may go on logging (_run_servers, AuditLog.stop).
StopEnds ==
    /\ main = "gather" /\ Failed ~> main = "down"
    /\ ClientsGoOn => (main = "gather" /\ Told ~> main = "down")
=============================================================================
