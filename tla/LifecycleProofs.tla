--------------------------- MODULE LifecycleProofs ---------------------------
(***************************************************************************)
(* The order of the teardown, what an orderly stop promises of the audit   *)
(* log, and what becomes of every event, for any number of handlers,       *)
(* events and runs of the process.                                         *)
(***************************************************************************)
EXTENDS Lifecycle, SequenceTheorems, TLAPS

\* Where main is, what is open, and what still runs then.
StagesSound ==
    /\ main \notin {"down", "exit"} => database = "open"
    /\ main # "gather" => reconcile \notin {"sleep", "list"}
    /\ main \in {"router", "audit", "join", "exit"} => Over
    /\ servers["agent"] = "stopped" => pc = Idle
    /\ main \in {"down", "startup"} => pc = Idle /\ servers = [s \in Server |-> "stopped"]

\* The writer's life, and the one sentinel: what is behind it was logged late, and late
\* events are those of handlers a failed server left running.
SentinelSound ==
    /\ writer = "none" <=> main = "down"
    /\ writer = "done" => main \in {"join", "exit"}
    /\ main = "exit" => writer = "done"
    /\ main = "join" => Asked
    /\ writer = "none" => queue = <<>>
    /\ torn => file # <<>>
    /\ writer = "done" => \A k \in DOMAIN queue : queue[k] \in late
    /\ \A k \in DOMAIN queue : queue[k] = Stop =>
           main = "join" /\ \A j \in DOMAIN queue : j > k => queue[j] \in late
    /\ \A k \in DOMAIN queue : queue[k] \in late => \E s \in Server : servers[s] = "failed"

LifeInv == TypeOK /\ StagesSound /\ SentinelSound
-----------------------------------------------------------------------------
LEMMA SeqWiden ==
    ASSUME NEW S, NEW T, S \subseteq T, NEW s \in Seq(S)
    PROVE  s \in Seq(T)
<1>1. \A k \in 1 .. Len(s) : s[k] \in T
  OBVIOUS
<1>2. Len(s) \in Nat /\ s = [k \in 1 .. Len(s) |-> s[k]]
  OBVIOUS
<1>3. QED
  BY <1>1, <1>2

\* One more event in the log's count: what holds older events still does.
LEMMA LogType ==
    ASSUME TypeOK, LogNext
    PROVE  /\ queue' \in Seq((1 .. logged') \cup {Stop}) /\ file' \in Seq(Seq(1 .. logged'))
           /\ writer' = writer /\ torn' = torn /\ dropped' = dropped
           /\ dropped \subseteq 1 .. logged' /\ lost \subseteq 1 .. logged'
           /\ late' \subseteq 1 .. logged' /\ logged' \in Nat
<1>1. /\ logged \in Nat /\ logged' = logged + 1 /\ 1 .. logged \subseteq 1 .. logged'
      /\ logged + 1 \in 1 .. logged'
      /\ queue' = Append(queue, logged + 1) /\ UNCHANGED <<writer, file, torn, dropped>>
      /\ late' \subseteq late \cup {logged + 1}
  BY DEF TypeOK, LogNext, Log
<1>2. queue \in Seq((1 .. logged') \cup {Stop})
  BY <1>1, SeqWiden DEF TypeOK
<1>3. queue' \in Seq((1 .. logged') \cup {Stop})
  BY <1>1, <1>2
<1>4. Seq(1 .. logged) \subseteq Seq(1 .. logged')
  BY <1>1, SeqWiden
<1>5. file \in Seq(Seq(1 .. logged'))
  BY <1>4, SeqWiden DEF TypeOK
<1>6. QED
  BY <1>1, <1>3, <1>5 DEF TypeOK

LEMMA WriteType ==
    ASSUME TypeOK, torn => file # <<>>, NEW e \in 1 .. logged, Write(e)
    PROVE  /\ file' \in Seq(Seq(1 .. logged)) /\ torn' \in BOOLEAN /\ dropped' \subseteq 1 .. logged
           /\ torn' => file' # <<>>
<1>1. file \in Seq(Seq(1 .. logged)) /\ dropped \subseteq 1 .. logged /\ torn \in BOOLEAN
  BY DEF TypeOK
<1>2. <<e>> \in Seq(1 .. logged)
  OBVIOUS
<1>3. ASSUME AppendEvent(e)
      PROVE  file' \in Seq(Seq(1 .. logged)) /\ file' # <<>>
  <2>1. CASE torn
    <3>1. file' = [file EXCEPT ![Len(file)] = Append(@, e)]
      BY <1>3, <2>1 DEF AppendEvent
    <3>2. Len(file) \in 1 .. Len(file) /\ file[Len(file)] \in Seq(1 .. logged)
      BY <1>1, <2>1
    <3>3. Append(file[Len(file)], e) \in Seq(1 .. logged)
      BY <3>2
    <3>4. QED
      BY <1>1, <3>1, <3>2, <3>3
  <2>2. CASE ~torn
    BY <1>1, <1>2, <1>3, <2>2 DEF AppendEvent
  <2>3. QED
    BY <2>1, <2>2
<1>4. dropped \cup {e} \subseteq 1 .. logged
  BY <1>1
<1>5. CASE AppendEvent(e) /\ torn' = FALSE /\ UNCHANGED dropped
  BY <1>1, <1>3, <1>5
<1>6. CASE AppendEvent(e) /\ torn' = TRUE /\ dropped' = dropped \cup {e}
  BY <1>3, <1>4, <1>6
<1>7. CASE dropped' = dropped \cup {e} /\ UNCHANGED <<file, torn>>
  BY <1>1, <1>4, <1>7
<1>8. QED
  BY <1>5, <1>6, <1>7 DEF Write

LEMMA InitLife == Init => LifeInv
<1> SUFFICES ASSUME Init PROVE LifeInv
  OBVIOUS
<1>1. /\ queue = <<>> /\ writer = "none" /\ file = <<>> /\ torn = FALSE /\ dropped = {}
      /\ main = "down" /\ servers = [s \in Server |-> "stopped"] /\ pc = Idle
      /\ reconcile = "off" /\ database = "closed" /\ client = "closed"
      /\ logged = 0 /\ late = {} /\ lost = {} /\ runs = 0
  BY DEF Init, AuditInit
<1>2. TypeOK
  <2>1. <<>> \in Seq((1 .. logged) \cup {Stop}) /\ <<>> \in Seq(Seq(1 .. logged))
    OBVIOUS
  <2>2. QED
    BY <1>1, <2>1 DEF TypeOK, Idle
<1>3. StagesSound
  BY <1>1 DEF StagesSound, Over
<1>4. SentinelSound
  BY <1>1 DEF SentinelSound, Asked
<1>5. QED
  BY <1>2, <1>3, <1>4 DEF LifeInv
-----------------------------------------------------------------------------
(* Steps that leave the log alone.                                         *)

LEMMA QuietLife ==
    ASSUME LifeInv, UNCHANGED <<auditVars, logged, late>>,
           \/ OpenPorts \/ Teardown \/ CloseRouter \/ CloseState
           \/ WakeUp \/ Install \/ Cancelled
           \/ \E s \in Server : Terminate(s) \/ Drained(s) \/ ServerFails(s)
           \/ \E h \in Handler : Arrive(h) \/ HandlerStep(h)
           \/ UNCHANGED lifeVars
    PROVE  LifeInv'
<1>1. UNCHANGED <<queue, writer, file, torn, dropped, logged, late>>
  BY DEF auditVars
<1>2. Asked' = Asked
  BY <1>1 DEF Asked
<1>3. ASSUME OpenPorts \/ Teardown \/ CloseRouter \/ CloseState
      PROVE  LifeInv'
  <2>1. UNCHANGED <<pc, lost, runs>>
    BY <1>3 DEF OpenPorts, Teardown, CloseRouter, CloseState
  <2>2. CASE OpenPorts
    <3>1. TypeOK'
      BY <1>1, <2>1, <2>2 DEF OpenPorts, LifeInv, TypeOK
    <3>2. StagesSound'
      BY <2>1, <2>2 DEF OpenPorts, LifeInv, StagesSound, Server
    <3>3. SentinelSound'
      BY <1>1, <1>2, <2>2 DEF OpenPorts, LifeInv, SentinelSound, StagesSound, Idle, Server
    <3>4. QED
      BY <3>1, <3>2, <3>3 DEF LifeInv
  <2>3. CASE Teardown \/ CloseRouter \/ CloseState
    <3>1. UNCHANGED servers /\ main \in {"gather", "router", "join"}
      BY <2>3 DEF Teardown, CloseRouter, CloseState
    <3>2. TypeOK'
      BY <1>1, <2>1, <2>3, <3>1 DEF Teardown, CloseRouter, CloseState, LifeInv, TypeOK
    <3>3. StagesSound'
      BY <2>1, <2>3, <3>1 DEF Teardown, CloseRouter, CloseState, LifeInv, TypeOK, StagesSound,
             Over
    <3>4. SentinelSound'
      <4>1. writer = "done" => \A k \in DOMAIN queue : queue[k] # Stop
        BY DEF LifeInv, TypeOK, SentinelSound, Stop
      <4>2. SentinelSound
        BY DEF LifeInv
      <4>3. CASE Teardown \/ CloseRouter
        BY <1>1, <1>2, <3>1, <4>2, <4>3 DEF Teardown, CloseRouter, SentinelSound
      <4>4. CASE CloseState
        <5>1. main = "join" /\ main' = "exit" /\ writer = "done"
          BY <4>4 DEF CloseState
        <5>2. QED
          BY <1>1, <1>2, <3>1, <4>1, <4>2, <5>1 DEF SentinelSound
      <4>5. QED
        BY <2>3, <4>3, <4>4
    <3>5. QED
      BY <3>2, <3>3, <3>4 DEF LifeInv
  <2>4. QED
    BY <1>3, <2>2, <2>3
<1>4. ASSUME WakeUp \/ Install \/ Cancelled
      PROVE  LifeInv'
  BY <1>1, <1>2, <1>4 DEF WakeUp, Install, Cancelled, Reconciling, LifeInv, TypeOK,
         StagesSound, SentinelSound, Idle, Server, Over
<1>5. ASSUME NEW s \in Server, Terminate(s) \/ Drained(s) \/ ServerFails(s)
      PROVE  LifeInv'
  <2>1. PICK status \in {"draining", "stopped", "failed"} :
            /\ Serving(s, status)
            /\ servers[s] \in {"up", "draining"}
            /\ status = "stopped" /\ s = "agent" => pc = Idle
    BY <1>5 DEF Terminate, Drained, ServerFails
  <2>2. /\ servers' = [servers EXCEPT ![s] = status]
        /\ UNCHANGED <<main, pc, reconcile, database, client, lost, runs>>
        /\ servers \in [Server -> {"up", "draining", "stopped", "failed"}]
        /\ s \in Server
    BY <2>1 DEF Serving, LifeInv, TypeOK
  <2>3. TypeOK'
    BY <1>1, <2>2 DEF LifeInv, TypeOK
  <2>4. Over => Over'
    BY <2>1, <2>2 DEF Over
  <2>5. StagesSound'
    <3>1. main \notin {"down", "startup"}
      BY <2>1 DEF LifeInv, StagesSound
    <3>2. servers'["agent"] = "stopped" => pc = Idle
      BY <2>1, <2>2 DEF LifeInv, StagesSound
    <3>3. QED
      BY <2>2, <2>4, <3>1, <3>2 DEF LifeInv, StagesSound
  <2>6. SentinelSound'
    <3>1. \A r \in Server : servers[r] = "failed" => servers'[r] = "failed"
      BY <2>1, <2>2
    <3>2. QED
      BY <1>1, <1>2, <2>2, <3>1 DEF LifeInv, SentinelSound
  <2>7. QED
    BY <2>3, <2>5, <2>6 DEF LifeInv
<1>6. ASSUME NEW h \in Handler, Arrive(h) \/ HandlerStep(h)
      PROVE  LifeInv'
  <2>1. PICK step \in {"idle", "gate", "send", "await"} : Going(h, step)
    BY <1>6 DEF Arrive, HandlerStep, Gate, Send, Reply
  <2>2. servers["agent"] # "stopped"
    <3>1. pc[h] # "idle" \/ servers["agent"] = "up"
      BY <1>6 DEF Arrive, HandlerStep, Gate, Send, Reply
    <3>2. QED
      BY <3>1 DEF LifeInv, StagesSound, Idle
  <2>3. QED
    BY <1>1, <1>2, <2>1, <2>2 DEF Going, LifeInv, TypeOK, StagesSound, SentinelSound, Idle,
           Server, Over
<1>7. ASSUME UNCHANGED lifeVars
      PROVE  LifeInv'
  BY <1>1, <1>2, <1>7 DEF lifeVars, procVars, LifeInv, TypeOK, StagesSound, SentinelSound, Idle,
         Server, Over
<1>8. QED
  BY <1>3, <1>4, <1>5, <1>6, <1>7
-----------------------------------------------------------------------------
(* Steps of the log.                                                       *)

\* A handler's event: behind the sentinel only if a failed server left it running.
LEMMA LogLife ==
    ASSUME LifeInv, NEW h \in Handler, Gate(h) \/ Reply(h), LogNext
    PROVE  LifeInv'
<1> DEFINE e == logged + 1
<1>1. /\ queue' = Append(queue, e) /\ UNCHANGED <<writer, file, torn, dropped>>
      /\ logged' = e /\ late' = IF Asked THEN late \cup {e} ELSE late
      /\ logged \in Nat /\ queue \in Seq((1 .. logged) \cup {Stop})
      /\ late \subseteq 1 .. logged
  BY DEF LogNext, Log, LifeInv, TypeOK
<1>2. Going(h, "idle") \/ Going(h, "send")
  BY DEF Gate, Reply
<1>3. pc[h] # "idle" /\ servers["agent"] # "stopped" /\ main \notin {"down", "startup"}
  BY DEF Gate, Reply, LifeInv, StagesSound, Idle
<1>4. UNCHANGED <<main, servers, reconcile, database, client, lost, runs>>
      /\ \E step \in {"idle", "send"} : pc' = [pc EXCEPT ![h] = step]
  BY <1>2 DEF Going
<1>5. TypeOK'
  <2>1. /\ queue' \in Seq((1 .. logged') \cup {Stop}) /\ file' \in Seq(Seq(1 .. logged'))
        /\ writer' = writer /\ torn' = torn /\ dropped' = dropped
        /\ dropped \subseteq 1 .. logged' /\ lost \subseteq 1 .. logged'
        /\ late' \subseteq 1 .. logged' /\ logged' \in Nat
    BY LogType DEF LifeInv
  <2>2. pc' \in [Handler -> {"idle", "gate", "send", "await"}]
    BY <1>4 DEF LifeInv, TypeOK
  <2>3. QED
    BY <1>4, <2>1, <2>2 DEF LifeInv, TypeOK
<1>6. StagesSound'
  BY <1>3, <1>4 DEF LifeInv, StagesSound, Over
<1>7. /\ DOMAIN queue' = DOMAIN queue \cup {Len(queue) + 1}
      /\ \A k \in DOMAIN queue : queue'[k] = queue[k] /\ k < Len(queue) + 1
      /\ queue'[Len(queue) + 1] = e /\ e # Stop /\ e \notin late
  BY <1>1 DEF Stop
<1>8. Asked => \E s \in Server : servers[s] = "failed"
  <2>1. Asked => main \in {"join", "exit"}
    BY DEF Asked, LifeInv, SentinelSound
  <2>2. QED
    BY <1>3, <2>1 DEF LifeInv, StagesSound, Over, Server
<1>9. Asked' = Asked
  BY <1>1, <1>7 DEF Asked
<1>10. \A k \in DOMAIN queue' : queue'[k] = Stop =>
           main' = "join" /\ \A j \in DOMAIN queue' : j > k => queue'[j] \in late'
  <2>1. SUFFICES ASSUME NEW k \in DOMAIN queue, queue[k] = Stop
                 PROVE  main' = "join" /\ \A j \in DOMAIN queue' : j > k => queue'[j] \in late'
    BY <1>7
  <2>2. main = "join" /\ Asked /\ \A j \in DOMAIN queue : j > k => queue[j] \in late
    BY <2>1 DEF LifeInv, SentinelSound, Asked
  <2>3. QED
    BY <1>1, <1>4, <1>7, <2>2
<1>11. \A k \in DOMAIN queue' : queue'[k] \in late' => \E s \in Server : servers'[s] = "failed"
  <2>1. \A k \in DOMAIN queue : queue[k] \in late => \E s \in Server : servers[s] = "failed"
    BY DEF LifeInv, SentinelSound
  <2>2. \A k \in DOMAIN queue : queue[k] # e
    BY <1>1, <1>7 DEF Stop
  <2>3. QED
    BY <1>1, <1>4, <1>7, <1>8, <2>1, <2>2
<1>12. writer' = "done" => \A k \in DOMAIN queue' : queue'[k] \in late'
  BY <1>1, <1>7 DEF LifeInv, SentinelSound, Asked
<1>13. SentinelSound'
  BY <1>1, <1>3, <1>4, <1>9, <1>10, <1>11, <1>12 DEF LifeInv, SentinelSound
<1>14. QED
  BY <1>5, <1>6, <1>13 DEF LifeInv

LEMMA StopAuditLife ==
    ASSUME LifeInv, StopAudit
    PROVE  LifeInv'
<1>1. /\ queue' = Append(queue, Stop) /\ UNCHANGED <<writer, file, torn, dropped>>
      /\ UNCHANGED <<servers, pc, reconcile, database, client, logged, late, lost, runs>>
      /\ main = "audit" /\ main' = "join"
      /\ logged \in Nat /\ queue \in Seq((1 .. logged) \cup {Stop})
      /\ late \subseteq 1 .. logged
  BY DEF StopAudit, AskToStop, LifeInv, TypeOK
<1>2. TypeOK'
  BY <1>1 DEF LifeInv, TypeOK
<1>3. StagesSound'
  BY <1>1 DEF LifeInv, StagesSound, Over
<1>4. /\ DOMAIN queue' = DOMAIN queue \cup {Len(queue) + 1}
      /\ \A k \in DOMAIN queue : queue'[k] = queue[k] /\ k < Len(queue) + 1
      /\ queue'[Len(queue) + 1] = Stop /\ Stop \notin late
  BY <1>1 DEF Stop
<1>5. \A k \in DOMAIN queue : queue[k] # Stop
  BY <1>1 DEF LifeInv, SentinelSound
<1>6. writer = "running" /\ Asked'
  BY <1>1, <1>4 DEF LifeInv, SentinelSound, Asked, TypeOK
<1>7. SentinelSound'
  BY <1>1, <1>4, <1>5, <1>6 DEF LifeInv, SentinelSound
<1>8. QED
  BY <1>2, <1>3, <1>7 DEF LifeInv

LEMMA WriterLife ==
    ASSUME LifeInv, Writer
    PROVE  LifeInv'
<1>1. /\ writer = "running" /\ queue # <<>> /\ queue' = Tail(queue)
      /\ UNCHANGED <<main, servers, pc, reconcile, database, client, logged, late, lost, runs>>
      /\ logged \in Nat /\ queue \in Seq((1 .. logged) \cup {Stop})
  BY DEF Writer, Run, procVars, LifeInv, TypeOK
<1>2. /\ DOMAIN queue = 1 .. Len(queue) /\ DOMAIN queue' = 1 .. Len(queue) - 1
      /\ 1 \in DOMAIN queue /\ Head(queue) = queue[1]
      /\ \A k \in DOMAIN queue' : k + 1 \in DOMAIN queue /\ queue'[k] = queue[k + 1]
      /\ queue' \in Seq((1 .. logged) \cup {Stop})
  BY <1>1
<1>3. StagesSound'
  BY <1>1 DEF LifeInv, StagesSound, Over
<1>4. \A k \in DOMAIN queue' : queue'[k] \in late => \E s \in Server : servers[s] = "failed"
  BY <1>2 DEF LifeInv, SentinelSound
<1>5. \A k \in DOMAIN queue' : queue'[k] = Stop =>
          main = "join" /\ \A j \in DOMAIN queue' : j > k => queue'[j] \in late
  BY <1>2 DEF LifeInv, SentinelSound
<1>6. CASE Head(queue) = Stop
  <2>1. writer' = "done" /\ UNCHANGED <<file, torn, dropped>>
    BY <1>6 DEF Writer, Run
  <2>2. main = "join" /\ \A k \in DOMAIN queue' : queue'[k] \in late
    BY <1>2, <1>6 DEF LifeInv, SentinelSound
  <2>3. TypeOK'
    BY <1>1, <1>2, <2>1 DEF LifeInv, TypeOK
  <2>4. SentinelSound'
    BY <1>1, <1>4, <1>5, <2>1, <2>2 DEF LifeInv, SentinelSound, Asked
  <2>5. QED
    BY <1>3, <2>3, <2>4 DEF LifeInv
<1>7. CASE Head(queue) # Stop
  <2>1. writer' = writer /\ Write(Head(queue)) /\ Head(queue) \in 1 .. logged
    BY <1>1, <1>2, <1>7 DEF Writer, Run
  <2>2. TypeOK' /\ (torn' => file' # <<>>)
    <3>1. TypeOK /\ (torn => file # <<>>)
      BY DEF LifeInv, SentinelSound
    <3>2. /\ file' \in Seq(Seq(1 .. logged)) /\ torn' \in BOOLEAN /\ dropped' \subseteq 1 .. logged
          /\ torn' => file' # <<>>
      BY <2>1, <3>1, WriteType
    <3>3. QED
      BY <1>1, <1>2, <2>1, <3>1, <3>2 DEF TypeOK
  <2>3. Asked => Asked'
    <3>1. ASSUME NEW k \in DOMAIN queue, queue[k] = Stop
          PROVE  k - 1 \in DOMAIN queue' /\ queue'[k - 1] = Stop
      BY <1>1, <1>2, <1>7, <3>1
    <3>2. QED
      BY <2>1, <3>1 DEF Asked
  <2>4. SentinelSound'
    BY <1>1, <1>4, <1>5, <2>1, <2>2, <2>3 DEF LifeInv, SentinelSound
  <2>5. QED
    BY <1>3, <2>2, <2>4 DEF LifeInv
<1>8. QED
  BY <1>6, <1>7
-----------------------------------------------------------------------------
(* Starts and ends of a process.                                           *)

LEMMA BootLife ==
    ASSUME LifeInv, Boot
    PROVE  LifeInv'
<1>1. Asked' = FALSE /\ queue' = <<>> /\ writer' = "running"
  BY DEF Boot, AuditStart, Asked, LifeInv, SentinelSound
<1>2. QED
  BY <1>1 DEF Boot, AuditStart, LifeInv, TypeOK, StagesSound, SentinelSound, Over

LEMMA EndLife ==
    ASSUME LifeInv, End
    PROVE  LifeInv'
<1>1. Pending \subseteq 1 .. logged
  BY DEF LifeInv, TypeOK, Pending
<1>2. lost' \subseteq 1 .. logged
  BY <1>1 DEF End, LifeInv, TypeOK
<1>3. <<>> \in Seq((1 .. logged) \cup {Stop})
  OBVIOUS
<1>4. TypeOK'
  BY <1>2, <1>3 DEF End, AuditReset, LifeInv, TypeOK, Idle, Server
<1>5. StagesSound' /\ SentinelSound'
  BY DEF End, AuditReset, LifeInv, StagesSound, SentinelSound, Idle, Server, Over, Asked
<1>6. QED
  BY <1>4, <1>5 DEF LifeInv

LEMMA NextLife ==
    ASSUME LifeInv, [Next]_lifeVars
    PROVE  LifeInv'
<1>1. ASSUME Exit \/ Crash
      PROVE  LifeInv'
  BY <1>1, EndLife DEF Exit, Crash
<1>2. ASSUME NEW h \in Handler, Arrive(h) \/ HandlerStep(h)
      PROVE  LifeInv'
  <2>1. UNCHANGED <<auditVars, logged, late>> \/ (LogNext /\ (Gate(h) \/ Reply(h)))
    BY <1>2 DEF Arrive, HandlerStep, Gate, Send, Reply
  <2>2. QED
    BY <1>2, <2>1, LogLife, QuietLife
<1>3. ASSUME OpenPorts \/ Teardown \/ CloseRouter \/ CloseState \/ WakeUp \/ Install \/ Cancelled
      PROVE  LifeInv'
  <2>1. UNCHANGED <<auditVars, logged, late>>
    BY <1>3 DEF OpenPorts, Teardown, CloseRouter, CloseState, WakeUp, Install, Cancelled,
                Reconciling
  <2>2. QED
    BY <1>3, <2>1, QuietLife
<1>4. ASSUME NEW s \in Server, Terminate(s) \/ Drained(s) \/ ServerFails(s)
      PROVE  LifeInv'
  <2>1. UNCHANGED <<auditVars, logged, late>>
    BY <1>4 DEF Terminate, Drained, ServerFails, Serving
  <2>2. QED
    BY <1>4, <2>1, QuietLife
<1>5. ASSUME UNCHANGED lifeVars
      PROVE  LifeInv'
  BY <1>5, QuietLife DEF lifeVars
<1>6. QED
  BY <1>1, <1>2, <1>3, <1>4, <1>5, BootLife, StopAuditLife, WriterLife DEF Next, MainStep
-----------------------------------------------------------------------------
(* The theorems.                                                           *)

LEMMA LifeInvariance == Spec => []LifeInv
BY InitLife, NextLife, PTL DEF Spec

\* The queue, the file, the servers and the handlers hold what they are meant to in every
\* reachable state, for any number of handlers, events and runs (AuditLog, App).
THEOREM LifecycleTypeCorrect == Spec => []TypeOK
BY LifeInvariance, PTL DEF LifeInv

\* No task of the process ever works on a closed database behind the teardown's back:
\* the reconcile is cancelled before anything is closed, in every order of stops,
\* failures and crashes (_run_servers, AppContext.aclose).
THEOREM ReconcileStopsFirst == Spec => []ClosedDatabaseUnused
<1>1. LifeInv => ClosedDatabaseUnused
  BY DEF LifeInv, StagesSound, ClosedDatabaseUnused
<1>2. QED
  BY <1>1, LifeInvariance, PTL

\* An orderly stop leaves no event in the queue, for any number of handlers; after a
\* server's failure only events logged behind the sentinel are left (AuditLog.stop).
THEOREM OrderlyStopDrains == Spec => []StopDrains
<1>1. LifeInv => StopDrains
  <2> SUFFICES ASSUME LifeInv, main = "exit"
               PROVE  Pending \subseteq late /\ (Clean => late \cap Pending = {})
    BY DEF StopDrains
  <2>1. \A e \in Pending : \E k \in DOMAIN queue : queue[k] = e
    BY DEF Pending
  <2>2. Pending \subseteq late
    BY <2>1 DEF LifeInv, SentinelSound
  <2>3. Clean => \A s \in Server : servers[s] # "failed"
    BY DEF Clean
  <2>4. QED
    BY <2>1, <2>2, <2>3 DEF LifeInv, SentinelSound
<1>2. QED
  BY <1>1, LifeInvariance, PTL
-----------------------------------------------------------------------------
(* What becomes of each event.                                             *)

\* Every event is somewhere, and what is in the queue was logged after all that is in the
\* file and in the order of the queue; a torn line ends in an event that fell short.
Ordered ==
    /\ \A e \in 1 .. logged : e \in Events \cup dropped \cup lost \cup Pending
    /\ \A j, k \in DOMAIN queue : j < k /\ queue[j] # Stop /\ queue[k] # Stop =>
           queue[j] < queue[k]
    /\ \A j \in DOMAIN queue : queue[j] # Stop =>
           \A k \in DOMAIN file : \A i \in DOMAIN file[k] : file[k][i] < queue[j]
    /\ \A k \in DOMAIN file : file[k] # <<>>
    /\ \A j, k \in DOMAIN file : j < k => file[j][1] < file[k][1]
    /\ \A k \in DOMAIN file : \A j \in DOMAIN file[k] : j < Len(file[k]) => file[k][j] \in dropped
    /\ torn => file[Len(file)][Len(file[Len(file)])] \in dropped

\* The line the next event is put on, and what stands there.
Line == IF torn THEN Len(file) ELSE Len(file) + 1
Fragment == IF torn THEN file[Len(file)] ELSE <<>>

LEMMA FileTyped ==
    ASSUME TypeOK
    PROVE  /\ file \in Seq(Seq(1 .. logged)) /\ Len(file) \in Nat /\ DOMAIN file = 1 .. Len(file)
           /\ \A k \in DOMAIN file : file[k] \in Seq(1 .. logged)
BY DEF TypeOK

LEMMA ElementTyped ==
    ASSUME NEW S, NEW s \in Seq(S), NEW i \in DOMAIN s
    PROVE  s[i] \in S
OBVIOUS

LEMMA EntryTyped ==
    ASSUME TypeOK, NEW k \in DOMAIN file, NEW i \in DOMAIN file[k]
    PROVE  file[k][i] \in 1 .. logged
<1> DEFINE s == file[k]
<1>1. s \in Seq(1 .. logged)
  BY FileTyped
<1>2. i \in DOMAIN s
  OBVIOUS
<1> HIDE DEF s
<1>3. s[i] \in 1 .. logged
  BY <1>1, <1>2, ElementTyped
<1>4. QED
  BY <1>3 DEF s

LEMMA LineTyped ==
    ASSUME TypeOK, torn => file # <<>>
    PROVE  /\ torn => Line = Len(file) /\ Line \in DOMAIN file /\ Fragment = file[Line]
           /\ ~torn => Line = Len(file) + 1 /\ Fragment = <<>>
           /\ Line \in Nat \ {0} /\ Fragment \in Seq(1 .. logged)
<1>1. CASE torn
  <2>1. Line = Len(file) /\ Fragment = file[Line]
    BY <1>1 DEF Line, Fragment
  <2>2. Len(file) \in DOMAIN file /\ Len(file) \in Nat \ {0}
    BY <1>1, FileTyped
  <2>3. QED
    BY <1>1, <2>1, <2>2, FileTyped
<1>2. CASE ~torn
  <2>1. Line = Len(file) + 1 /\ Fragment = <<>>
    BY <1>2 DEF Line, Fragment
  <2>2. <<>> \in Seq(1 .. logged) /\ Len(file) + 1 \in Nat \ {0}
    BY FileTyped
  <2>3. QED
    BY <1>2, <2>1, <2>2
<1>3. QED
  BY <1>1, <1>2

\* An event added to the file ends its last line; the others stay as they are.
LEMMA AppendCases ==
    ASSUME TypeOK, torn => file # <<>>, NEW e \in 1 .. logged, AppendEvent(e)
    PROVE  /\ DOMAIN file' = 1 .. Line /\ Len(file') = Line
           /\ \A k \in 1 .. Line : k # Line => k \in DOMAIN file /\ file'[k] = file[k]
           /\ \A k \in DOMAIN file : k # Line => k \in 1 .. Line
           /\ file'[Line] = Append(Fragment, e)
<1>1. CASE torn
  <2>1. file' = [file EXCEPT ![Len(file)] = Append(@, e)]
    BY <1>1 DEF AppendEvent
  <2>2. /\ Line = Len(file) /\ Fragment = file[Line] /\ Line \in DOMAIN file
        /\ DOMAIN file = 1 .. Len(file)
    BY <1>1, FileTyped, LineTyped
  <2>3. DOMAIN file' = DOMAIN file /\ Len(file') = Len(file)
    BY <2>1, FileTyped
  <2>4. /\ \A k \in DOMAIN file : k # Len(file) => file'[k] = file[k]
        /\ file'[Len(file)] = Append(file[Len(file)], e)
    BY <2>1, <2>2
  <2>5. QED
    BY <2>2, <2>3, <2>4
<1>2. CASE ~torn
  <2>1. file' = Append(file, <<e>>)
    BY <1>2 DEF AppendEvent
  <2>2. /\ DOMAIN file' = 1 .. Len(file) + 1 /\ Len(file') = Len(file) + 1
        /\ \A k \in 1 .. Len(file) : file'[k] = file[k]
        /\ file'[Len(file) + 1] = <<e>>
    BY <2>1, FileTyped
  <2>3. <<e>> = Append(<<>>, e)
    OBVIOUS
  <2>4. Line = Len(file) + 1 /\ Fragment = <<>> /\ Len(file) \in Nat /\ DOMAIN file = 1 .. Len(file)
    BY <1>2, FileTyped DEF Line, Fragment
  <2>5. file'[Line] = Append(Fragment, e)
    BY <2>2, <2>3, <2>4
  <2>6. QED
    BY <2>2, <2>4, <2>5
<1>3. QED
  BY <1>1, <1>2

\* The writer's turn on an event: it is later than the file, and earlier than the queue.
LEMMA WriteOrdered ==
    ASSUME TypeOK, torn => file # <<>>, Ordered, NEW e \in 1 .. logged,
           AppendEvent(e), dropped \subseteq dropped',
           \A k \in DOMAIN file : \A i \in DOMAIN file[k] : file[k][i] < e,
           torn' => e \in dropped'
    PROVE  /\ \A x \in Events \cup {e} : x \in Events'
           /\ \A k \in DOMAIN file' : \A i \in DOMAIN file'[k] :
                 file'[k][i] = e \/ \E m \in DOMAIN file : \E j \in DOMAIN file[m] :
                                       file'[k][i] = file[m][j]
           /\ \A k \in DOMAIN file' : file'[k] # <<>>
           /\ \A j, k \in DOMAIN file' : j < k => file'[j][1] < file'[k][1]
           /\ \A k \in DOMAIN file' : \A j \in DOMAIN file'[k] :
                 j < Len(file'[k]) => file'[k][j] \in dropped'
           /\ torn' => file'[Len(file')][Len(file'[Len(file')])] \in dropped'
<1> DEFINE n == Line
           l == Fragment
<1>1. /\ DOMAIN file' = 1 .. n /\ Len(file') = n
      /\ \A k \in 1 .. n : k # n => k \in DOMAIN file /\ file'[k] = file[k]
      /\ \A k \in DOMAIN file : k # n => k \in 1 .. n
      /\ file'[n] = Append(l, e)
  BY AppendCases
<1>2. /\ torn => n = Len(file) /\ n \in DOMAIN file /\ l = file[n]
      /\ ~torn => n = Len(file) + 1 /\ l = <<>>
      /\ n \in Nat \ {0} /\ l \in Seq(1 .. logged)
      /\ Len(file) \in Nat /\ DOMAIN file = 1 .. Len(file)
      /\ \A k \in DOMAIN file : file[k] \in Seq(1 .. logged)
  BY LineTyped, FileTyped
<1>13. n \in DOMAIN file => torn /\ l = file[n]
  <2>1. ASSUME ~torn
        PROVE  n \notin DOMAIN file
    <3>1. n = Len(file) + 1 /\ Len(file) \in Nat /\ DOMAIN file = 1 .. Len(file)
      BY <1>2, <2>1
    <3>2. QED
      BY <3>1
  <2>2. QED
    BY <1>2, <2>1
<1> HIDE DEF n, l
<1>12. n \in Nat \ {0}
  BY <1>2
<1>3. /\ Len(l) \in Nat /\ DOMAIN l = 1 .. Len(l)
      /\ DOMAIN file'[n] = 1 .. Len(l) + 1 /\ Len(file'[n]) = Len(l) + 1
      /\ \A i \in 1 .. Len(l) : file'[n][i] = l[i]
      /\ file'[n][Len(l) + 1] = e
  <2>1. l \in Seq(1 .. logged) /\ file'[n] = Append(l, e)
    BY <1>1, <1>2
  <2>2. QED
    BY <2>1
<1>4. /\ \A k \in DOMAIN file : file[k] # <<>>
      /\ \A j, k \in DOMAIN file : j < k => file[j][1] < file[k][1]
      /\ \A k \in DOMAIN file : \A j \in DOMAIN file[k] : j < Len(file[k]) => file[k][j] \in dropped
      /\ torn => file[Len(file)][Len(file[Len(file)])] \in dropped
  BY DEF Ordered
<1>5. \A x \in Events \cup {e} : x \in Events'
  <2>0. \A k \in DOMAIN file' : \A i \in DOMAIN file'[k] : file'[k][i] \in Events'
    BY DEF Events
  <2>1. e \in Events'
    <3>4. n \in 1 .. n
      BY <1>12
    <3>5. Len(l) \in Nat
      BY <1>3
    <3>1. Len(l) + 1 \in 1 .. Len(l) + 1
      BY <3>5
    <3>2. n \in DOMAIN file' /\ Len(l) + 1 \in DOMAIN file'[n]
      BY <1>1, <1>3, <3>4, <3>1
    <3>3. QED
      BY <1>3, <2>0, <3>2
  <2>2. ASSUME NEW k \in DOMAIN file, NEW i \in DOMAIN file[k]
        PROVE  file[k][i] \in Events'
    <3>1. CASE k # n
      <4>1. k \in DOMAIN file' /\ file'[k] = file[k]
        BY <1>1, <3>1
      <4>2. QED
        BY <2>0, <4>1
    <3>2. CASE k = n
      <4>1. torn /\ l = file[n]
        BY <1>13, <3>2
      <4>2. i \in 1 .. Len(l) /\ i \in DOMAIN file'[n] /\ n \in DOMAIN file'
        BY <1>1, <1>2, <1>3, <3>2, <4>1
      <4>3. QED
        BY <1>3, <2>0, <3>2, <4>1, <4>2
    <3>3. QED
      BY <3>1, <3>2
  <2>3. QED
    BY <2>1, <2>2 DEF Events
<1>6. ASSUME NEW k \in DOMAIN file', NEW i \in DOMAIN file'[k], file'[k][i] # e
      PROVE  \E m \in DOMAIN file : \E j \in DOMAIN file[m] : file'[k][i] = file[m][j]
  <2>1. CASE k # n
    BY <1>1, <1>6, <2>1
  <2>2. CASE k = n
    <3>1. i \in 1 .. Len(l) /\ file'[k][i] = l[i]
      BY <1>3, <1>6, <2>2
    <3>2. torn /\ n \in DOMAIN file /\ l = file[n] /\ i \in DOMAIN file[n]
      <4>1. l # <<>>
        BY <1>3, <3>1
      <4>2. torn /\ n \in DOMAIN file /\ l = file[n]
        BY <1>2, <4>1
      <4>3. QED
        BY <1>3, <3>1, <4>2
    <3>3. QED
      BY <1>2, <3>1, <3>2
  <2>3. QED
    BY <2>1, <2>2
<1>7. \A k \in DOMAIN file' : file'[k] # <<>>
  BY <1>1, <1>3, <1>4
<1>8. ASSUME NEW j \in DOMAIN file', NEW k \in DOMAIN file', j < k
      PROVE  file'[j][1] < file'[k][1]
  <2>1. j # n /\ j \in DOMAIN file /\ file'[j] = file[j]
    <3>1. j \in 1 .. n /\ k \in 1 .. n
      BY <1>1, <1>8
    <3>2. j # n
      BY <1>12, <1>8, <3>1
    <3>3. QED
      BY <1>1, <3>1, <3>2
  <2>2. 1 \in DOMAIN file[j]
    <3>1. file[j] \in Seq(1 .. logged) /\ file[j] # <<>>
      BY <1>2, <1>4, <2>1
    <3>2. QED
      BY <3>1
  <2>3. CASE k # n
    BY <1>1, <1>4, <1>8, <2>1, <2>3
  <2>4. CASE k = n /\ torn
    <3>1. l = file[n] /\ l # <<>> /\ 1 \in 1 .. Len(l)
      BY <1>1, <1>2, <1>4, <2>4
    <3>2. file'[n][1] = file[n][1]
      BY <1>3, <3>1
    <3>3. QED
      BY <1>2, <1>4, <1>8, <2>1, <2>4, <3>2
  <2>5. CASE k = n /\ ~torn
    <3>1. file'[n][1] = e
      <4>1. l = <<>> /\ Len(l) = 0
        BY <1>2, <2>5
      <4>2. QED
        BY <1>3, <4>1
    <3>2. QED
      BY <2>1, <2>2, <2>5, <3>1
  <2>6. QED
    BY <2>3, <2>4, <2>5
<1>9. ASSUME NEW k \in DOMAIN file', NEW j \in DOMAIN file'[k], j < Len(file'[k])
      PROVE  file'[k][j] \in dropped'
  <2>1. CASE k # n
    BY <1>1, <1>4, <1>9, <2>1
  <2>2. CASE k = n
    <3>1. j \in 1 .. Len(l) /\ file'[n][j] = l[j]
      BY <1>3, <1>9, <2>2
    <3>2. torn /\ l = file[n] /\ n = Len(file) /\ j \in DOMAIN file[n] /\ n \in DOMAIN file
      <4>1. l # <<>>
        BY <1>3, <3>1
      <4>2. torn /\ l = file[n] /\ n = Len(file) /\ n \in DOMAIN file
        BY <1>2, <4>1
      <4>3. QED
        BY <1>3, <3>1, <4>2
    <3>3. CASE j < Len(l)
      BY <1>2, <1>4, <2>2, <3>1, <3>2, <3>3
    <3>4. CASE j = Len(l)
      BY <1>4, <2>2, <3>1, <3>2, <3>4
    <3>5. QED
      BY <1>3, <3>1, <3>3, <3>4
  <2>3. QED
    BY <2>1, <2>2
<1>10. torn' => file'[Len(file')][Len(file'[Len(file')])] \in dropped'
  BY <1>1, <1>3
<1>11. QED
  BY <1>5, <1>6, <1>7, <1>8, <1>9, <1>10

\* What Ordered says of the file alone.
FileOrdered ==
    /\ \A k \in DOMAIN file : file[k] # <<>>
    /\ \A j, k \in DOMAIN file : j < k => file[j][1] < file[k][1]
    /\ \A k \in DOMAIN file : \A j \in DOMAIN file[k] : j < Len(file[k]) => file[k][j] \in dropped
    /\ torn => file[Len(file)][Len(file[Len(file)])] \in dropped

LEMMA InitOrdered == Init => Ordered
<1> SUFFICES ASSUME Init PROVE Ordered
  OBVIOUS
<1>1. queue = <<>> /\ file = <<>> /\ torn = FALSE /\ logged = 0
  BY DEF Init, AuditInit
<1>2. 1 .. logged = {}
  BY <1>1
<1>3. QED
  BY <1>1, <1>2 DEF Ordered

LEMMA SameOrdered ==
    ASSUME Ordered, UNCHANGED <<auditVars, logged, lost>>
    PROVE  Ordered'
<1>1. UNCHANGED <<queue, file, torn, dropped, logged, lost>>
  BY DEF auditVars
<1>2. Events' = Events /\ Pending' = Pending
  BY <1>1 DEF Events, Pending
<1>3. QED
  BY <1>1, <1>2 DEF Ordered

\* An event is later than all before it.
LEMMA LogOrdered ==
    ASSUME LifeInv, Ordered, LogNext, UNCHANGED lost
    PROVE  Ordered'
<1> DEFINE e == logged + 1
<1>1. /\ queue' = Append(queue, e) /\ UNCHANGED <<file, torn, dropped>> /\ logged' = e
      /\ logged \in Nat /\ queue \in Seq((1 .. logged) \cup {Stop})
  BY DEF LogNext, Log, LifeInv, TypeOK
<1>2. /\ DOMAIN queue' = DOMAIN queue \cup {Len(queue) + 1}
      /\ \A k \in DOMAIN queue : queue'[k] = queue[k] /\ k < Len(queue) + 1
      /\ queue'[Len(queue) + 1] = e
  BY <1>1
<1>3. /\ \A k \in DOMAIN queue : queue[k] \in (1 .. logged) \cup {Stop}
      /\ \A k \in DOMAIN queue : k \in Nat
      /\ Len(queue) \in Nat
  BY <1>1
<1>4. \A x \in 1 .. e : x \in 1 .. logged \/ x = e
  BY <1>1
<1>5. Events' = Events
  BY <1>1 DEF Events
<1>6. e \in Pending' /\ \A x \in Pending : x \in Pending'
  <2>1. e # Stop
    BY <1>1 DEF Stop
  <2>2. \A k \in DOMAIN queue' : queue'[k] # Stop => queue'[k] \in Pending'
    BY DEF Pending
  <2>3. \A x \in Pending : x # Stop /\ \E k \in DOMAIN queue : queue[k] = x
    BY DEF Pending
  <2>4. QED
    BY <1>2, <2>1, <2>2, <2>3
<1>7. \A x \in 1 .. logged' : x \in Events' \cup dropped' \cup lost' \cup Pending'
  BY <1>1, <1>4, <1>5, <1>6 DEF Ordered
<1>8. ASSUME NEW j \in DOMAIN queue', NEW k \in DOMAIN queue', j < k,
             queue'[j] # Stop, queue'[k] # Stop
      PROVE  queue'[j] < queue'[k]
  <2>1. j \in DOMAIN queue /\ queue'[j] = queue[j] /\ queue[j] \in 1 .. logged
    BY <1>2, <1>3, <1>8
  <2>2. CASE k \in DOMAIN queue
    BY <1>2, <1>8, <2>1, <2>2 DEF Ordered
  <2>3. CASE k = Len(queue) + 1
    BY <1>1, <1>2, <2>1, <2>3
  <2>4. QED
    BY <1>2, <2>2, <2>3
<1>9. ASSUME NEW j \in DOMAIN queue', queue'[j] # Stop,
             NEW k \in DOMAIN file, NEW i \in DOMAIN file[k]
      PROVE  file[k][i] < queue'[j]
  <2>1. CASE j \in DOMAIN queue
    BY <1>2, <1>9, <2>1 DEF Ordered
  <2>2. CASE j = Len(queue) + 1
    <3>2. file[k][i] \in 1 .. logged
      BY EntryTyped DEF LifeInv
    <3>3. QED
      BY <1>1, <1>2, <2>2, <3>2
  <2>3. QED
    BY <1>2, <2>1, <2>2
<1>10. FileOrdered'
  BY <1>1 DEF Ordered, FileOrdered
<1>11. QED
  BY <1>1, <1>7, <1>8, <1>9, <1>10 DEF Ordered, FileOrdered

\* The sentinel is no event.
LEMMA StopOrdered ==
    ASSUME LifeInv, Ordered, StopAudit
    PROVE  Ordered'
<1>1. /\ queue' = Append(queue, Stop) /\ UNCHANGED <<file, torn, dropped, logged, lost>>
      /\ queue \in Seq((1 .. logged) \cup {Stop})
  BY DEF StopAudit, AskToStop, LifeInv, TypeOK
<1>2. /\ DOMAIN queue' = DOMAIN queue \cup {Len(queue) + 1}
      /\ \A k \in DOMAIN queue : queue'[k] = queue[k]
      /\ queue'[Len(queue) + 1] = Stop
  BY <1>1
<1>3. Events' = Events /\ Pending' = Pending
  BY <1>1, <1>2 DEF Events, Pending
<1>4. \A k \in DOMAIN queue' : queue'[k] # Stop => k \in DOMAIN queue /\ queue'[k] = queue[k]
  BY <1>2
<1>5. QED
  BY <1>1, <1>3, <1>4 DEF Ordered

\* The first of the queue goes into the file, or is dropped, or was the sentinel.
LEMMA WriterOrdered ==
    ASSUME LifeInv, Ordered, Writer
    PROVE  Ordered'
<1> DEFINE e == Head(queue)
<1>1. /\ queue # <<>> /\ queue' = Tail(queue) /\ UNCHANGED <<logged, lost>>
      /\ queue \in Seq((1 .. logged) \cup {Stop})
  BY DEF Writer, Run, LifeInv, TypeOK
<1>2. /\ 1 \in DOMAIN queue /\ e = queue[1]
      /\ \A k \in DOMAIN queue' : k \in Nat /\ k + 1 \in DOMAIN queue /\ queue'[k] = queue[k + 1] /\ 1 < k + 1
      /\ \A k \in DOMAIN queue : k = 1 \/ (k - 1 \in DOMAIN queue' /\ queue'[k - 1] = queue[k])
      /\ e \in (1 .. logged) \cup {Stop}
  BY <1>1
<1> HIDE DEF e
<1>3. \A x \in Pending : x = e \/ x \in Pending'
  <2>1. \A k \in DOMAIN queue' : queue'[k] # Stop => queue'[k] \in Pending'
    BY DEF Pending
  <2>2. \A x \in Pending : x # Stop /\ \E k \in DOMAIN queue : queue[k] = x
    BY DEF Pending
  <2>3. QED
    BY <1>2, <2>1, <2>2
<1>4. ASSUME NEW j \in DOMAIN queue', NEW k \in DOMAIN queue', j < k,
             queue'[j] # Stop, queue'[k] # Stop
      PROVE  queue'[j] < queue'[k]
  <2>1. j + 1 < k + 1
    BY <1>2, <1>4
  <2>2. QED
    BY <1>2, <1>4, <2>1 DEF Ordered
<1>5. ASSUME UNCHANGED file, NEW j \in DOMAIN queue', queue'[j] # Stop,
             NEW k \in DOMAIN file, NEW i \in DOMAIN file[k]
      PROVE  file[k][i] < queue'[j]
  BY <1>2, <1>5 DEF Ordered
<1>6. CASE e = Stop
  <2>1. UNCHANGED <<file, torn, dropped>>
    BY <1>6 DEF Writer, Run, e
  <2>2. Events' = Events /\ FileOrdered'
    BY <2>1 DEF Events, Ordered, FileOrdered
  <2>3. Stop \notin Pending
    BY DEF Pending
  <2>4. \A x \in 1 .. logged' : x \in Events' \cup dropped' \cup lost' \cup Pending'
    BY <1>1, <1>3, <1>6, <2>1, <2>2, <2>3 DEF Ordered
  <2>5. QED
    BY <1>4, <1>5, <2>1, <2>2, <2>4 DEF Ordered, FileOrdered
<1>7. CASE e # Stop
  <2>1. Write(e) /\ e \in 1 .. logged
    BY <1>2, <1>7 DEF Writer, Run, e
  <2>2. TypeOK /\ (torn => file # <<>>)
    BY DEF LifeInv, SentinelSound
  <2>3. \A k \in DOMAIN file : \A i \in DOMAIN file[k] : file[k][i] < e
    BY <1>2, <1>7 DEF Ordered
  <2>4. CASE AppendEvent(e)
    <3>1. dropped \subseteq dropped' /\ (torn' => e \in dropped')
      <4>1. CASE torn' = FALSE /\ UNCHANGED dropped
        BY <4>1
      <4>2. CASE dropped' = dropped \cup {e}
        BY <4>2
      <4>3. QED
        BY <2>1, <4>1, <4>2 DEF Write
    <3>2. /\ \A x \in Events \cup {e} : x \in Events'
          /\ \A k \in DOMAIN file' : \A i \in DOMAIN file'[k] :
                file'[k][i] = e \/ \E m \in DOMAIN file : \E j \in DOMAIN file[m] :
                                      file'[k][i] = file[m][j]
          /\ FileOrdered'
      BY <2>1, <2>2, <2>3, <2>4, <3>1, WriteOrdered DEF FileOrdered
    <3>3. \A x \in 1 .. logged' : x \in Events' \cup dropped' \cup lost' \cup Pending'
      BY <1>1, <1>3, <3>1, <3>2 DEF Ordered
    <3>4. ASSUME NEW j \in DOMAIN queue', queue'[j] # Stop,
                 NEW k \in DOMAIN file', NEW i \in DOMAIN file'[k]
          PROVE  file'[k][i] < queue'[j]
      <4>1. e < queue'[j]
        BY <1>2, <1>7, <3>4 DEF Ordered
      <4>2. \A m \in DOMAIN file : \A h \in DOMAIN file[m] : file[m][h] < queue'[j]
        BY <1>2, <3>4 DEF Ordered
      <4>3. QED
        BY <3>2, <4>1, <4>2
    <3>5. QED
      BY <1>4, <3>2, <3>3, <3>4 DEF Ordered, FileOrdered
  <2>5. CASE dropped' = dropped \cup {e} /\ UNCHANGED <<file, torn>>
    <3>1. Events' = Events /\ FileOrdered'
      BY <2>5 DEF Events, Ordered, FileOrdered
    <3>2. \A x \in 1 .. logged' : x \in Events' \cup dropped' \cup lost' \cup Pending'
      BY <1>1, <1>3, <2>5, <3>1 DEF Ordered
    <3>3. QED
      BY <1>4, <1>5, <2>5, <3>1, <3>2 DEF Ordered, FileOrdered
  <2>6. QED
    BY <2>1, <2>4, <2>5 DEF Write
<1>8. QED
  BY <1>6, <1>7

\* What a process that dies has in its queue is lost.
LEMMA EndOrdered ==
    ASSUME Ordered, End
    PROVE  Ordered'
<1>1. queue' = <<>> /\ UNCHANGED <<file, torn, dropped, logged>> /\ lost' = lost \cup Pending
  BY DEF End, AuditReset
<1>2. Events' = Events /\ FileOrdered' /\ DOMAIN queue' = {}
  BY <1>1 DEF Events, Ordered, FileOrdered
<1>3. \A x \in 1 .. logged' : x \in Events' \cup dropped' \cup lost' \cup Pending'
  BY <1>1, <1>2 DEF Ordered
<1>4. QED
  BY <1>1, <1>2, <1>3 DEF Ordered, FileOrdered

LEMMA NextOrdered ==
    ASSUME LifeInv, Ordered, [Next]_lifeVars
    PROVE  Ordered'
<1>1. ASSUME Exit \/ Crash
      PROVE  Ordered'
  BY <1>1, EndOrdered DEF Exit, Crash
<1>2. ASSUME NEW h \in Handler, Arrive(h) \/ HandlerStep(h)
      PROVE  Ordered'
  <2>1. UNCHANGED lost /\ (UNCHANGED <<auditVars, logged>> \/ LogNext)
    BY <1>2 DEF Arrive, HandlerStep, Gate, Send, Reply, Going
  <2>2. QED
    BY <2>1, LogOrdered, SameOrdered
<1>3. ASSUME OpenPorts \/ Teardown \/ CloseRouter \/ CloseState \/ WakeUp \/ Install \/ Cancelled
      PROVE  Ordered'
  <2>1. UNCHANGED <<auditVars, logged, lost>>
    BY <1>3 DEF OpenPorts, Teardown, CloseRouter, CloseState, WakeUp, Install, Cancelled,
                Reconciling
  <2>2. QED
    BY <2>1, SameOrdered
<1>4. ASSUME NEW s \in Server, Terminate(s) \/ Drained(s) \/ ServerFails(s)
      PROVE  Ordered'
  <2>1. UNCHANGED <<auditVars, logged, lost>>
    BY <1>4 DEF Terminate, Drained, ServerFails, Serving
  <2>2. QED
    BY <2>1, SameOrdered
<1>5. ASSUME Boot
      PROVE  Ordered'
  <2>1. UNCHANGED <<queue, file, torn, dropped, logged, lost>>
    BY <1>5 DEF Boot, AuditStart
  <2>2. Events' = Events /\ Pending' = Pending
    BY <2>1 DEF Events, Pending
  <2>3. QED
    BY <2>1, <2>2 DEF Ordered
<1>6. ASSUME UNCHANGED lifeVars
      PROVE  Ordered'
  BY <1>6, SameOrdered DEF lifeVars
<1>7. QED
  BY <1>1, <1>2, <1>3, <1>4, <1>5, <1>6, StopOrdered, WriterOrdered DEF Next, MainStep

\* Every event logged is in the file, in the order of the calls, or was dropped by its own
\* failing write, or was in the queue of a process that died, or waits for the writer; and
\* it shares its line only with events that fell short (AuditLog._run, _write).
THEOREM EveryEventAccounted == Spec => []NothingElseLost
<1>1. LifeInv /\ Ordered => NothingElseLost
  <2> SUFFICES ASSUME LifeInv, Ordered
               PROVE  1 .. logged = Events \cup dropped \cup lost \cup Pending
    BY DEF Ordered, NothingElseLost
  <2>1. Events \subseteq 1 .. logged
    <3>1. \A k \in DOMAIN file : \A i \in DOMAIN file[k] : file[k][i] \in 1 .. logged
      BY EntryTyped DEF LifeInv
    <3>2. QED
      BY <3>1 DEF Events
  <2>2. Pending \subseteq 1 .. logged
    BY DEF Pending, LifeInv, TypeOK
  <2>3. QED
    BY <2>1, <2>2 DEF Ordered, LifeInv, TypeOK
<1>2. Init => Ordered
  BY InitOrdered
<1>3. LifeInv /\ Ordered /\ [Next]_lifeVars => Ordered'
  BY NextOrdered
<1>4. QED
  BY <1>1, <1>2, <1>3, LifeInvariance, PTL DEF Spec
=============================================================================
