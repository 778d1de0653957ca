------------------------------- MODULE Warden -------------------------------
(***************************************************************************)
(* The Warden process: the request pipeline of core/guard.py run by both   *)
(* guards, the SQLite quota store they share, the startup and periodic     *)
(* reconcile, crashes and restarts, and the forge behind it.               *)
(*                                                                         *)
(* The Warden is one asyncio event loop.  A handler runs without           *)
(* interruption from one suspending await to the next, so each action is   *)
(* such a section.  Two sections commit to the database several times: the *)
(* record loop of a push, and the end of a guard's reconcile.  They are    *)
(* split at the commits, because a crash can fall between them, and the    *)
(* variable loop names the task that still holds the event loop.           *)
(***************************************************************************)
EXTENDS GitPolicy, RestPolicy

CONSTANTS
    Req,        \* request slots: how many requests may be in flight at once
    Intents,    \* the parsed requests the agent may send
    OwnIid,     \* merge requests whose source branch is in the namespace
    Window,     \* WINDOW_SECONDS, in ticks
    MaxTime,    \* bound: the clock stops here
    MaxRows,    \* bound: write rows ever recorded
    MaxBatch    \* bound: longest push, used to keep room for those in flight

ASSUME WardenAssumption ==
    /\ Intents # {} /\ \A i \in Intents : i \in Intent
    /\ OwnIid \subseteq Iid
    /\ Window \in Nat /\ MaxTime \in Nat /\ MaxRows \in Nat /\ MaxBatch \in Nat
    /\ "none" \notin Req /\ "reconcile" \notin Req
    /\ IsFiniteSet(Req) /\ Req # {}

VARIABLES
    proc,       \* "starting": port still closed, "serving", or "down"
    loop,       \* the task holding the event loop between two commits
    req,        \* the request pipeline's slots
    recon,      \* the reconcile pass
    aliases,    \* <<host, numeric id>> pairs the REST guard accepts
    nsCache,    \* merge requests with a cached namespace answer
    writes,     \* table writes
    nextRow,    \* rows ever recorded, plus one
    branches,   \* table agent_branches: <<host, project, ref>>
    mrs,        \* table agent_mrs: <<host, project, iid>>
    latch,      \* table meta: guards with a reconciled row
    now,        \* the clock
    refs,       \* the forge: namespace branches <<host, project id, ref>>
    openMrs,    \* the forge: open namespace MRs <<host, project id, iid>>
    calls       \* writes handed to the forge, and what became of them

dbVars == <<writes, nextRow, branches, mrs, latch>>
memVars == <<proc, loop, req, recon, aliases, nsCache>>
forgeVars == <<refs, openMrs>>
vars == <<memVars, dbVars, now, forgeVars, calls>>

Row == [id : Nat, ts : Nat, guard : Guard, host : Host, ref : Ref \cup {"-"}]

LockedView == [locked |-> TRUE, writes |-> 0, branches |-> 0, mrs |-> 0]

SomeIntent == CHOOSE i \in Intents : TRUE

At(pc, i, view) == [pc |-> pc, intent |-> i, view |-> view, rows |-> <<>>, logged |-> FALSE]

Idle == At("idle", SomeIntent, LockedView)

ForgeProject(h, p) == NumericId[<<h, p.name>>]

\* Writes whose upstream call must be preceded by a row.
Counted(i) == i.op = "receive-pack" \/ (i.op = "rest" /\ i.row \in WriteRow)

\* What record_write is called with, once per ref command or once per REST write.
RowCount(i) == IF i.op = "receive-pack" THEN Len(i.cmds) ELSE 1
RowRef(i, k) == IF i.op = "receive-pack" THEN i.cmds[k].ref ELSE "-"
-----------------------------------------------------------------------------
(* The quota store (core/state.py and the two guards' state.py).           *)

WritesLastHour(h) == Cardinality({w \in writes : w.host = h /\ w.ts > now - Window})
OpenBranches(h) == Cardinality({b \in branches : b[1] = h})
OpenMrs(h) == Cardinality({m \in mrs : m[1] = h})

StateView(g, h) ==
    IF g \notin latch THEN LockedView
    ELSE [locked |-> FALSE, writes |-> WritesLastHour(h),
          branches |-> IF g = "git" THEN OpenBranches(h) ELSE 0,
          mrs |-> IF g = "api" THEN OpenMrs(h) ELSE 0]

\* Fault: the row is keyed by the Host header as the client spelled it.
NewRowRawHost(i, k) == [id |-> nextRow, ts |-> now, guard |-> i.guard,
                        host |-> i.host, ref |-> RowRef(i, k)]

NewRow(i, k) == [id |-> nextRow, ts |-> now, guard |-> i.guard,
                 host |-> HostOf(i), ref |-> RowRef(i, k)]

\* Fault: INSERT OR REPLACE on the ref, as the two domain tables do.
RecordWriteReplacing(i, k) ==
    /\ writes' = {w \in writes : w.ref # RowRef(i, k)} \cup {NewRow(i, k)}
    /\ nextRow' = nextRow + 1

RecordWrite(i, k) ==
    /\ writes' = writes \cup {NewRow(i, k)}
    /\ nextRow' = nextRow + 1

\* Fault: the row on the window's edge goes as well.
PruneEdge == writes' = {w \in writes : w.ts > now - Window}

Prune == writes' = {w \in writes : w.ts >= now - Window}

\* Fault: another host's rows for the same project path are deleted too.
ReplaceRowsAnyHost(table, h, p, listing) ==
    {b \in table : b[2] # p} \cup {<<h, p, x>> : x \in listing}

\* Fault: rows of branches that are gone stay.
ReplaceRowsAddOnly(table, h, p, listing) ==
    table \cup {<<h, p, x>> : x \in listing}

ReplaceRows(table, h, p, listing) ==
    {b \in table : ~(b[1] = h /\ b[2] = p)} \cup {<<h, p, x>> : x \in listing}
-----------------------------------------------------------------------------
(* The request pipeline (Guard.handle).                                    *)

Active(r) == req[r].pc \notin {"idle", "done"}

\* The handler ends: with a logged answer, or with an exception and no log.
Finish(r, logged) ==
    req' = [req EXCEPT ![r] = [At("done", SomeIntent, LockedView) EXCEPT !.logged = logged]]

Room == nextRow + MaxBatch * (1 + Cardinality({r \in Req : Active(r)})) <= MaxRows + 1

Arrive(r) ==
    /\ proc = "serving" /\ ~Active(r) /\ Room
    /\ \E i \in Intents : req' = [req EXCEPT ![r] = At("parse", i, LockedView)]
    /\ UNCHANGED <<proc, loop, recon, aliases, nsCache, dbVars, now, forgeVars, calls>>

\* The body ends early or does not parse, or a field has a type decide cannot
\* compare (str.startswith of a number): the exception leaves the handler.
ParseRaises(r) ==
    /\ req[r].pc = "parse" /\ loop = "none"
    /\ Finish(r, FALSE)
    /\ UNCHANGED <<proc, loop, recon, aliases, nsCache, dbVars, now, forgeVars, calls>>

Recognized(i) == IF i.guard = "git" THEN GitActions(i) ELSE RestActions(i)

Decide(i, view, mrSourceOk) ==
    IF i.guard = "git" THEN GitDecide(i, view) ELSE RestDecide(i, view, mrSourceOk)

\* decide, then record or deny_response, with no await in between.
Conclude(r, view, mrSourceOk) ==
    LET i == req[r].intent IN
    IF ~Decide(i, view, mrSourceOk) THEN Finish(r, TRUE) /\ UNCHANGED loop
    ELSE IF Counted(i)
    THEN /\ req' = [req EXCEPT ![r] = At("record", i, view)]
         /\ loop' = r
    ELSE /\ req' = [req EXCEPT ![r] = At("read", i, view)]
         /\ UNCHANGED loop

MrKey(i) == <<HostOf(i), i.project, i.iid>>
MrSource(i) == IF i.iid \in OwnIid THEN "in" ELSE "out"

\* Parsed: snapshot, gates, and enrich up to its upstream lookup.  An entry of
\* nsCache may have expired by now, so a cached answer is used or not.
Gate(r) ==
    LET i == req[r].intent
        view == StateView(i.guard, HostOf(i)) IN
    /\ req[r].pc = "parse" /\ loop = "none"
    /\ \/ /\ ~KernelGates(i, Recognized(i), aliases)
          /\ Finish(r, TRUE) /\ UNCHANGED loop
       \/ /\ KernelGates(i, Recognized(i), aliases)
          /\ ~NeedsSourceLookup(i)
          /\ Conclude(r, view, "none")
       \/ /\ KernelGates(i, Recognized(i), aliases)
          /\ NeedsSourceLookup(i) /\ MrKey(i) \in nsCache
          /\ Conclude(r, view, MrSource(i))
       \/ /\ KernelGates(i, Recognized(i), aliases)
          /\ NeedsSourceLookup(i)
          /\ req' = [req EXCEPT ![r] = At("lookup", i, view)]
          /\ UNCHANGED loop
    /\ UNCHANGED <<proc, recon, aliases, nsCache, dbVars, now, forgeVars, calls>>

\* enrich resumes with the forge's answer; decide still uses the old snapshot.
LookedUp(r) ==
    LET i == req[r].intent IN
    /\ req[r].pc = "lookup" /\ loop = "none"
    /\ \/ /\ Conclude(r, req[r].view, MrSource(i))
          /\ nsCache' = nsCache \cup {MrKey(i)}
       \/ /\ Conclude(r, req[r].view, "none")
          /\ UNCHANGED nsCache
    /\ UNCHANGED <<proc, recon, aliases, dbVars, now, forgeVars, calls>>

LookupRaises(r) ==
    /\ req[r].pc = "lookup" /\ loop = "none"
    /\ Finish(r, FALSE)
    /\ UNCHANGED <<proc, loop, recon, aliases, nsCache, dbVars, now, forgeVars, calls>>

\* Fault: one row stands for the whole push.
AdvanceAtOnce(r, rec) ==
    /\ req' = [req EXCEPT ![r] = [rec EXCEPT !.pc = "send"]]
    /\ loop' = "none"

\* record goes on to the next ref command, or is done and reaches forward.
Advance(r, rec) ==
    IF Len(rec.rows) < RowCount(rec.intent)
    THEN /\ req' = [req EXCEPT ![r] = [rec EXCEPT !.pc = "record"]]
         /\ loop' = r
    ELSE /\ req' = [req EXCEPT ![r] = [rec EXCEPT !.pc = "send"]]
         /\ loop' = "none"

RecordRow(r) ==
    LET i == req[r].intent
        k == Len(req[r].rows) + 1 IN
    /\ req[r].pc = "record" /\ loop = r
    /\ RecordWrite(i, k)
    /\ LET rec == [req[r] EXCEPT !.rows = Append(@, NewRow(i, k))] IN
       IF i.op = "receive-pack" /\ IsCreate(i.cmds[k])
       THEN /\ req' = [req EXCEPT ![r] = [rec EXCEPT !.pc = "branch"]]
            /\ UNCHANGED loop
       ELSE Advance(r, rec)
    /\ UNCHANGED <<proc, recon, aliases, nsCache, branches, mrs, latch, now, forgeVars, calls>>

AddBranch(r) ==
    LET i == req[r].intent IN
    /\ req[r].pc = "branch" /\ loop = r
    /\ branches' = branches \cup {<<HostOf(i), NormalizeProject(i.project),
                                     i.cmds[Len(req[r].rows)].ref>>}
    /\ Advance(r, req[r])
    /\ UNCHANGED <<proc, recon, aliases, nsCache, writes, nextRow, mrs, latch, now,
                   forgeVars, calls>>

\* forward puts the write on the wire with the write token.
Send(r) ==
    /\ req[r].pc = "send" /\ loop = "none"
    /\ calls' = calls \cup {[intent |-> req[r].intent, rows |-> req[r].rows, status |-> "sent"]}
    /\ req' = [req EXCEPT ![r].pc = "await"]
    /\ UNCHANGED <<proc, loop, recon, aliases, nsCache, dbVars, now, forgeVars>>

\* The forge answered, whatever its status: relayed and logged.
Reply(r) ==
    /\ loop = "none"
    /\ \/ req[r].pc = "read"
       \/ /\ req[r].pc = "await"
          /\ \E c \in calls : c.rows = req[r].rows /\ c.status # "sent"
    /\ Finish(r, TRUE)
    /\ UNCHANGED <<proc, loop, recon, aliases, nsCache, dbVars, now, forgeVars, calls>>

\* Connect error, timeout or a client that disconnects while its pack streams.
ForwardRaises(r) ==
    /\ req[r].pc \in {"read", "send", "await"} /\ loop = "none"
    /\ Finish(r, FALSE)
    /\ UNCHANGED <<proc, loop, recon, aliases, nsCache, dbVars, now, forgeVars, calls>>
-----------------------------------------------------------------------------
(* The forge.  It may act on a write at any time after it was sent, also   *)
(* after the Warden gave up waiting for it or crashed.                     *)

\* Only a name under refs/heads/ makes a branch: git refuses a bare one.
Created(i) ==
    IF i.op = "receive-pack"
    THEN {i.cmds[k].ref :
             k \in {k \in DOMAIN i.cmds : i.cmds[k].space = "heads" /\ IsCreate(i.cmds[k])}}
    ELSE IF i.row = "branch.create" THEN {i.branch} ELSE {}

Answer(c, status) == calls' = (calls \ {c}) \cup {[c EXCEPT !.status = status]}

\* A push may land some of its refs only; a new merge request gets a free iid.
Apply(c) ==
    LET i == c.intent
        h == HostOf(i)
        p == ForgeProject(h, i.project) IN
    /\ c.status = "sent"
    /\ Answer(c, "applied")
    /\ \E landed \in SUBSET Created(i) : refs' = refs \cup {<<h, p, x>> : x \in landed}
    /\ IF i.op # "rest" THEN UNCHANGED openMrs
       ELSE IF i.row = "mr.create"
       THEN \E iid \in OwnIid : /\ <<h, p, iid>> \notin openMrs
                                /\ openMrs' = openMrs \cup {<<h, p, iid>>}
       ELSE IF i.row = "mr.update" /\ i.field = "close"
       THEN openMrs' = openMrs \ {<<h, p, i.iid>>}
       ELSE IF i.row = "mr.update" /\ i.field = "reopen"
       THEN openMrs' = openMrs \cup {<<h, p, i.iid>>}
       ELSE UNCHANGED openMrs
    /\ UNCHANGED <<memVars, dbVars, now>>

Refuse(c) ==
    /\ c.status = "sent"
    /\ Answer(c, "refused")
    /\ UNCHANGED <<memVars, dbVars, now, forgeVars>>

Items == UNION {{h} \X Endpoint[h].projects : h \in OpenHosts}

\* People merge, close and delete at the forge, too.
ForgeCleanup ==
    /\ \/ \E b \in refs : refs' = refs \ {b} /\ UNCHANGED openMrs
       \/ \E m \in openMrs : openMrs' = openMrs \ {m} /\ UNCHANGED refs
    /\ UNCHANGED <<memVars, dbVars, now, calls>>
-----------------------------------------------------------------------------
(* Reconcile: one pass per guard, git first, over every open endpoint's    *)
(* projects.  failed collects the guards with a failing project, installed *)
(* the projects whose rows this guard's pass has replaced.                 *)

Pass(g, failed) ==
    [phase |-> IF Items = {} THEN "end" ELSE "list", guard |-> g, todo |-> Items,
     item |-> <<>>, listing |-> {}, failed |-> failed, installed |-> {}, ids |-> {}]

Sleeping == [Pass("git", {}) EXCEPT !.phase = "sleep", !.todo = {}]

\* for_each_host_project returns and mark_reconciled runs without an await.
LoopAfter(rec) == loop' = IF rec.phase = "end" THEN "reconcile" ELSE "none"

Next1(rec, x) ==
    [rec EXCEPT !.todo = @ \ {x}, !.item = <<>>, !.listing = {},
                !.phase = IF rec.todo = {x} THEN "end" ELSE "list"]

Truth(g, h, p) == {t[3] : t \in {t \in IF g = "git" THEN refs ELSE openMrs :
                                     t[1] = h /\ t[2] = ForgeProject(h, p)}}

\* The forge answers the listing request; a plain endpoint has no REST base.
TakeListing ==
    /\ recon.phase = "list"
    /\ \E x \in recon.todo :
          /\ Endpoint[x[1]].type = "gitlab"
          /\ recon' = [recon EXCEPT !.phase = "install", !.item = x,
                                    !.listing = Truth(recon.guard, x[1], x[2])]
    /\ UNCHANGED <<proc, loop, req, aliases, nsCache, dbVars, now, forgeVars, calls>>

\* The handler resumes with the listing and replaces the project's rows.
InstallListing ==
    LET h == recon.item[1]
        p == recon.item[2]
        rec == Next1([recon EXCEPT !.installed = @ \cup {recon.item}], recon.item) IN
    /\ recon.phase = "install" /\ loop = "none"
    /\ IF recon.guard = "git"
       THEN /\ branches' = ReplaceRows(branches, h, p, recon.listing)
            /\ recon' = rec
            /\ UNCHANGED mrs
       ELSE /\ mrs' = ReplaceRows(mrs, h, p, recon.listing)
            /\ recon' = [rec EXCEPT !.ids = @ \cup {<<h, ForgeProject(h, p)>>}]
            /\ UNCHANGED branches
    /\ LoopAfter(rec)
    /\ UNCHANGED <<proc, req, aliases, nsCache, writes, nextRow, latch, now, forgeVars, calls>>

\* An exception for one project is logged and skipped.
ListFails ==
    /\ recon.phase = "list" /\ loop = "none"
    /\ \E x \in recon.todo :
          LET rec == Next1([recon EXCEPT !.failed = @ \cup {recon.guard}], x) IN
          /\ recon' = rec
          /\ LoopAfter(rec)
    /\ UNCHANGED <<proc, req, aliases, nsCache, dbVars, now, forgeVars, calls>>

\* Fault: one project's success unlocks the guard.
UnlockedByAny ==
    IF recon.installed = {} THEN latch ELSE latch \cup {recon.guard}

\* Fault: one guard's failure keeps the other locked.
UnlockedIfAllOk ==
    IF recon.failed # {} THEN latch ELSE latch \cup {recon.guard}

\* mark_reconciled, if every project of every host was rebuilt.
Unlocked ==
    IF recon.guard \in recon.failed THEN latch ELSE latch \cup {recon.guard}

\* A guard's pass is over: its latch, its aliases, and the next guard's turn.
EndPass ==
    LET g == recon.guard
        rec == IF g = "git" THEN Pass("api", recon.failed) ELSE Sleeping IN
    /\ recon.phase = "end" /\ loop = "reconcile"
    /\ latch' = Unlocked
    /\ aliases' = IF g = "api" THEN recon.ids ELSE aliases
    /\ recon' = rec
    /\ LoopAfter(rec)
    /\ proc' = IF g = "api" /\ proc = "starting" THEN "serving" ELSE proc
    /\ UNCHANGED <<req, nsCache, writes, nextRow, branches, mrs, now, forgeVars, calls>>

\* reconcile_interval_s has passed.
Wake ==
    /\ proc = "serving" /\ recon.phase = "sleep" /\ loop = "none"
    /\ Prune
    /\ recon' = Pass("git", {})
    /\ LoopAfter(Pass("git", {}))
    /\ UNCHANGED <<proc, req, aliases, nsCache, nextRow, branches, mrs, latch, now,
                   forgeVars, calls>>
-----------------------------------------------------------------------------
(* The process.                                                            *)

Crash ==
    /\ proc # "down"
    /\ proc' = "down" /\ loop' = "none"
    /\ req' = [r \in Req |-> Idle]
    /\ recon' = Sleeping
    /\ aliases' = {} /\ nsCache' = {}
    /\ UNCHANGED <<dbVars, now, forgeVars, calls>>

\* The port opens when the first reconcile_all is over (EndPass).
Restart ==
    /\ proc = "down"
    /\ proc' = "starting"
    /\ recon' = Pass("git", {})
    /\ LoopAfter(Pass("git", {}))
    /\ UNCHANGED <<req, aliases, nsCache, dbVars, now, forgeVars, calls>>

Tick ==
    /\ now < MaxTime
    /\ now' = now + 1
    /\ UNCHANGED <<memVars, dbVars, forgeVars, calls>>

Init ==
    /\ proc = "starting"
    /\ loop = IF Items = {} THEN "reconcile" ELSE "none"
    /\ req = [r \in Req |-> Idle]
    /\ recon = Pass("git", {})
    /\ aliases = {} /\ nsCache = {}
    /\ writes = {} /\ nextRow = 1 /\ branches = {} /\ mrs = {} /\ latch = {}
    /\ now = 0
    /\ refs = {} /\ openMrs = {}
    /\ calls = {}

Handler(r) ==
    \/ Gate(r) \/ LookedUp(r) \/ LookupRaises(r) \/ RecordRow(r) \/ AddBranch(r)
    \/ Send(r) \/ Reply(r) \/ ForwardRaises(r)

Reconcile == TakeListing \/ InstallListing \/ ListFails \/ EndPass \/ Wake

Next ==
    \/ \E r \in Req : Arrive(r) \/ ParseRaises(r) \/ Handler(r)
    \/ Reconcile
    \/ \E c \in calls : Apply(c) \/ Refuse(c)
    \/ ForgeCleanup
    \/ Crash \/ Restart \/ Tick

Spec == Init /\ [][Next]_vars

\* A section that holds the loop runs on; an upstream request is answered or
\* times out (httpx.Timeout in UpstreamRouter), and its task is scheduled again
\* (the ready queue is a FIFO).  Nothing is promised of a client, which may stall
\* a request while it is parsed or its pack is streamed, nor of a restart, which
\* compose tries twice only.
Fairness ==
    /\ \A r \in Req : WF_vars(RecordRow(r) \/ AddBranch(r))
    /\ \A r \in Req : SF_vars(LookedUp(r) \/ LookupRaises(r))
    /\ SF_vars(Reconcile)

FairSpec == Spec /\ Fairness
=============================================================================
