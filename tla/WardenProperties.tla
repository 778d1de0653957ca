-------------------------- MODULE WardenProperties --------------------------
(***************************************************************************)
(* What the Warden promises, and what its documentation promises for it.   *)
(***************************************************************************)
EXTENDS Warden

Pc == {"idle", "parse", "lookup", "record", "branch", "send", "await", "read", "done"}

View == [locked : BOOLEAN, writes : Nat, branches : Nat, mrs : Nat]

Slot == [pc : Pc, intent : Intents, view : View, rows : Seq(Row), logged : BOOLEAN]

PassState == [phase : {"list", "install", "end", "sleep"}, guard : Guard,
          todo : SUBSET Items, item : Items \cup {<<>>},
          listing : SUBSET (Ref \cup Iid), failed : SUBSET Guard,
          installed : SUBSET Items, ids : SUBSET (Host \X Name)]

Call == [intent : Intents, rows : Seq(Row), status : {"sent", "applied", "refused"}]

\* Every variable keeps its shape; in particular every row of the quota store is
\* keyed by a normalised host, whatever spelling the request used.
TypeOK ==
    /\ proc \in {"starting", "serving", "down"}
    /\ loop \in {"none", "reconcile"} \cup Req
    /\ req \in [Req -> Slot]
    /\ recon \in PassState
    /\ aliases \subseteq Host \X Name
    /\ nsCache \subseteq Host \X Spelling \X Iid
    /\ writes \subseteq Row
    /\ nextRow \in Nat \ {0}
    /\ branches \subseteq Host \X Spelling \X Ref
    /\ mrs \subseteq Host \X Spelling \X Iid
    /\ latch \subseteq Guard
    /\ now \in Nat
    /\ refs \subseteq Host \X Name \X Ref
    /\ openMrs \subseteq Host \X Name \X Iid
    /\ calls \subseteq Call
-----------------------------------------------------------------------------
(* The write log.                                                          *)

Kept(w) == w \in writes \/ w.ts < now - Window

\* One row per ref command, in order, under the push's host, and none shared.
Covers(i, rows) ==
    /\ Len(rows) = RowCount(i)
    /\ \A k \in 1 .. Len(rows) : rows[k].host = HostOf(i) /\ rows[k].ref = RowRef(i, k)
    /\ \A j, k \in 1 .. Len(rows) : j < k => rows[j].id < rows[k].id

\* "Record every ref write before the upstream call to ensure a crash never loses
\* a write" (GitGuard.record, ApiGuard.record): every write the forge was sent has
\* a row of its own for each command, and the row is still there inside the
\* window, whatever crashes, prunes and reconciles came between.
RecordedBeforeForwarded ==
    \A c \in calls : Covers(c.intent, c.rows) /\ \A k \in 1 .. Len(c.rows) : Kept(c.rows[k])

Recent(h) == {w \in writes : w.host = h /\ w.ts > now - Window}

\* The rate counter goes down by the passing of time only: no prune, reconcile,
\* failed request or restart takes a write out of a host's window.
RateForgetsOnlyByTime ==
    [][now' = now => \A h \in Host : Recent(h) \subseteq Recent(h)']_vars

\* decide counts with a snapshot taken before enrich awaited the forge, so the
\* hourly ceiling can be exceeded, by one write per other request in flight and
\* never by more (Guard.handle, _quota_check).
RateOvershootBounded ==
    \A h \in Listed : WritesLastHour(h) <= Endpoint[h].maxWrites + Cardinality(Req) - 1

Pushing(r) == req[r].pc \in {"record", "branch"} /\ req[r].intent.op = "receive-pack"

Creates(i) == \E k \in DOMAIN i.cmds : IsCreate(i.cmds[k])

\* A push has no await between its snapshot and its last row: when it is handed
\* to forward its own commands are all counted and neither ceiling is exceeded,
\* whatever other requests and the reconcile did; the branch ceiling is checked for
\* pushes that create, since the forge may have more branches than it allows
\* (policy.decide, record).
PushWithinLimits ==
    [][\A r \in Req : LET i == req[r].intent
                          h == HostOf(i) IN
           Pushing(r) /\ req'[r].pc = "send" =>
               /\ WritesLastHour(h)' <= Endpoint[h].maxWrites
               /\ Creates(i) => OpenBranches(h)' <= Endpoint[h].maxBranches
               /\ \A k \in DOMAIN i.cmds : IsCreate(i.cmds[k]) =>
                      <<h, NormalizeProject(i.project), i.cmds[k].ref>> \in branches']_vars

Entry(w) == [id |-> w.id, ts |-> w.ts, account |-> w.host]

Ledger == INSTANCE WriteLedger
    WITH Account <- Host, nextId <- nextRow,
         entries <- {Entry(w) : w \in writes},
         payments <- {{Entry(c.rows[k]) : k \in DOMAIN c.rows} : c \in calls}

\* The two guards, their pushes and requests in flight, prune, reconcile and restarts
\* keep one ledger: every write sent is paid with rows of its host that were there
\* before and pay for no other write, and rows go by age only (record, forward, prune).
KeepsLedger == Ledger!Spec
-----------------------------------------------------------------------------
(* What reaches the forge.                                                 *)

\* A project of the host's allowlist, by path or, for REST, by the numeric id
\* the forge itself gave for one of them.
KnownProject(i) ==
    \/ GitProjectAllowed(HostOf(i), i.project)
    \/ /\ i.guard = "api"
       /\ \E p \in Endpoint[HostOf(i)].projects :
              ForgeProject(HostOf(i), p) = NormalizeProject(i.project).name

\* The branches a request names itself, or through its merge request; a push changes
\* no tag and deletes no branch.
InOwnBranches(i) ==
    IF i.op = "receive-pack"
    THEN \A k \in DOMAIN i.cmds :
             /\ InNamespace(HostOf(i), i.cmds[k].ref)
             /\ i.cmds[k].space # "tags"
             /\ i.cmds[k].space = "heads" => ~IsDelete(i.cmds[k])
    ELSE /\ i.row \in LiteralRow => InNamespace(HostOf(i), i.branch)
         /\ i.row \in LookupRow => i.iid \in OwnIid

Cleared(i) ==
    /\ AccessMode(HostOf(i)) # "closed"
    /\ NeedsWrite(i) => AccessMode(HostOf(i)) = "read-write"
    /\ i.project.name # NoName => KnownProject(i)
    /\ Recognized(i) # {}
    /\ Recognized(i) \cap Irreversible = {}
    /\ Recognized(i) \subseteq Endpoint[HostOf(i)].actions

\* Whatever is relayed with a token, a read, a push discovery or a write, is for an
\* open host, a writable one if the token is the write token, an allowed project and
\* enabled, reversible actions, and every name a write gives is in the agent's
\* namespace; a numeric id stands for a project of the same host only.  The actions are
\* those of the request as a whole: a command of a push that is recognised as nothing,
\* beside one that is recognised, is held by its name only.
Confined ==
    /\ \A c \in calls : Cleared(c.intent) /\ InOwnBranches(c.intent)
    /\ \A r \in Req : req[r].pc = "read" => Cleared(req[r].intent)

\* "Fail-safe: never 'empty = free'": no write is sent for a guard whose counters
\* were never rebuilt from the forge, in this run or one before it.
LockedNeverSpends == \A c \in calls : c.intent.guard \in latch
-----------------------------------------------------------------------------
(* Reconcile.                                                              *)

\* A guard is unlocked only by a pass that has replaced the rows of every allowed
\* project of every open host and saw none of them fail (for_each_host_project).
UnlockMeansComplete ==
    [][\A g \in latch' \ latch : recon.guard = g /\ recon.installed = Items]_vars

\* "Two hosts sharing a project path never collide": counted branches and merge
\* requests are dropped only by the replacement of their own host and project.
ReconcileTouchesOneProject ==
    [][\A b \in (branches \cup mrs) \ (branches' \cup mrs') :
           recon.item = <<b[1], b[2]>>]_vars

StaysUp == <>[](proc # "down")

\* From some time on g's requests to the forge are all answered.
ForgeAnswers(g) == <>[][ListFails => recon.guard # g]_vars

\* A guard whose forge answers is unlocked in the end, though the other guard's
\* requests fail for ever and clients stall theirs ("a broken REST-API upstream
\* never locks git").
GuardUnlocks == \A g \in Guard : StaysUp /\ ForgeAnswers(g) => <>(g \in latch)

CountersTrue ==
    \A x \in Items :
        /\ {b[3] : b \in {b \in branches : <<b[1], b[2]>> = x}} = Truth("git", x[1], x[2])
        /\ {m[3] : m \in {m \in mrs : <<m[1], m[2]>> = x}} = Truth("api", x[1], x[2])

Quiet == <>[][UNCHANGED <<refs, openMrs>> /\ \A r \in Req : ~AddBranch(r)]_vars

\* "GitLab truth dominates": once the agent and the forge are quiet, the branch
\* and merge request counters come to equal what is at the forge, and stay so.
CountersConverge ==
    StaysUp /\ Quiet /\ (\A g \in Guard : ForgeAnswers(g)) => <>[]CountersTrue
-----------------------------------------------------------------------------
(* Statements of the documentation the code does not keep.                 *)

\* warden.toml: "max simultaneously existing branches".
BranchCeiling ==
    \A h \in Listed : Cardinality({x \in refs : x[1] = h}) <= Endpoint[h].maxBranches

\* assets/config/README.md: a plain endpoint is for a host with no REST API.  A
\* guard should unlock when every request that can be answered is.
AnswerableAnswered ==
    <>[][ListFails => \A x \in recon.todo \ recon'.todo : Endpoint[x[1]].type = "plain"]_vars

PlainEndpointUnlocks == StaysUp /\ AnswerableAnswered => <>("git" \in latch)
=============================================================================
