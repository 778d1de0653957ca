---------------------------- MODULE WardenProofs ----------------------------
(***************************************************************************)
(* The Warden's type invariant, that every write at the forge is recorded, *)
(* confined and unlocked, for every configuration and every agent.         *)
(*                                                                         *)
(* The invariant follows a request through the pipeline: what its gates    *)
(* establish is kept across the await of enrich and the commits of record, *)
(* because the three things it rests on only ever move one way: a row is   *)
(* kept until it is old, the latch only grows, and ids only increase.      *)
(***************************************************************************)
EXTENDS WardenProperties, FiniteSetTheorems, TLAPS

InSection == {"record", "branch", "send", "await"}
Outside == {"idle", "parse", "lookup", "read", "done"}

\* Kept, with the write log and the clock as arguments: a step is then described
\* by their values before and after it.
KeptIn(w, log, time) == w \in log \/ w.ts < time - Window

\* The rows a request has so far: for its first commands, in order, all kept.
Begun(i, rows, log, time, next) ==
    /\ Len(rows) <= RowCount(i)
    /\ \A k \in 1 .. Len(rows) :
           /\ rows[k].host = HostOf(i) /\ rows[k].ref = RowRef(i, k)
           /\ rows[k].id < next
           /\ KeptIn(rows[k], log, time)
    /\ \A j, k \in 1 .. Len(rows) : j < k => rows[j].id < rows[k].id

Admitted(s, log, time, next, open) ==
    /\ Counted(s.intent) /\ Cleared(s.intent) /\ InOwnBranches(s.intent)
    /\ s.intent.guard \in open
    /\ Begun(s.intent, s.rows, log, time, next)

Sound(s, log, time, next, open) ==
    /\ s.pc \in Outside => s.rows = <<>>
    /\ s.pc = "lookup" =>
           /\ Counted(s.intent) /\ Cleared(s.intent)
           /\ ~s.view.locked => s.intent.guard \in open
    /\ s.pc = "read" => Cleared(s.intent)
    /\ s.pc \in InSection => Admitted(s, log, time, next, open)
    /\ s.pc = "record" => Len(s.rows) < RowCount(s.intent)
    /\ s.pc = "branch" => s.intent.op = "receive-pack" /\ Len(s.rows) >= 1
    /\ s.pc \in {"send", "await"} => Len(s.rows) = RowCount(s.intent)

Sent(c, log, time, open) ==
    /\ Covers(c.intent, c.rows)
    /\ \A k \in 1 .. Len(c.rows) : KeptIn(c.rows[k], log, time)
    /\ Cleared(c.intent) /\ InOwnBranches(c.intent)
    /\ c.intent.guard \in open

SlotsSound == \A r \in Req : Sound(req[r], writes, now, nextRow, latch)

CallsSound == \A c \in calls : Sent(c, writes, now, latch)

AliasSet == {<<x[1], ForgeProject(x[1], x[2])>> : x \in Items}

ReconcileSound ==
    /\ recon.phase = "install" =>
           /\ recon.item \in Items
           /\ recon.listing \subseteq IF recon.guard = "git" THEN Ref ELSE Iid
    /\ recon.ids \subseteq AliasSet
    /\ aliases \subseteq AliasSet

TablesFinite ==
    /\ IsFiniteSet(writes) /\ IsFiniteSet(branches) /\ IsFiniteSet(mrs)
    /\ IsFiniteSet(refs) /\ IsFiniteSet(openMrs) /\ IsFiniteSet(recon.listing)

IInv == TypeOK /\ TablesFinite /\ SlotsSound /\ ReconcileSound /\ CallsSound
-----------------------------------------------------------------------------
(* The configuration.                                                      *)

LEMMA EndpointType ==
    ASSUME NEW h \in Listed
    PROVE  Endpoint[h] \in EndpointRecord
BY ConfigAssumption

LEMMA IntentType ==
    ASSUME NEW i \in Intents
    PROVE  /\ i \in IntentRecord
           /\ i.guard = "git" <=> i.op \in GitOp
           /\ HostOf(i) \in Host
BY WardenAssumption, ConfigAssumption DEF Intent, HostOf, IntentRecord

LEMMA ItemsType == Items \subseteq Host \X Spelling
<1>1. ASSUME NEW h \in OpenHosts
      PROVE  {h} \X Endpoint[h].projects \subseteq Host \X Spelling
  BY <1>1, EndpointType, ConfigAssumption DEF OpenHosts, EndpointRecord
<1>2. QED
  BY <1>1 DEF Items

LEMMA ForgeProjectType ==
    ASSUME NEW h \in Host, NEW p \in Spelling
    PROVE  ForgeProject(h, p) \in Name
BY ConfigAssumption DEF ForgeProject, Spelling

LEMMA AliasSetType == AliasSet \subseteq Host \X Name
BY ItemsType, ForgeProjectType DEF AliasSet
-----------------------------------------------------------------------------
(* What passing the gates and decide establishes.                          *)

LEMMA CountedNeedsWrite ==
    ASSUME NEW i \in Intents, Counted(i)
    PROVE  NeedsWrite(i)
BY DEF Counted, NeedsWrite

LEMMA RowCountType ==
    ASSUME NEW i \in Intents
    PROVE  RowCount(i) \in Nat
BY IntentType DEF RowCount, IntentRecord

LEMMA GatesClear ==
    ASSUME NEW i \in Intents, Recognized(i) # {}, NEW al \in SUBSET AliasSet,
           KernelGates(i, Recognized(i), al)
    PROVE  Cleared(i)
<1>1. /\ AccessMode(HostOf(i)) # "closed"
      /\ NeedsWrite(i) => AccessMode(HostOf(i)) = "read-write"
  BY DEF KernelGates, HostGate, WriteCredentialGate
<1>2. Recognized(i) \cap Irreversible = {}
      /\ Recognized(i) \subseteq Endpoint[HostOf(i)].actions
  BY DEF KernelGates, CriticalityGate, ActionGate
<1>3. ASSUME i.project.name # NoName, ~GitProjectAllowed(HostOf(i), i.project)
      PROVE  KnownProject(i)
  <2>1. i.guard = "api" /\ <<HostOf(i), NormalizeProject(i.project).name>> \in al
    BY <1>3 DEF KernelGates, ProjectGate, ProjectAllowed
  <2>2. PICK x \in Items :
            <<HostOf(i), NormalizeProject(i.project).name>> = <<x[1], ForgeProject(x[1], x[2])>>
    BY <2>1 DEF AliasSet
  <2>3. x[2] \in Endpoint[HostOf(i)].projects
    BY <2>2 DEF Items
  <2>4. QED
    BY <2>1, <2>2, <2>3 DEF KnownProject
<1>4. QED
  BY <1>1, <1>2, <1>3 DEF Cleared, KnownProject

\* No delete passes the criticality gate.
LEMMA NoDelete ==
    ASSUME NEW i \in Intents, i.op = "receive-pack", Cleared(i),
           NEW k \in DOMAIN i.cmds, i.cmds[k].space = "heads"
    PROVE  ~IsDelete(i.cmds[k])
<1> SUFFICES ASSUME IsDelete(i.cmds[k]) PROVE FALSE
  OBVIOUS
<1>1. "repo.branch.delete" \in RefCommandAction(i.cmds[k])
  BY DEF RefCommandAction
<1>2. "repo.branch.delete" \in Recognized(i)
  BY <1>1, IntentType DEF Recognized, GitActions, GitOp
<1>3. QED
  BY <1>2 DEF Cleared, Irreversible

\* Nor does a tag, which is made or deleted by an irreversible action.
LEMMA NoTag ==
    ASSUME NEW i \in Intents, i.op = "receive-pack", Cleared(i), NEW k \in DOMAIN i.cmds
    PROVE  i.cmds[k].space # "tags"
<1> SUFFICES ASSUME i.cmds[k].space = "tags" PROVE FALSE
  OBVIOUS
<1>1. RefCommandAction(i.cmds[k]) \cap Irreversible # {}
  BY DEF RefCommandAction, Irreversible
<1>2. RefCommandAction(i.cmds[k]) \subseteq Recognized(i)
  BY IntentType DEF Recognized, GitActions, GitOp
<1>3. QED
  BY <1>1, <1>2 DEF Cleared

\* The deny-by-default of a request that needs no write token, which the kernel's gates
\* leave to its decision: nothing unrecognized is admitted.
LEMMA DecideRecognizes ==
    ASSUME NEW i \in Intents, NEW view, NEW source, Decide(i, view, source)
    PROVE  NeedsWrite(i) \/ Recognized(i) # {}
<1>1. CASE i.guard = "api"
  BY <1>1 DEF Decide, RestDecide, Recognized
<1>2. CASE i.guard = "git" /\ i.op # "receive-pack"
  BY <1>2 DEF Recognized, GitActions
<1>3. CASE i.op = "receive-pack"
  BY <1>3 DEF NeedsWrite
<1>4. QED
  BY <1>1, <1>2, <1>3, IntentType DEF IntentRecord, Guard

LEMMA DecisionScopes ==
    ASSUME NEW i \in Intents, Counted(i), Cleared(i), NEW view,
           NEW source \in {MrSource(i), "none"}, Decide(i, view, source)
    PROVE  InOwnBranches(i) /\ ~view.locked /\ RowCount(i) >= 1
<1>1. CASE i.op = "receive-pack"
  <2>1. i.cmds \in Seq(Command) /\ i.cmds # <<>>
        /\ \A k \in DOMAIN i.cmds : CheckRef(i, k, view)
    BY <1>1, IntentType DEF Decide, GitDecide, PushAllowed, IntentRecord, GitOp
  <2>2. Len(i.cmds) >= 1 /\ 1 \in DOMAIN i.cmds
    BY <2>1
  <2>3. QED
    BY <1>1, <2>1, <2>2, NoDelete, NoTag DEF CheckRef, InOwnBranches, RowCount
<1>2. CASE i.op = "rest" /\ i.row \in WriteRow
  <2>1. RestDecide(i, view, source) /\ NeedsWrite(i)
    BY <1>2, IntentType DEF Decide, NeedsWrite, GitOp
  <2>2. BranchNamespaceCheck(i, source) /\ QuotaCheck(i, view)
    BY <2>1 DEF RestDecide
  <2>3. QED
    BY <1>2, <2>2 DEF BranchNamespaceCheck, QuotaCheck, MrSource, InOwnBranches, RowCount
<1>3. QED
  BY <1>1, <1>2 DEF Counted
-----------------------------------------------------------------------------
(* What one step may do to the log, the latch and the counter of rows.     *)

Monotone ==
    /\ latch \subseteq latch'
    /\ nextRow' \in Nat /\ nextRow <= nextRow'
    /\ \A w \in Row : KeptIn(w, writes, now) => KeptIn(w, writes', now')

LEMMA UnchangedMonotone ==
    ASSUME TypeOK, UNCHANGED <<writes, nextRow, latch, now>>
    PROVE  Monotone
BY DEF TypeOK, Monotone

LEMMA SoundStable ==
    ASSUME TypeOK, Monotone, NEW s \in Slot, Sound(s, writes, now, nextRow, latch)
    PROVE  Sound(s, writes', now', nextRow', latch')
<1>1. ASSUME Begun(s.intent, s.rows, writes, now, nextRow)
      PROVE  Begun(s.intent, s.rows, writes', now', nextRow')
  <2>1. s.rows \in Seq(Row) /\ nextRow \in Nat
    BY DEF Slot, TypeOK
  <2>2. \A k \in 1 .. Len(s.rows) : s.rows[k] \in Row
    BY <2>1
  <2>4. \A w \in Row : w.id \in Nat
    BY DEF Row
  <2>3. QED
    BY <1>1, <2>1, <2>2, <2>4 DEF Begun, Monotone
<1>2. QED
  BY <1>1 DEF Sound, Admitted, Monotone

LEMMA CallsStable ==
    ASSUME TypeOK, CallsSound, Monotone, calls' = calls
    PROVE  CallsSound'
<1> SUFFICES ASSUME NEW c \in calls
             PROVE  Sent(c, writes', now', latch')
  BY DEF CallsSound
<1>1. Sent(c, writes, now, latch) /\ \A k \in 1 .. Len(c.rows) : c.rows[k] \in Row
  BY DEF CallsSound, TypeOK, Call
<1>2. QED
  BY <1>1 DEF Sent, Monotone

LEMMA SlotsStable ==
    ASSUME TypeOK, SlotsSound, Monotone, NEW r \in Req, NEW s \in Slot,
           Sound(s, writes', now', nextRow', latch'), req' = [req EXCEPT ![r] = s]
    PROVE  SlotsSound' /\ req' \in [Req -> Slot]
<1>1. req \in [Req -> Slot]
  BY DEF TypeOK
<1>2. ASSUME NEW q \in Req
      PROVE  Sound(req'[q], writes', now', nextRow', latch')
  <2>1. CASE q = r
    BY <1>1, <2>1
  <2>2. CASE q # r
    BY <1>1, <2>2, SoundStable DEF SlotsSound
  <2>3. QED
    BY <2>1, <2>2
<1>3. QED
  BY <1>1, <1>2 DEF SlotsSound

LEMMA AllSlotsStable ==
    ASSUME TypeOK, SlotsSound, Monotone, req' = req
    PROVE  SlotsSound'
BY SoundStable DEF SlotsSound, TypeOK
-----------------------------------------------------------------------------
(* Steps of a request that leave the store and the forge alone.            *)

LEMMA RequestStep ==
    ASSUME IInv, NEW r \in Req, NEW s \in Slot,
           req' = [req EXCEPT ![r] = s], Sound(s, writes, now, nextRow, latch),
           loop' \in {"none", "reconcile"} \cup Req,
           nsCache' \subseteq Host \X Spelling \X Iid,
           UNCHANGED <<proc, recon, aliases, dbVars, now, forgeVars, calls>>
    PROVE  IInv'
<1>1. UNCHANGED <<proc, recon, aliases, now, refs, openMrs, calls>>
      /\ UNCHANGED <<writes, nextRow, branches, mrs, latch>>
  BY DEF dbVars, forgeVars
<1>2. Monotone
  BY <1>1, UnchangedMonotone DEF IInv
<1>3. SlotsSound' /\ req' \in [Req -> Slot]
  BY <1>1, <1>2, SlotsStable DEF IInv
<1>4. CallsSound'
  BY <1>1, <1>2, CallsStable DEF IInv
<1>5. TypeOK'
  BY <1>1, <1>3 DEF IInv, TypeOK
<1>6. TablesFinite' /\ ReconcileSound'
  BY <1>1 DEF IInv, TablesFinite, ReconcileSound
<1>7. QED
  BY <1>3, <1>4, <1>5, <1>6 DEF IInv

LEMMA LockedViewType == LockedView \in View
BY DEF LockedView, View

LEMMA SomeIntentType == SomeIntent \in Intents
BY WardenAssumption DEF SomeIntent

LEMMA AtSlot ==
    ASSUME NEW pc \in Pc, NEW i \in Intents, NEW view \in View
    PROVE  At(pc, i, view) \in Slot
<1>1. <<>> \in Seq(Row)
  OBVIOUS
<1>2. QED
  BY <1>1 DEF At, Slot

LEMMA FinishStep ==
    ASSUME IInv, NEW r \in Req, NEW b \in BOOLEAN, Finish(r, b), UNCHANGED loop,
           nsCache' \subseteq Host \X Spelling \X Iid,
           UNCHANGED <<proc, recon, aliases, dbVars, now, forgeVars, calls>>
    PROVE  IInv'
<1> DEFINE s == [At("done", SomeIntent, LockedView) EXCEPT !.logged = b]
<1>1. s \in Slot
  BY AtSlot, SomeIntentType, LockedViewType DEF Slot, Pc
<1>2. Sound(s, writes, now, nextRow, latch)
  BY DEF At, Sound, Outside, InSection
<1>3. QED
  BY <1>1, <1>2, RequestStep DEF Finish, IInv, TypeOK

LEMMA ArriveStep ==
    ASSUME IInv, NEW r \in Req, Arrive(r)
    PROVE  IInv'
<1>1. PICK i \in Intents : req' = [req EXCEPT ![r] = At("parse", i, LockedView)]
  BY DEF Arrive
<1>2. At("parse", i, LockedView) \in Slot
  BY AtSlot, LockedViewType DEF Pc
<1>3. Sound(At("parse", i, LockedView), writes, now, nextRow, latch)
  BY DEF At, Sound, Outside, InSection
<1>4. QED
  BY <1>1, <1>2, <1>3, RequestStep DEF Arrive, IInv, TypeOK

\* The snapshot: counters of finite tables, and the lock.
LEMMA StateViewType ==
    ASSUME IInv, NEW g \in Guard, NEW h \in Host
    PROVE  /\ StateView(g, h) \in View
           /\ ~StateView(g, h).locked => g \in latch
<1>1. WritesLastHour(h) \in Nat /\ OpenBranches(h) \in Nat /\ OpenMrs(h) \in Nat
  BY FS_Subset, FS_CardinalityType
     DEF IInv, TablesFinite, WritesLastHour, OpenBranches, OpenMrs
<1>2. QED
  BY <1>1, LockedViewType DEF StateView, View, LockedView

\* decide on a snapshot, and the way into record.
LEMMA ConcludeStep ==
    ASSUME IInv, NEW r \in Req, NEW view \in View, NEW source,
           req[r].rows = <<>>,
           source \in {MrSource(req[r].intent), "none"},
           NeedsWrite(req[r].intent) \/ Recognized(req[r].intent) # {} => Cleared(req[r].intent),
           ~view.locked => req[r].intent.guard \in latch,
           Conclude(r, view, source), nsCache' \subseteq Host \X Spelling \X Iid,
           UNCHANGED <<proc, recon, aliases, dbVars, now, forgeVars, calls>>
    PROVE  IInv'
<1> DEFINE i == req[r].intent
<1>1. i \in Intents
  BY DEF IInv, TypeOK, Slot
<1>2. /\ loop \in {"none", "reconcile"} \cup Req
      /\ Decide(i, view, source) => Cleared(i)
  BY <1>1, DecideRecognizes DEF IInv, TypeOK
<1>3. CASE ~Decide(i, view, source)
  BY <1>3, FinishStep DEF Conclude
<1>4. CASE Decide(i, view, source) /\ Counted(i)
  <2>1. At("record", i, view) \in Slot
    BY <1>1, AtSlot DEF Pc
  <2>2. InOwnBranches(i) /\ ~view.locked /\ RowCount(i) >= 1
    BY <1>1, <1>2, <1>4, DecisionScopes
  <2>3. Begun(i, <<>>, writes, now, nextRow) /\ Len(<<>>) < RowCount(i)
    BY <2>2, RowCountType, <1>1 DEF Begun
  <2>4. Sound(At("record", i, view), writes, now, nextRow, latch)
    BY <1>2, <1>4, <2>2, <2>3 DEF At, Sound, Admitted, Outside, InSection
  <2>5. req' = [req EXCEPT ![r] = At("record", i, view)] /\ loop' = r
    BY <1>4 DEF Conclude
  <2>6. QED
    BY <2>1, <2>4, <2>5, RequestStep
<1>5. CASE Decide(i, view, source) /\ ~Counted(i)
  <2>1. At("read", i, view) \in Slot
    BY <1>1, AtSlot DEF Pc
  <2>2. Sound(At("read", i, view), writes, now, nextRow, latch)
    BY <1>2, <1>5 DEF At, Sound, Outside, InSection
  <2>3. req' = [req EXCEPT ![r] = At("read", i, view)] /\ loop' = loop
    BY <1>5 DEF Conclude
  <2>4. QED
    BY <1>2, <2>1, <2>2, <2>3, RequestStep
<1>6. QED
  BY <1>3, <1>4, <1>5

LEMMA GateStep ==
    ASSUME IInv, NEW r \in Req, Gate(r)
    PROVE  IInv'
<1> DEFINE i == req[r].intent
           view == StateView(i.guard, HostOf(i))
<1>1. /\ req[r] \in Slot /\ i \in Intents /\ req[r].rows = <<>>
      /\ aliases \in SUBSET AliasSet
  BY DEF IInv, TypeOK, Slot, SlotsSound, Sound, Outside, Gate, ReconcileSound
<1>2. view \in View /\ (~view.locked => i.guard \in latch)
  BY <1>1, IntentType, StateViewType DEF IntentRecord
<1>3. nsCache' \subseteq Host \X Spelling \X Iid
      /\ loop \in {"none", "reconcile"} \cup Req
      /\ UNCHANGED <<proc, recon, aliases, nsCache, dbVars, now, forgeVars, calls>>
  BY DEF Gate, IInv, TypeOK
<1>4. CASE Finish(r, TRUE) /\ UNCHANGED loop
  BY <1>3, <1>4, FinishStep
<1>5. ASSUME KernelGates(i, Recognized(i), aliases), NEW source \in {MrSource(i), "none"},
             Conclude(r, view, source)
      PROVE  IInv'
  <2>1. NeedsWrite(i) \/ Recognized(i) # {} => Cleared(i)
    BY <1>1, <1>5, GatesClear DEF KernelGates
  <2>2. QED
    BY <1>1, <1>2, <1>3, <1>5, <2>1, ConcludeStep
<1>6. CASE /\ KernelGates(i, Recognized(i), aliases) /\ NeedsSourceLookup(i)
           /\ req' = [req EXCEPT ![r] = At("lookup", i, view)] /\ UNCHANGED loop
  <2>1. Counted(i)
    BY <1>6 DEF NeedsSourceLookup, LookupRow, Counted, WriteRow
  <2>2. Cleared(i)
    BY <1>1, <1>6, <2>1, CountedNeedsWrite, GatesClear DEF KernelGates
  <2>3. At("lookup", i, view) \in Slot
    BY <1>1, <1>2, AtSlot DEF Pc
  <2>4. Sound(At("lookup", i, view), writes, now, nextRow, latch)
    BY <1>2, <2>1, <2>2 DEF At, Sound, Outside, InSection
  <2>5. QED
    BY <1>3, <1>6, <2>3, <2>4, RequestStep
<1>7. QED
  BY <1>4, <1>5, <1>6 DEF Gate

LEMMA LookedUpStep ==
    ASSUME IInv, NEW r \in Req, LookedUp(r)
    PROVE  IInv'
<1> DEFINE i == req[r].intent
<1>1. /\ req[r] \in Slot /\ i \in Intents /\ req[r].rows = <<>> /\ req[r].view \in View
      /\ Cleared(i) /\ (~req[r].view.locked => i.guard \in latch)
  BY DEF IInv, TypeOK, Slot, SlotsSound, Sound, Outside, LookedUp
<1>2. PICK source \in {MrSource(i), "none"} : Conclude(r, req[r].view, source)
  BY DEF LookedUp
<1>3. MrKey(i) \in Host \X Spelling \X Iid
  BY <1>1, IntentType DEF MrKey, IntentRecord
<1>4. nsCache' \subseteq Host \X Spelling \X Iid
  BY <1>3 DEF LookedUp, IInv, TypeOK
<1>5. UNCHANGED <<proc, recon, aliases, dbVars, now, forgeVars, calls>>
  BY DEF LookedUp
<1>6. QED
  BY <1>1, <1>2, <1>4, <1>5, ConcludeStep

LEMMA EndsStep ==
    ASSUME IInv, NEW r \in Req,
           ParseRaises(r) \/ LookupRaises(r) \/ Reply(r) \/ ForwardRaises(r)
    PROVE  IInv'
<1>1. /\ nsCache' \subseteq Host \X Spelling \X Iid
      /\ UNCHANGED <<proc, loop, recon, aliases, dbVars, now, forgeVars, calls>>
  BY DEF ParseRaises, LookupRaises, Reply, ForwardRaises, IInv, TypeOK
<1>2. \E b \in BOOLEAN : Finish(r, b)
  BY DEF ParseRaises, LookupRaises, Reply, ForwardRaises
<1>3. QED
  BY <1>1, <1>2, FinishStep
-----------------------------------------------------------------------------
(* record: one commit after the other.                                     *)

LEMMA RecordedType ==
    ASSUME IInv, NEW i \in Intents, NEW k \in 1 .. RowCount(i)
    PROVE  NewRow(i, k) \in Row
<1>1. i.guard \in Guard /\ HostOf(i) \in Host
  BY IntentType DEF IntentRecord
<1>2. RowRef(i, k) \in Ref \cup {"-"}
  <2>1. i.cmds \in Seq(Command) /\ \A c \in Command : c.ref \in Ref
    BY IntentType DEF IntentRecord, Command
  <2>2. i.op = "receive-pack" => i.cmds[k] \in Command
    BY <2>1 DEF RowCount
  <2>3. QED
    BY <2>1, <2>2 DEF RowRef
<1>3. QED
  BY <1>1, <1>2 DEF NewRow, Row, IInv, TypeOK

\* The section goes on or ends: the slot and the loop keep their invariants.
LEMMA AdvanceSlot ==
    ASSUME NEW r \in Req, NEW s \in Slot,
           NEW log, NEW time, NEW next, NEW open, Admitted(s, log, time, next, open),
           Advance(r, s)
    PROVE  /\ loop' \in {"none", "reconcile"} \cup Req
           /\ \E t \in Slot : Sound(t, log, time, next, open) /\ req' = [req EXCEPT ![r] = t]
<1>1. Len(s.rows) <= RowCount(s.intent) /\ Len(s.rows) \in Nat /\ RowCount(s.intent) \in Nat
  BY RowCountType DEF Admitted, Begun, Slot
<1>2. CASE Len(s.rows) < RowCount(s.intent)
  <2> DEFINE t == [s EXCEPT !.pc = "record"]
  <2>1. t \in Slot
    BY DEF Slot, Pc
  <2>2. Sound(t, log, time, next, open)
    BY <1>2 DEF Sound, Admitted, Outside, InSection, Slot
  <2>3. QED
    BY <1>2, <2>1, <2>2 DEF Advance
<1>3. CASE ~(Len(s.rows) < RowCount(s.intent))
  <2> DEFINE t == [s EXCEPT !.pc = "send"]
  <2>1. t \in Slot
    BY DEF Slot, Pc
  <2>2. Sound(t, log, time, next, open)
    BY <1>1, <1>3 DEF Sound, Admitted, Outside, InSection, Slot
  <2>3. QED
    BY <1>3, <2>1, <2>2 DEF Advance
<1>4. QED
  BY <1>2, <1>3

\* One more row, with a number larger than any before it.
LEMMA OneMoreRow ==
    ASSUME NEW i \in Intents, NEW rows \in Seq(Row), NEW log, NEW time, NEW next \in Nat,
           Begun(i, rows, log, time, next), Len(rows) < RowCount(i),
           NEW w \in Row, w.host = HostOf(i), w.ref = RowRef(i, Len(rows) + 1), w.id = next
    PROVE  /\ Append(rows, w) \in Seq(Row) /\ Len(Append(rows, w)) >= 1
           /\ Begun(i, Append(rows, w), log \cup {w}, time, next + 1)
<1> DEFINE more == Append(rows, w)
<1>1. /\ more \in Seq(Row) /\ Len(more) = Len(rows) + 1 /\ Len(rows) \in Nat
      /\ \A k \in 1 .. Len(rows) : more[k] = rows[k]
      /\ more[Len(rows) + 1] = w
  OBVIOUS
<1>2. \A k \in 1 .. Len(rows) : rows[k] \in Row
  OBVIOUS
<1>3. \A v \in Row : v.id \in Nat
  BY DEF Row
<1>4. Len(more) <= RowCount(i)
  BY <1>1, RowCountType
<1>5. ASSUME NEW k \in 1 .. Len(more)
      PROVE  /\ more[k].host = HostOf(i) /\ more[k].ref = RowRef(i, k)
             /\ more[k].id < next + 1
             /\ KeptIn(more[k], log \cup {w}, time)
  <2>1. CASE k \in 1 .. Len(rows)
    BY <1>1, <1>2, <1>3, <2>1 DEF Begun, KeptIn
  <2>2. CASE k = Len(rows) + 1
    BY <1>1, <2>2 DEF KeptIn
  <2>3. QED
    BY <1>1, <2>1, <2>2
<1>6. ASSUME NEW j \in 1 .. Len(more), NEW k \in 1 .. Len(more), j < k
      PROVE  more[j].id < more[k].id
  <2>1. CASE k \in 1 .. Len(rows)
    BY <1>1, <1>6, <2>1 DEF Begun
  <2>2. CASE k = Len(rows) + 1
    BY <1>1, <1>6, <2>2 DEF Begun
  <2>3. QED
    BY <1>1, <2>1, <2>2
<1>7. Begun(i, more, log \cup {w}, time, next + 1)
  <2> HIDE DEF more
  <2>1. QED
    BY <1>4, <1>5, <1>6 DEF Begun
<1>8. QED
  BY <1>1, <1>7

LEMMA RecordRowStep ==
    ASSUME IInv, NEW r \in Req, RecordRow(r)
    PROVE  IInv'
<1> DEFINE i == req[r].intent
           rows == req[r].rows
           w == NewRow(i, Len(rows) + 1)
           s == [req[r] EXCEPT !.rows = Append(rows, w)]
<1>1. /\ req[r] \in Slot /\ i \in Intents /\ rows \in Seq(Row) /\ nextRow \in Nat
      /\ Admitted(req[r], writes, now, nextRow, latch) /\ Len(rows) < RowCount(i)
      /\ now \in Nat
  BY DEF IInv, TypeOK, Slot, SlotsSound, Sound, InSection, RecordRow
<1>2. w \in Row
  BY <1>1, RecordedType, RowCountType
<1>3. /\ writes' = writes \cup {w} /\ nextRow' = nextRow + 1
      /\ UNCHANGED <<proc, recon, aliases, nsCache, branches, mrs, latch, now, refs, openMrs, calls>>
  BY DEF RecordRow, RecordWrite, forgeVars
<1>4. Monotone
  BY <1>1, <1>3 DEF Monotone, KeptIn
<1>5. Append(rows, w) \in Seq(Row) /\ Len(Append(rows, w)) >= 1
      /\ Begun(i, Append(rows, w), writes', now', nextRow')
  <2>1. w.host = HostOf(i) /\ w.ref = RowRef(i, Len(rows) + 1) /\ w.id = nextRow
    BY DEF NewRow
  <2>2. Begun(i, rows, writes, now, nextRow)
    BY <1>1 DEF Admitted
  <2> HIDE DEF w
  <2>3. QED
    BY <1>1, <1>2, <1>3, <2>1, <2>2, OneMoreRow
<1>6. s \in Slot /\ s.rows = Append(rows, w) /\ s.intent = i
  BY <1>1, <1>5 DEF Slot
<1>7. Admitted(s, writes', now', nextRow', latch')
  BY <1>1, <1>3, <1>5, <1>6 DEF Admitted
<1>8. /\ loop' \in {"none", "reconcile"} \cup Req
      /\ \E t \in Slot : /\ Sound(t, writes', now', nextRow', latch')
                         /\ req' = [req EXCEPT ![r] = t]
  <2>1. CASE i.op = "receive-pack" /\ IsCreate(i.cmds[Len(rows) + 1])
    <3> DEFINE t == [s EXCEPT !.pc = "branch"]
    <3>1. t \in Slot
      BY <1>6 DEF Slot, Pc
    <3>2. Sound(t, writes', now', nextRow', latch')
      BY <1>5, <1>6, <1>7, <2>1 DEF Sound, Admitted, Outside, InSection, Slot
    <3>3. req' = [req EXCEPT ![r] = t] /\ loop' = loop
      BY <2>1 DEF RecordRow
    <3>4. QED
      BY <3>1, <3>2, <3>3 DEF IInv, TypeOK
  <2>2. CASE ~(i.op = "receive-pack" /\ IsCreate(i.cmds[Len(rows) + 1]))
    <3>1. Advance(r, s)
      BY <2>2 DEF RecordRow
    <3>2. QED
      BY <1>6, <1>7, <3>1, AdvanceSlot
  <2>3. QED
    BY <2>1, <2>2
<1>9. SlotsSound' /\ req' \in [Req -> Slot] /\ CallsSound'
  BY <1>3, <1>4, <1>8, SlotsStable, CallsStable DEF IInv
<1>10. TypeOK'
  BY <1>1, <1>2, <1>3, <1>8, <1>9 DEF IInv, TypeOK
<1>11. TablesFinite' /\ ReconcileSound'
  BY <1>3, FS_AddElement DEF IInv, TablesFinite, ReconcileSound
<1>12. QED
  BY <1>9, <1>10, <1>11 DEF IInv

LEMMA AddBranchStep ==
    ASSUME IInv, NEW r \in Req, AddBranch(r)
    PROVE  IInv'
<1> DEFINE i == req[r].intent
           rows == req[r].rows
           b == <<HostOf(i), NormalizeProject(i.project), i.cmds[Len(rows)].ref>>
<1>1. /\ req[r] \in Slot /\ i \in Intents /\ rows \in Seq(Row)
      /\ Admitted(req[r], writes, now, nextRow, latch)
      /\ i.op = "receive-pack" /\ Len(rows) >= 1 /\ Len(rows) <= RowCount(i)
  BY DEF IInv, TypeOK, Slot, SlotsSound, Sound, InSection, AddBranch, Admitted, Begun
<1>2. /\ branches' = branches \cup {b}
      /\ UNCHANGED <<proc, recon, aliases, nsCache, writes, nextRow, mrs, latch, now,
                     refs, openMrs, calls>>
      /\ Advance(r, req[r])
  BY DEF AddBranch, forgeVars
<1>3. b \in Host \X Spelling \X Ref
  <2>1. i.cmds \in Seq(Command) /\ Len(rows) \in 1 .. Len(i.cmds)
    BY <1>1, IntentType DEF IntentRecord, RowCount
  <2>2. i.cmds[Len(rows)].ref \in Ref
    <3>1. \A c \in Command : c.ref \in Ref
      BY DEF Command
    <3>2. QED
      BY <2>1, <3>1
  <2>3. NormalizeProject(i.project) \in Spelling
    BY <1>1, IntentType DEF IntentRecord, NormalizeProject, Spelling
  <2>4. QED
    BY <1>1, <2>2, <2>3, IntentType
<1>4. Monotone
  BY <1>2, UnchangedMonotone DEF IInv
<1>5. /\ loop' \in {"none", "reconcile"} \cup Req
      /\ \E t \in Slot : /\ Sound(t, writes, now, nextRow, latch)
                         /\ req' = [req EXCEPT ![r] = t]
  BY <1>1, <1>2, AdvanceSlot
<1>6. SlotsSound' /\ req' \in [Req -> Slot] /\ CallsSound'
  BY <1>2, <1>4, <1>5, SlotsStable, CallsStable DEF IInv
<1>7. TypeOK'
  BY <1>2, <1>3, <1>5, <1>6 DEF IInv, TypeOK
<1>8. TablesFinite' /\ ReconcileSound'
  BY <1>2, FS_AddElement DEF IInv, TablesFinite, ReconcileSound
<1>9. QED
  BY <1>6, <1>7, <1>8 DEF IInv

\* What a request has recorded is what its call carries.
LEMMA SendStep ==
    ASSUME IInv, NEW r \in Req, Send(r)
    PROVE  IInv'
<1> DEFINE c == [intent |-> req[r].intent, rows |-> req[r].rows, status |-> "sent"]
           s == [req[r] EXCEPT !.pc = "await"]
<1>1. /\ req[r] \in Slot /\ req[r].intent \in Intents /\ req[r].rows \in Seq(Row)
      /\ Admitted(req[r], writes, now, nextRow, latch)
      /\ Len(req[r].rows) = RowCount(req[r].intent)
  BY DEF IInv, TypeOK, Slot, SlotsSound, Sound, InSection, Send
<1>2. /\ calls' = calls \cup {c} /\ req' = [req EXCEPT ![r] = s]
      /\ UNCHANGED <<proc, loop, recon, aliases, nsCache, writes, nextRow, branches, mrs,
                     latch, now, refs, openMrs>>
  BY DEF Send, dbVars, forgeVars
<1>3. s \in Slot /\ Sound(s, writes, now, nextRow, latch)
  BY <1>1 DEF Slot, Pc, Sound, Admitted, Outside, InSection
<1>4. c \in Call /\ Sent(c, writes, now, latch)
  BY <1>1 DEF Call, Sent, Admitted, Begun, Covers
<1>5. Monotone
  BY <1>2, UnchangedMonotone DEF IInv
<1>6. SlotsSound' /\ req' \in [Req -> Slot]
  BY <1>2, <1>3, <1>5, SlotsStable DEF IInv
<1>7. CallsSound'
  BY <1>2, <1>4 DEF IInv, CallsSound
<1>8. TypeOK'
  BY <1>2, <1>4, <1>6 DEF IInv, TypeOK
<1>9. TablesFinite' /\ ReconcileSound'
  BY <1>2 DEF IInv, TablesFinite, ReconcileSound
<1>10. QED
  BY <1>6, <1>7, <1>8, <1>9 DEF IInv
-----------------------------------------------------------------------------
(* The forge, the clock and the process.                                   *)

\* Steps that leave the requests alone.
LEMMA OtherStep ==
    ASSUME IInv, TypeOK', TablesFinite', ReconcileSound', Monotone, req' = req,
           calls' = calls
    PROVE  IInv'
BY AllSlotsStable, CallsStable DEF IInv

LEMMA RangeFinite ==
    ASSUME NEW S, IsFiniteSet(S), NEW T, NEW f \in [S -> T]
    PROVE  IsFiniteSet({f[x] : x \in S})
<1>1. f \in Surjection(S, {f[x] : x \in S})
  BY DEF Surjection
<1>2. QED
  BY <1>1, FS_Surjection

LEMMA CreatedFinite ==
    ASSUME NEW i \in Intents
    PROVE  IsFiniteSet(Created(i)) /\ Created(i) \subseteq Ref
<1>1. CASE i.op = "receive-pack"
  <2> DEFINE S == {k \in DOMAIN i.cmds : i.cmds[k].space = "heads" /\ IsCreate(i.cmds[k])}
             f == [k \in S |-> i.cmds[k].ref]
  <2>1. i.cmds \in Seq(Command) /\ \A c \in Command : c.ref \in Ref
    BY IntentType DEF IntentRecord, Command
  <2>2. IsFiniteSet(1 .. Len(i.cmds))
    BY <2>1, FS_Interval
  <2>3. S \in SUBSET (1 .. Len(i.cmds))
    BY <2>1
  <2>4. IsFiniteSet(S)
    BY <2>2, <2>3, FS_Subset
  <2>9. f \in [S -> Ref]
    BY <2>1, <2>3
  <2>5. IsFiniteSet({f[k] : k \in S})
    <3> HIDE DEF f, S
    <3>1. QED
      BY <2>4, <2>9, RangeFinite
  <2>6. Created(i) = {f[k] : k \in S}
    BY <1>1 DEF Created
  <2>7. Created(i) \subseteq Ref
    BY <2>6, <2>9
  <2>8. QED
    BY <2>5, <2>6, <2>7
<1>2. CASE i.op # "receive-pack"
  BY <1>2, IntentType, FS_EmptySet, FS_Singleton DEF Created, IntentRecord
<1>3. QED
  BY <1>1, <1>2

LEMMA AnswerSound ==
    ASSUME IInv, NEW c \in calls, NEW status \in {"applied", "refused"}, Answer(c, status),
           UNCHANGED <<writes, now, latch>>
    PROVE  CallsSound' /\ calls' \subseteq Call
<1> DEFINE d == [c EXCEPT !.status = status]
<1>1. c \in Call /\ Sent(c, writes, now, latch)
  BY DEF IInv, TypeOK, CallsSound
<1>2. d \in Call /\ d.intent = c.intent /\ d.rows = c.rows
  BY <1>1 DEF Call
<1>3. Sent(d, writes, now, latch)
  BY <1>1, <1>2 DEF Sent
<1>4. calls' = (calls \ {c}) \cup {d}
  BY DEF Answer
<1>5. QED
  BY <1>2, <1>3, <1>4 DEF IInv, TypeOK, CallsSound

LEMMA ForgeStep ==
    ASSUME IInv, CallsSound', calls' \subseteq Call,
           refs' \subseteq Host \X Name \X Ref, IsFiniteSet(refs'),
           openMrs' \subseteq Host \X Name \X Iid, IsFiniteSet(openMrs'),
           UNCHANGED <<memVars, dbVars, now>>
    PROVE  IInv'
<1>1. UNCHANGED <<proc, loop, req, recon, aliases, nsCache>>
      /\ UNCHANGED <<writes, nextRow, branches, mrs, latch, now>>
  BY DEF memVars, dbVars
<1>2. Monotone
  BY <1>1, UnchangedMonotone DEF IInv
<1>3. SlotsSound'
  BY <1>1, <1>2, AllSlotsStable DEF IInv
<1>4. TypeOK' /\ TablesFinite' /\ ReconcileSound'
  BY <1>1 DEF IInv, TypeOK, TablesFinite, ReconcileSound
<1>5. QED
  BY <1>3, <1>4 DEF IInv

LEMMA ApplyStep ==
    ASSUME IInv, NEW c \in calls, Apply(c)
    PROVE  IInv'
<1> DEFINE i == c.intent
           h == HostOf(i)
           p == ForgeProject(h, i.project)
<1>1. i \in Intents
  BY DEF IInv, TypeOK, Call
<1>2. h \in Host /\ p \in Name /\ i.iid \in Iid
  BY <1>1, IntentType, ForgeProjectType DEF IntentRecord
<1>3. UNCHANGED <<writes, now, latch>> /\ UNCHANGED <<memVars, dbVars, now>>
  BY DEF Apply, dbVars
<1>4. CallsSound' /\ calls' \subseteq Call
  BY <1>3, AnswerSound DEF Apply
<1>5. refs' \subseteq Host \X Name \X Ref /\ IsFiniteSet(refs')
  <2>1. PICK landed \in SUBSET Created(i) : refs' = refs \cup {<<h, p, x>> : x \in landed}
    BY DEF Apply
  <2>2. landed \subseteq Ref /\ IsFiniteSet(landed)
    BY <1>1, <2>1, CreatedFinite, FS_Subset
  <2> DEFINE f == [x \in landed |-> <<h, p, x>>]
  <2>3. f \in [landed -> Host \X Name \X Ref]
    BY <1>2, <2>2
  <2>4. {f[x] : x \in landed} = {<<h, p, x>> : x \in landed}
    OBVIOUS
  <2>5. IsFiniteSet({f[x] : x \in landed})
    <3> HIDE DEF f
    <3>1. QED
      BY <2>2, <2>3, RangeFinite
  <2>6. IsFiniteSet(refs) /\ refs \subseteq Host \X Name \X Ref
    BY DEF IInv, TypeOK, TablesFinite
  <2>7. refs' \subseteq Host \X Name \X Ref
    BY <1>2, <2>1, <2>2, <2>6
  <2>8. IsFiniteSet({<<h, p, x>> : x \in landed})
    BY <2>4, <2>5
  <2>9. IsFiniteSet(refs')
    <3> DEFINE new == {<<h, p, x>> : x \in landed}
    <3> HIDE DEF new
    <3>1. IsFiniteSet(new) /\ refs' = refs \cup new
      BY <2>1, <2>8 DEF new
    <3>2. QED
      BY <2>6, <3>1, FS_Union
  <2>10. QED
    BY <2>7, <2>9
<1>6. openMrs' \subseteq Host \X Name \X Iid /\ IsFiniteSet(openMrs')
  <2>1. openMrs \subseteq Host \X Name \X Iid /\ IsFiniteSet(openMrs)
    BY DEF IInv, TypeOK, TablesFinite
  <2>2. \E iid \in Iid : \/ openMrs' = openMrs \cup {<<h, p, iid>>}
                        \/ openMrs' = openMrs \ {<<h, p, iid>>}
                        \/ openMrs' = openMrs
    BY <1>2, WardenAssumption DEF Apply
  <2>3. QED
    BY <1>2, <2>1, <2>2, FS_AddElement, FS_RemoveElement
<1>7. QED
  BY <1>3, <1>4, <1>5, <1>6, ForgeStep

LEMMA RefuseStep ==
    ASSUME IInv, NEW c \in calls, Refuse(c)
    PROVE  IInv'
<1>1. UNCHANGED <<memVars, dbVars, now, refs, openMrs>> /\ UNCHANGED <<writes, now, latch>>
  BY DEF Refuse, dbVars, forgeVars
<1>2. CallsSound' /\ calls' \subseteq Call
  BY <1>1, AnswerSound DEF Refuse
<1>3. QED
  BY <1>1, <1>2, ForgeStep DEF IInv, TypeOK, TablesFinite

LEMMA ForgeCleanupStep ==
    ASSUME IInv, ForgeCleanup
    PROVE  IInv'
<1>1. UNCHANGED <<memVars, dbVars, now, calls>> /\ UNCHANGED <<writes, nextRow, now, latch>>
  BY DEF ForgeCleanup, dbVars
<1>2. Monotone
  BY <1>1, UnchangedMonotone DEF IInv
<1>3. CallsSound' /\ calls' \subseteq Call
  BY <1>1, <1>2, CallsStable DEF IInv, TypeOK
<1>4. /\ refs' \subseteq Host \X Name \X Ref /\ IsFiniteSet(refs')
      /\ openMrs' \subseteq Host \X Name \X Iid /\ IsFiniteSet(openMrs')
  BY FS_RemoveElement DEF ForgeCleanup, IInv, TypeOK, TablesFinite
<1>5. QED
  BY <1>1, <1>3, <1>4, ForgeStep

LEMMA TickStep ==
    ASSUME IInv, Tick
    PROVE  IInv'
<1>1. UNCHANGED <<proc, loop, req, recon, aliases, nsCache, writes, nextRow, branches, mrs,
                  latch, refs, openMrs, calls>>
      /\ now \in Nat /\ now' = now + 1
  BY DEF Tick, memVars, dbVars, forgeVars, IInv, TypeOK
<1>2. Monotone
  <2>1. \A w \in Row : w.ts \in Nat
    BY DEF Row
  <2>2. QED
    BY <1>1, <2>1, WardenAssumption DEF Monotone, KeptIn, IInv, TypeOK
<1>3. TypeOK' /\ TablesFinite' /\ ReconcileSound'
  BY <1>1 DEF IInv, TypeOK, TablesFinite, ReconcileSound
<1>4. QED
  BY <1>1, <1>2, <1>3, OtherStep
-----------------------------------------------------------------------------
(* Reconcile, crash and restart.                                           *)

LEMMA PassType ==
    ASSUME NEW g \in Guard, NEW failed \in SUBSET Guard
    PROVE  /\ Pass(g, failed) \in PassState
           /\ Pass(g, failed).phase # "install" /\ Pass(g, failed).ids = {}
           /\ Pass(g, failed).listing = {}
BY DEF Pass, PassState

LEMMA SleepingType ==
    /\ Sleeping \in PassState
    /\ Sleeping.phase # "install" /\ Sleeping.ids = {} /\ Sleeping.listing = {}
BY DEF Sleeping, Pass, PassState, Guard

LEMMA LoopAfterType ==
    ASSUME NEW rec, LoopAfter(rec)
    PROVE  loop' \in {"none", "reconcile"} \cup Req
BY DEF LoopAfter

LEMMA Next1Type ==
    ASSUME NEW rec \in PassState, NEW x \in Items
    PROVE  /\ Next1(rec, x) \in PassState
           /\ Next1(rec, x).phase # "install" /\ Next1(rec, x).ids = rec.ids
           /\ Next1(rec, x).listing = {}
BY DEF Next1, PassState

\* A step of the reconcile that commits nothing to the log.
LEMMA ReconcileStep ==
    ASSUME IInv, Monotone, recon' \in PassState, ReconcileSound',
           IsFiniteSet(recon'.listing),
           proc' \in {"starting", "serving", "down"},
           loop' \in {"none", "reconcile"} \cup Req,
           aliases' \subseteq AliasSet,
           branches' \subseteq Host \X Spelling \X Ref, IsFiniteSet(branches'),
           mrs' \subseteq Host \X Spelling \X Iid, IsFiniteSet(mrs'),
           writes' \subseteq writes, nextRow' = nextRow, latch' \subseteq Guard,
           UNCHANGED <<req, nsCache, now, forgeVars, calls>>
    PROVE  IInv'
<1>1. UNCHANGED <<refs, openMrs>>
  BY DEF forgeVars
<1>2. TypeOK'
  BY <1>1, AliasSetType DEF IInv, TypeOK
<1>3. TablesFinite'
  BY <1>1, FS_Subset DEF IInv, TablesFinite
<1>4. QED
  BY <1>2, <1>3, OtherStep

LEMMA TruthType ==
    ASSUME IInv, NEW g \in Guard, NEW h, NEW p
    PROVE  /\ Truth(g, h, p) \subseteq IF g = "git" THEN Ref ELSE Iid
           /\ IsFiniteSet(Truth(g, h, p))
<1> DEFINE S == {t \in IF g = "git" THEN refs ELSE openMrs :
                    t[1] = h /\ t[2] = ForgeProject(h, p)}
           X == IF g = "git" THEN Ref ELSE Iid
           f == [t \in S |-> t[3]]
<1>1. S \subseteq Host \X Name \X X
  BY DEF IInv, TypeOK
<1>2. IsFiniteSet(S)
  BY FS_Subset DEF IInv, TablesFinite
<1>3. f \in [S -> X]
  BY <1>1
<1>4. IsFiniteSet({f[t] : t \in S}) /\ {f[t] : t \in S} \subseteq X
  <2> HIDE DEF f, S, X
  <2>1. QED
    BY <1>2, <1>3, RangeFinite
<1>5. Truth(g, h, p) = {f[t] : t \in S}
  BY DEF Truth
<1>6. QED
  BY <1>4, <1>5

LEMMA TakeListingStep ==
    ASSUME IInv, TakeListing
    PROVE  IInv'
<1>1. /\ UNCHANGED <<proc, loop, req, aliases, nsCache, writes, nextRow, branches, mrs, latch,
                     now, forgeVars, calls>>
      /\ recon \in PassState
  BY DEF TakeListing, dbVars, IInv, TypeOK
<1>2. PICK x \in recon.todo :
          recon' = [recon EXCEPT !.phase = "install", !.item = x,
                                 !.listing = Truth(recon.guard, x[1], x[2])]
  BY DEF TakeListing
<1>3. x \in Items /\ recon.guard \in Guard
  BY <1>1 DEF PassState
<1> DEFINE T == Truth(recon.guard, x[1], x[2])
<1>4. T \subseteq (IF recon.guard = "git" THEN Ref ELSE Iid) /\ IsFiniteSet(T)
  BY <1>3, TruthType
<1>5. /\ recon' \in PassState /\ recon'.item = x /\ recon'.listing = T
      /\ recon'.guard = recon.guard /\ recon'.ids = recon.ids
  <2> HIDE DEF T
  <2>1. recon' = [recon EXCEPT !.phase = "install", !.item = x, !.listing = T]
    BY <1>2 DEF T
  <2>2. QED
    BY <1>1, <1>3, <1>4, <2>1 DEF PassState
<1>6. ReconcileSound'
  BY <1>1, <1>3, <1>4, <1>5 DEF ReconcileSound, IInv
<1>7. Monotone
  BY <1>1, UnchangedMonotone DEF IInv
<1>8. IsFiniteSet(recon'.listing)
  BY <1>4, <1>5
<1>9. QED
  BY <1>1, <1>5, <1>6, <1>7, <1>8, ReconcileStep DEF IInv, TypeOK, TablesFinite, ReconcileSound

LEMMA ReplaceRowsType ==
    ASSUME NEW h \in Host, NEW p \in Spelling, NEW X, NEW listing \in SUBSET X,
           IsFiniteSet(listing), NEW table \in SUBSET (Host \X Spelling \X X),
           IsFiniteSet(table)
    PROVE  /\ ReplaceRows(table, h, p, listing) \subseteq Host \X Spelling \X X
           /\ IsFiniteSet(ReplaceRows(table, h, p, listing))
<1> DEFINE kept == {b \in table : ~(b[1] = h /\ b[2] = p)}
           new == {<<h, p, x>> : x \in listing}
           f == [x \in listing |-> <<h, p, x>>]
<1>1. f \in [listing -> Host \X Spelling \X X]
  OBVIOUS
<1>2. new = {f[x] : x \in listing}
  OBVIOUS
<1>3. IsFiniteSet(new)
  <2>1. IsFiniteSet({f[x] : x \in listing})
    <3> HIDE DEF f
    <3>1. QED
      BY <1>1, RangeFinite
  <2>2. QED
    BY <1>2, <2>1
<1>4. IsFiniteSet(kept)
  BY FS_Subset
<1>5. kept \cup new \subseteq Host \X Spelling \X X
  OBVIOUS
<1>6. IsFiniteSet(kept \cup new)
  <2> HIDE DEF kept, new
  <2>1. QED
    BY <1>3, <1>4, FS_Union
<1>7. QED
  BY <1>5, <1>6 DEF ReplaceRows

LEMMA InstallListingStep ==
    ASSUME IInv, InstallListing
    PROVE  IInv'
<1> DEFINE h == recon.item[1]
           p == recon.item[2]
           done == [recon EXCEPT !.installed = @ \cup {recon.item}]
           rec == Next1(done, recon.item)
<1>1. /\ recon \in PassState /\ recon.item \in Items /\ recon.guard \in Guard
      /\ recon.listing \subseteq (IF recon.guard = "git" THEN Ref ELSE Iid)
      /\ IsFiniteSet(recon.listing) /\ recon.ids \subseteq AliasSet
      /\ recon.item = <<h, p>> /\ h \in Host /\ p \in Spelling
  <2>1. recon \in PassState /\ recon.item \in Items
        /\ recon.listing \subseteq (IF recon.guard = "git" THEN Ref ELSE Iid)
        /\ IsFiniteSet(recon.listing) /\ recon.ids \subseteq AliasSet
    BY DEF IInv, TypeOK, ReconcileSound, TablesFinite, InstallListing
  <2>2. QED
    BY <2>1, ItemsType DEF PassState
<1>2. UNCHANGED <<proc, req, aliases, nsCache, writes, nextRow, latch, now, forgeVars, calls>>
  BY DEF InstallListing
<1>3. done \in PassState /\ done.ids = recon.ids
  BY <1>1 DEF PassState
<1>4. rec \in PassState /\ rec.phase # "install" /\ rec.ids = recon.ids /\ rec.listing = {}
  <2> HIDE DEF done
  <2>1. QED
    BY <1>1, <1>3, Next1Type
<1>5. Monotone
  BY <1>2, UnchangedMonotone DEF IInv
<1>6. /\ branches \subseteq Host \X Spelling \X Ref /\ IsFiniteSet(branches)
      /\ mrs \subseteq Host \X Spelling \X Iid /\ IsFiniteSet(mrs)
  BY DEF IInv, TypeOK, TablesFinite
<1>7. loop' \in {"none", "reconcile"} \cup Req
  BY LoopAfterType DEF InstallListing
<1>8. /\ branches' \subseteq Host \X Spelling \X Ref /\ IsFiniteSet(branches')
      /\ mrs' \subseteq Host \X Spelling \X Iid /\ IsFiniteSet(mrs')
  <2>1. CASE recon.guard = "git"
    <3>1. branches' = ReplaceRows(branches, h, p, recon.listing) /\ mrs' = mrs
      BY <2>1 DEF InstallListing
    <3>2. QED
      BY <1>1, <1>6, <2>1, <3>1, ReplaceRowsType
  <2>2. CASE recon.guard # "git"
    <3>1. mrs' = ReplaceRows(mrs, h, p, recon.listing) /\ branches' = branches
      BY <2>2 DEF InstallListing
    <3>2. QED
      BY <1>1, <1>6, <2>2, <3>1, ReplaceRowsType
  <2>3. QED
    BY <2>1, <2>2
<1>9. /\ recon' \in PassState /\ recon'.phase # "install" /\ recon'.listing = {}
      /\ recon'.ids \subseteq AliasSet
  <2>1. <<h, ForgeProject(h, p)>> \in AliasSet /\ AliasSet \subseteq Host \X Name
    BY <1>1, AliasSetType DEF AliasSet
  <2>2. recon' = rec \/ recon' = [rec EXCEPT !.ids = @ \cup {<<h, ForgeProject(h, p)>>}]
    BY DEF InstallListing
  <2> HIDE DEF rec
  <2>3. QED
    BY <1>1, <1>4, <2>1, <2>2 DEF PassState
<1>10. ReconcileSound'
  BY <1>2, <1>9 DEF ReconcileSound, IInv
<1>11. QED
  BY <1>2, <1>5, <1>7, <1>8, <1>9, <1>10, FS_EmptySet, ReconcileStep
     DEF IInv, TypeOK, ReconcileSound

LEMMA ListFailsStep ==
    ASSUME IInv, ListFails
    PROVE  IInv'
<1> DEFINE failing == [recon EXCEPT !.failed = @ \cup {recon.guard}]
<1>1. /\ UNCHANGED <<proc, req, aliases, nsCache, writes, nextRow, branches, mrs, latch, now,
                     forgeVars, calls>>
      /\ recon \in PassState /\ recon.ids \subseteq AliasSet
  BY DEF ListFails, dbVars, IInv, TypeOK, ReconcileSound
<1>2. PICK x \in recon.todo : recon' = Next1(failing, x) /\ LoopAfter(Next1(failing, x))
  BY DEF ListFails
<1>3. failing \in PassState /\ failing.ids = recon.ids /\ x \in Items
  BY <1>1, <1>2 DEF PassState
<1>4. /\ recon' \in PassState /\ recon'.phase # "install" /\ recon'.listing = {}
      /\ recon'.ids = recon.ids
  <2> HIDE DEF failing
  <2>1. QED
    BY <1>2, <1>3, Next1Type
<1>5. Monotone
  BY <1>1, UnchangedMonotone DEF IInv
<1>6. loop' \in {"none", "reconcile"} \cup Req
  BY <1>2, LoopAfterType
<1>7. ReconcileSound'
  BY <1>1, <1>4 DEF ReconcileSound, IInv
<1>8. QED
  BY <1>1, <1>4, <1>5, <1>6, <1>7, FS_EmptySet, ReconcileStep
     DEF IInv, TypeOK, TablesFinite, ReconcileSound

LEMMA EndPassStep ==
    ASSUME IInv, EndPass
    PROVE  IInv'
<1>1. /\ UNCHANGED <<req, nsCache, writes, nextRow, branches, mrs, now, forgeVars, calls>>
      /\ recon \in PassState /\ recon.ids \subseteq AliasSet /\ aliases \subseteq AliasSet
      /\ latch \subseteq Guard
  BY DEF EndPass, IInv, TypeOK, ReconcileSound
<1>2. recon' \in PassState /\ recon'.phase # "install" /\ recon'.listing = {} /\ recon'.ids = {}
  <2>1. recon' = Pass("api", recon.failed) \/ recon' = Sleeping
    BY DEF EndPass
  <2>2. recon.failed \in SUBSET Guard /\ "api" \in Guard
    BY <1>1 DEF PassState, Guard
  <2>3. QED
    BY <2>1, <2>2, PassType, SleepingType
<1>3. latch \subseteq latch' /\ latch' \subseteq Guard
  BY <1>1 DEF EndPass, Unlocked, PassState
<1>4. Monotone
  BY <1>1, <1>3 DEF Monotone, IInv, TypeOK
<1>5. loop' \in {"none", "reconcile"} \cup Req
  BY LoopAfterType DEF EndPass
<1>6. aliases' \subseteq AliasSet
  BY <1>1 DEF EndPass
<1>7. ReconcileSound'
  BY <1>2, <1>6 DEF ReconcileSound
<1>8. proc' \in {"starting", "serving", "down"}
  BY DEF EndPass, IInv, TypeOK
<1>9. QED
  BY <1>1, <1>2, <1>3, <1>4, <1>5, <1>6, <1>7, <1>8, FS_EmptySet, ReconcileStep
     DEF IInv, TypeOK, TablesFinite

\* Pruning drops rows older than the window only.
LEMMA WakeStep ==
    ASSUME IInv, Wake
    PROVE  IInv'
<1>1. /\ UNCHANGED <<proc, req, aliases, nsCache, nextRow, branches, mrs, latch, now,
                     forgeVars, calls>>
      /\ writes' = {w \in writes : w.ts >= now - Window}
      /\ recon' = Pass("git", {}) /\ writes \subseteq Row /\ now \in Nat /\ nextRow \in Nat
      /\ aliases \subseteq AliasSet
  BY DEF Wake, Prune, IInv, TypeOK, ReconcileSound
<1>2. recon' \in PassState /\ recon'.phase # "install" /\ recon'.listing = {} /\ recon'.ids = {}
  BY <1>1, PassType DEF Guard
<1>3. Monotone
  <2>1. \A w \in Row : w.ts \in Nat
    BY DEF Row
  <2>2. QED
    BY <1>1, <2>1, WardenAssumption DEF Monotone, KeptIn
<1>4. loop' \in {"none", "reconcile"} \cup Req
  BY LoopAfterType DEF Wake
<1>5. ReconcileSound'
  BY <1>1, <1>2 DEF ReconcileSound
<1>6. QED
  BY <1>1, <1>2, <1>3, <1>4, <1>5, FS_EmptySet, ReconcileStep
     DEF IInv, TypeOK, TablesFinite

\* Only memory is lost: the store, the clock, the forge and the calls stay.
LEMMA CrashStep ==
    ASSUME IInv, Crash
    PROVE  IInv'
<1>1. /\ UNCHANGED <<writes, nextRow, branches, mrs, latch, now, refs, openMrs, calls>>
      /\ proc' = "down" /\ loop' = "none" /\ req' = [r \in Req |-> Idle]
      /\ recon' = Sleeping /\ aliases' = {} /\ nsCache' = {}
  BY DEF Crash, dbVars, forgeVars
<1>2. Idle \in Slot /\ Sound(Idle, writes', now', nextRow', latch')
  <2>1. Idle \in Slot
    BY AtSlot, SomeIntentType, LockedViewType DEF Idle, Pc
  <2>2. QED
    BY <2>1 DEF Idle, At, Sound, Outside, InSection
<1>3. SlotsSound' /\ req' \in [Req -> Slot]
  BY <1>1, <1>2 DEF SlotsSound
<1>4. CallsSound'
  BY <1>1, UnchangedMonotone, CallsStable DEF IInv
<1>5. ReconcileSound' /\ TablesFinite'
  BY <1>1, SleepingType, FS_EmptySet DEF ReconcileSound, TablesFinite, IInv
<1>6. TypeOK'
  BY <1>1, <1>3, SleepingType DEF IInv, TypeOK
<1>7. QED
  BY <1>3, <1>4, <1>5, <1>6 DEF IInv

LEMMA RestartStep ==
    ASSUME IInv, Restart
    PROVE  IInv'
<1>1. /\ UNCHANGED <<req, aliases, nsCache, writes, nextRow, branches, mrs, latch, now,
                     forgeVars, calls>>
      /\ recon' = Pass("git", {}) /\ aliases \subseteq AliasSet /\ proc' = "starting"
  BY DEF Restart, dbVars, IInv, ReconcileSound
<1>2. recon' \in PassState /\ recon'.phase # "install" /\ recon'.listing = {} /\ recon'.ids = {}
  BY <1>1, PassType DEF Guard
<1>3. Monotone
  BY <1>1, UnchangedMonotone DEF IInv
<1>4. loop' \in {"none", "reconcile"} \cup Req
  BY LoopAfterType DEF Restart
<1>5. ReconcileSound'
  BY <1>1, <1>2 DEF ReconcileSound
<1>6. QED
  BY <1>1, <1>2, <1>3, <1>4, <1>5, FS_EmptySet, ReconcileStep
     DEF IInv, TypeOK, TablesFinite
-----------------------------------------------------------------------------
(* The theorems.                                                           *)

LEMMA InitInv == Init => IInv
<1> SUFFICES ASSUME Init PROVE IInv
  OBVIOUS
<1>1. Idle \in Slot
  BY AtSlot, SomeIntentType, LockedViewType DEF Idle, Pc
<1>2. Sound(Idle, writes, now, nextRow, latch)
  BY DEF Idle, At, Sound, Outside, InSection
<1>3. SlotsSound /\ req \in [Req -> Slot]
  BY <1>1, <1>2 DEF Init, SlotsSound
<1>4. /\ recon \in PassState /\ recon.phase # "install" /\ recon.ids = {}
      /\ recon.listing = {}
  BY PassType DEF Init, Guard
<1>5. ReconcileSound /\ TablesFinite /\ CallsSound
  BY <1>4, FS_EmptySet DEF Init, ReconcileSound, TablesFinite, CallsSound
<1>6. TypeOK
  BY <1>3, <1>4 DEF Init, TypeOK
<1>7. QED
  BY <1>3, <1>5, <1>6 DEF IInv

LEMMA StutterInv ==
    ASSUME IInv, UNCHANGED vars
    PROVE  IInv'
BY DEF vars, memVars, dbVars, forgeVars, IInv, TypeOK, TablesFinite, SlotsSound,
       ReconcileSound, CallsSound

LEMMA NextInv ==
    ASSUME IInv, [Next]_vars
    PROVE  IInv'
<1>1. ASSUME NEW r \in Req, Arrive(r) \/ ParseRaises(r) \/ Handler(r)
      PROVE  IInv'
  BY <1>1, ArriveStep, GateStep, LookedUpStep, EndsStep, RecordRowStep, AddBranchStep, SendStep
     DEF Handler
<1>2. CASE Reconcile
  BY <1>2, TakeListingStep, InstallListingStep, ListFailsStep, EndPassStep, WakeStep
     DEF Reconcile
<1>3. ASSUME NEW c \in calls, Apply(c) \/ Refuse(c)
      PROVE  IInv'
  BY <1>3, ApplyStep, RefuseStep
<1>4. CASE ForgeCleanup \/ Crash \/ Restart \/ Tick
  BY <1>4, ForgeCleanupStep, CrashStep, RestartStep, TickStep
<1>5. CASE UNCHANGED vars
  BY <1>5, StutterInv
<1>6. QED
  BY <1>1, <1>2, <1>3, <1>4, <1>5 DEF Next

\* The inductive invariant holds in every reachable state.
THEOREM Invariance == Spec => []IInv
BY InitInv, NextInv, PTL DEF Spec

\* Type correctness: in particular every row is keyed by a normalised host.
THEOREM TypeCorrect == Spec => []TypeOK
<1>1. IInv => TypeOK
  BY DEF IInv
<1>2. QED
  BY <1>1, Invariance, PTL

\* Every write the forge was sent has its own rows, and they are there as long as
\* the hourly window can see them, through prunes, reconciles and crashes.
THEOREM EveryWriteRecorded == Spec => []RecordedBeforeForwarded
<1>1. IInv => RecordedBeforeForwarded
  BY DEF IInv, CallsSound, Sent, RecordedBeforeForwarded, Kept, KeptIn
<1>2. QED
  BY <1>1, Invariance, PTL

\* Everything relayed with a token was confined to the configuration, on hosts,
\* projects and actions, and every name a write gave on the namespace, though alias
\* sets were replaced.
THEOREM EveryWriteConfined == Spec => []Confined
<1>1. IInv => Confined
  BY DEF IInv, CallsSound, SlotsSound, Sent, Sound, Confined
<1>2. QED
  BY <1>1, Invariance, PTL

\* No write is sent on counters that were never rebuilt from the forge.
THEOREM NoWriteWhileLocked == Spec => []LockedNeverSpends
<1>1. IInv => LockedNeverSpends
  BY DEF IInv, CallsSound, Sent, LockedNeverSpends
<1>2. QED
  BY <1>1, Invariance, PTL
=============================================================================
