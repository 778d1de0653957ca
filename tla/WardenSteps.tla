---------------------------- MODULE WardenSteps ----------------------------
(***************************************************************************)
(* What no step of the Warden may do, for every configuration and every    *)
(* agent: forget a write inside its window, unlock a guard early, touch    *)
(* another project's rows, or leave the ledger of WriteLedger.             *)
(***************************************************************************)
EXTENDS WardenProofs

\* The write log loses rows by pruning only.
LEMMA WritesGrow ==
    ASSUME [Next]_vars, ~Wake
    PROVE  writes \subseteq writes'
<1>1. ASSUME NEW r \in Req, Arrive(r) \/ ParseRaises(r) \/ Handler(r)
      PROVE  writes \subseteq writes'
  BY <1>1 DEF Handler, Arrive, ParseRaises, Gate, LookedUp, LookupRaises, RecordRow, RecordWrite,
              AddBranch, Send, Reply, ForwardRaises, dbVars
<1>2. ASSUME Reconcile
      PROVE  writes \subseteq writes'
  BY <1>2 DEF Reconcile, TakeListing, InstallListing, ListFails, EndPass, dbVars
<1>3. ASSUME NEW c \in calls, Apply(c) \/ Refuse(c)
      PROVE  writes \subseteq writes'
  BY <1>3 DEF Apply, Refuse, dbVars
<1>4. ASSUME ForgeCleanup \/ Crash \/ Restart \/ Tick \/ UNCHANGED vars
      PROVE  writes \subseteq writes'
  BY <1>4 DEF ForgeCleanup, Crash, Restart, Tick, vars, dbVars
<1>5. QED
  BY <1>1, <1>2, <1>3, <1>4 DEF Next

\* The hourly counter forgets by the passing of time only: prune's comparison keeps
\* every row the counter still sees.
THEOREM RateOnlyAges == Spec => RateForgetsOnlyByTime
<1>1. ASSUME IInv, [Next]_vars, now' = now, NEW h \in Host
      PROVE  Recent(h) \subseteq Recent(h)'
  <2>1. CASE Wake
    <3>1. writes' = {w \in writes : w.ts >= now - Window} /\ now \in Nat /\ writes \subseteq Row
      BY <1>1, <2>1 DEF Wake, Prune, IInv, TypeOK
    <3>2. \A w \in Row : w.ts \in Nat
      BY DEF Row
    <3>3. QED
      BY <1>1, <3>1, <3>2, WardenAssumption DEF Recent
  <2>2. CASE ~Wake
    BY <1>1, <2>2, WritesGrow DEF Recent
  <2>3. QED
    BY <2>1, <2>2
<1>2. IInv /\ [Next]_vars =>
          [now' = now => \A h \in Host : Recent(h) \subseteq Recent(h)']_vars
  BY <1>1
<1>3. QED
  BY <1>2, Invariance, PTL DEF Spec, RateForgetsOnlyByTime
-----------------------------------------------------------------------------
(* Reconcile.                                                              *)

\* What a pass has not installed is still to do, unless something of it failed.
PassSound ==
    /\ recon.phase # "sleep" =>
           \/ recon.guard \in recon.failed
           \/ recon.installed \cup recon.todo = Items
    /\ recon.phase = "end" => recon.todo = {}
    /\ recon.phase = "install" => recon.item \in recon.todo

LEMMA PassStarts ==
    ASSUME NEW g \in Guard, NEW failed \in SUBSET Guard
    PROVE  /\ Pass(g, failed).installed \cup Pass(g, failed).todo = Items
           /\ Pass(g, failed).phase = "end" => Pass(g, failed).todo = {}
           /\ Pass(g, failed).phase # "install"
           /\ Sleeping.phase = "sleep"
BY DEF Pass, Sleeping

LEMMA PassSoundInit == Init => PassSound
BY PassStarts DEF Init, PassSound, Guard

LEMMA PassSoundStep ==
    ASSUME IInv, PassSound, [Next]_vars
    PROVE  PassSound'
<1>1. recon \in PassState
  BY DEF IInv, TypeOK
<1>2. ASSUME recon' = recon
      PROVE  PassSound'
  BY <1>2 DEF PassSound
<1>3. ASSUME NEW r \in Req, Arrive(r) \/ ParseRaises(r) \/ Handler(r)
      PROVE  PassSound'
  BY <1>2, <1>3 DEF Handler, Arrive, ParseRaises, Gate, LookedUp, LookupRaises, RecordRow,
                    AddBranch, Send, Reply, ForwardRaises
<1>4. CASE TakeListing
  BY <1>1, <1>4 DEF TakeListing, PassSound, PassState
<1>5. CASE InstallListing
  <2>1. /\ recon'.todo = recon.todo \ {recon.item}
        /\ recon'.installed = recon.installed \cup {recon.item}
        /\ recon'.phase = IF recon.todo = {recon.item} THEN "end" ELSE "list"
        /\ recon'.guard = recon.guard /\ recon'.failed = recon.failed
    BY <1>1, <1>5 DEF InstallListing, Next1, PassState
  <2>2. recon.phase = "install"
    BY <1>5 DEF InstallListing
  <2>3. QED
    BY <2>1, <2>2 DEF PassSound
<1>6. CASE ListFails
  <2>1. PICK x \in recon.todo :
            recon' = Next1([recon EXCEPT !.failed = @ \cup {recon.guard}], x)
    BY <1>6 DEF ListFails
  <2>2. /\ recon'.todo = recon.todo \ {x} /\ recon'.guard \in recon'.failed
        /\ recon'.phase = IF recon.todo = {x} THEN "end" ELSE "list"
    BY <1>1, <2>1 DEF Next1, PassState
  <2>3. QED
    BY <2>2 DEF PassSound
<1>7. CASE EndPass
  <2>1. recon' = Pass("api", recon.failed) \/ recon' = Sleeping
    BY <1>7 DEF EndPass
  <2>2. QED
    BY <1>1, <2>1, PassStarts DEF PassSound, PassState, Guard
<1>8. CASE Wake \/ Restart \/ Crash
  <2>1. recon' = Pass("git", {}) \/ recon' = Sleeping
    BY <1>8 DEF Wake, Restart, Crash
  <2>2. QED
    BY <2>1, PassStarts DEF PassSound, Guard
<1>9. ASSUME NEW c \in calls, Apply(c) \/ Refuse(c)
      PROVE  PassSound'
  BY <1>2, <1>9 DEF Apply, Refuse, memVars
<1>10. CASE ForgeCleanup \/ Tick \/ UNCHANGED vars
  BY <1>2, <1>10 DEF ForgeCleanup, Tick, vars, memVars
<1>11. QED
  BY <1>3, <1>4, <1>5, <1>6, <1>7, <1>8, <1>9, <1>10 DEF Next, Reconcile

\* The latch is set by the end of a pass only.
LEMMA LatchStep ==
    ASSUME [Next]_vars, ~EndPass
    PROVE  latch' = latch
<1>1. ASSUME NEW r \in Req, Arrive(r) \/ ParseRaises(r) \/ Handler(r)
      PROVE  latch' = latch
  BY <1>1 DEF Handler, Arrive, ParseRaises, Gate, LookedUp, LookupRaises, RecordRow,
              AddBranch, Send, Reply, ForwardRaises, dbVars
<1>2. ASSUME Reconcile
      PROVE  latch' = latch
  BY <1>2 DEF Reconcile, TakeListing, InstallListing, ListFails, Wake, dbVars
<1>3. ASSUME NEW c \in calls, Apply(c) \/ Refuse(c)
      PROVE  latch' = latch
  BY <1>3 DEF Apply, Refuse, dbVars
<1>4. ASSUME ForgeCleanup \/ Crash \/ Restart \/ Tick \/ UNCHANGED vars
      PROVE  latch' = latch
  BY <1>4 DEF ForgeCleanup, Crash, Restart, Tick, vars, dbVars
<1>5. QED
  BY <1>1, <1>2, <1>3, <1>4 DEF Next

\* A guard is unlocked only by a pass of its own that installed every project of every
\* open host, however many there are.
THEOREM UnlockIsComplete == Spec => UnlockMeansComplete
<1>1. Spec => []PassSound
  BY PassSoundInit, PassSoundStep, Invariance, PTL DEF Spec
<1>2. ASSUME IInv, PassSound, [Next]_vars, NEW g \in latch' \ latch
      PROVE  recon.guard = g /\ recon.installed = Items
  <2>1. EndPass
    BY <1>2, LatchStep
  <2>2. g = recon.guard /\ recon.guard \notin recon.failed /\ recon.phase = "end"
    BY <1>2, <2>1 DEF EndPass, Unlocked
  <2>3. QED
    BY <1>2, <2>2 DEF PassSound
<1>3. IInv /\ PassSound /\ [Next]_vars =>
          [\A g \in latch' \ latch : recon.guard = g /\ recon.installed = Items]_vars
  BY <1>2
<1>4. QED
  BY <1>1, <1>3, Invariance, PTL DEF Spec, UnlockMeansComplete

\* Only the installation of a listing drops counted branches and merge requests.
LEMMA TablesGrow ==
    ASSUME [Next]_vars, ~InstallListing
    PROVE  branches \subseteq branches' /\ mrs \subseteq mrs'
<1>1. ASSUME NEW r \in Req, Arrive(r) \/ ParseRaises(r) \/ Handler(r)
      PROVE  branches \subseteq branches' /\ mrs \subseteq mrs'
  BY <1>1 DEF Handler, Arrive, ParseRaises, Gate, LookedUp, LookupRaises, RecordRow,
              AddBranch, Send, Reply, ForwardRaises, dbVars
<1>2. ASSUME Reconcile
      PROVE  branches \subseteq branches' /\ mrs \subseteq mrs'
  BY <1>2 DEF Reconcile, TakeListing, ListFails, EndPass, Wake, dbVars
<1>3. ASSUME NEW c \in calls, Apply(c) \/ Refuse(c)
      PROVE  branches \subseteq branches' /\ mrs \subseteq mrs'
  BY <1>3 DEF Apply, Refuse, dbVars
<1>4. ASSUME ForgeCleanup \/ Crash \/ Restart \/ Tick \/ UNCHANGED vars
      PROVE  branches \subseteq branches' /\ mrs \subseteq mrs'
  BY <1>4 DEF ForgeCleanup, Crash, Restart, Tick, vars, dbVars
<1>5. QED
  BY <1>1, <1>2, <1>3, <1>4 DEF Next

\* Two hosts sharing a project path never collide: what is dropped belongs to the host
\* and the project of the listing that is being installed.
THEOREM ReconcileStaysInProject == Spec => ReconcileTouchesOneProject
<1>1. ASSUME IInv, [Next]_vars, NEW b \in (branches \cup mrs) \ (branches' \cup mrs')
      PROVE  recon.item = <<b[1], b[2]>>
  <2>1. InstallListing
    BY <1>1, TablesGrow
  <2>2. recon.item \in Host \X Spelling
    BY <1>1, <2>1, ItemsType DEF IInv, ReconcileSound, InstallListing
  <2>3. \/ b \in branches \ ReplaceRows(branches, recon.item[1], recon.item[2], recon.listing)
        \/ b \in mrs \ ReplaceRows(mrs, recon.item[1], recon.item[2], recon.listing)
    BY <1>1, <2>1 DEF InstallListing
  <2>4. b[1] = recon.item[1] /\ b[2] = recon.item[2]
    BY <2>3 DEF ReplaceRows
  <2>5. QED
    BY <2>2, <2>4
<1>2. IInv /\ [Next]_vars =>
          [\A b \in (branches \cup mrs) \ (branches' \cup mrs') :
               recon.item = <<b[1], b[2]>>]_vars
  BY <1>1
<1>3. QED
  BY <1>2, Invariance, PTL DEF Spec, ReconcileTouchesOneProject
-----------------------------------------------------------------------------
(* The hourly and the branch ceiling.                                      *)

Section == {"record", "branch"}

\* The task that holds the loop is the one between two commits; none is while the
\* process is down, and no push waits in enrich.
LoopSound ==
    /\ \A r \in Req : req[r].pc \in Section <=> loop = r
    /\ proc = "down" => \A r \in Req : req[r].pc = "idle"
    /\ \A r \in Req : req[r].pc = "lookup" => req[r].intent.op = "rest"

\* The commands whose branches are in the table, and the creations still to enter.
Added(s) == IF s.pc = "branch" THEN Len(s.rows) - 1 ELSE Len(s.rows)
ToCreate(s) == {k \in DOMAIN s.intent.cmds : IsCreate(s.intent.cmds[k]) /\ k > Added(s)}

\* What a push has recorded and what it will still record is within the limits.
Fits(s) ==
    LET i == s.intent
        h == HostOf(i) IN
    /\ WritesLastHour(h) + (Len(i.cmds) - Len(s.rows)) <= Endpoint[h].maxWrites
    /\ Creates(i) => OpenBranches(h) + Cardinality(ToCreate(s)) <= Endpoint[h].maxBranches
    /\ \A k \in DOMAIN i.cmds : IsCreate(i.cmds[k]) /\ k <= Added(s) =>
           <<h, NormalizeProject(i.project), i.cmds[k].ref>> \in branches
    /\ s.pc = "branch" => IsCreate(i.cmds[Len(s.rows)])

PushesFit == \A r \in Req : Pushing(r) => Fits(req[r])

\* The requests that will be admitted on a snapshot they took before.
Late(h) == {r \in Req : /\ req[r].pc = "lookup" /\ HostOf(req[r].intent) = h
                        /\ ~req[r].view.locked
                        /\ req[r].view.writes < Endpoint[h].maxWrites}

\* What the request that holds the loop has still to record.
Left(h) ==
    IF loop \in Req /\ HostOf(req[loop].intent) = h
    THEN RowCount(req[loop].intent) - Len(req[loop].rows) ELSE 0

\* The rows there are, those on their way, and those that late snapshots allow.
RateSound ==
    \A h \in Listed :
        WritesLastHour(h) + Left(h) + Cardinality(Late(h))
            <= Endpoint[h].maxWrites + Cardinality(Req) - 1

QuotaInv == LoopSound /\ PushesFit /\ RateSound

LEMMA LimitsType ==
    ASSUME NEW h \in Listed
    PROVE  Endpoint[h].maxWrites \in Nat /\ Endpoint[h].maxBranches \in Nat
BY EndpointType DEF EndpointRecord

Counters(h) ==
    /\ IsFiniteSet(Recent(h)) /\ WritesLastHour(h) = Cardinality(Recent(h))
    /\ WritesLastHour(h) \in Nat /\ OpenBranches(h) \in Nat

CountersTyped == \A h : Counters(h)

LEMMA CountersType == IInv => CountersTyped
<1> SUFFICES ASSUME IInv, NEW h
             PROVE  Counters(h)
  BY DEF CountersTyped
<1>1. IsFiniteSet(Recent(h)) /\ IsFiniteSet({b \in branches : b[1] = h})
  BY FS_Subset DEF IInv, TablesFinite, Recent
<1>2. QED
  BY <1>1, FS_CardinalityType DEF Counters, WritesLastHour, OpenBranches, Recent

LEMMA LateType ==
    ASSUME NEW h
    PROVE  /\ IsFiniteSet(Late(h)) /\ Cardinality(Late(h)) \in Nat
           /\ Cardinality(Late(h)) <= Cardinality(Req)
           /\ Cardinality(Req) \in Nat \ {0}
           /\ \A r \in Req : r \notin Late(h) => Cardinality(Late(h)) <= Cardinality(Req) - 1
<1>1. IsFiniteSet(Req) /\ Req # {}
  BY WardenAssumption
<1>2. Late(h) \in SUBSET Req
  BY DEF Late
<1>3. IsFiniteSet(Late(h)) /\ Cardinality(Late(h)) <= Cardinality(Req)
  BY <1>1, <1>2, FS_Subset
<1>4. Cardinality(Late(h)) \in Nat /\ Cardinality(Req) \in Nat \ {0}
  BY <1>1, <1>3, FS_CardinalityType, FS_EmptySet
<1>5. ASSUME NEW r \in Req, r \notin Late(h)
      PROVE  Cardinality(Late(h)) <= Cardinality(Req) - 1
  <2>1. Late(h) \in SUBSET (Req \ {r})
    BY <1>2, <1>5
  <2>2. IsFiniteSet(Req \ {r}) /\ Cardinality(Req \ {r}) = Cardinality(Req) - 1
    BY <1>1, <1>5, FS_RemoveElement
  <2>3. QED
    BY <2>1, <2>2, FS_Subset
<1>6. QED
  BY <1>3, <1>4, <1>5

\* The snapshot that decide admits a counted request on has room for all its rows.
LEMMA DecideWithinRate ==
    ASSUME NEW i \in Intents, Counted(i), Cleared(i), NEW view \in View, NEW source,
           Decide(i, view, source)
    PROVE  /\ HostOf(i) \in Listed
           /\ view.writes + RowCount(i) <= Endpoint[HostOf(i)].maxWrites
           /\ ~view.locked /\ RowCount(i) \in Nat \ {0}
<1>1. view.writes \in Nat
  BY DEF View
<1>0. HostOf(i) \in Listed
  BY DEF Cleared, AccessMode
<1>2. CASE i.op = "receive-pack"
  <2>1. i.cmds \in Seq(Command) /\ i.cmds # <<>>
        /\ \A k \in DOMAIN i.cmds : CheckRef(i, k, view)
    BY <1>2, IntentType DEF Decide, GitDecide, PushAllowed, IntentRecord, GitOp
  <2>2. Len(i.cmds) \in DOMAIN i.cmds /\ Len(i.cmds) \in Nat \ {0} /\ RowCount(i) = Len(i.cmds)
    BY <1>2, <2>1 DEF RowCount
  <2>4. view.writes + (Len(i.cmds) - 1) < Endpoint[HostOf(i)].maxWrites /\ ~view.locked
    BY <2>1, <2>2 DEF CheckRef
  <2>5. QED
    BY <1>0, <1>1, <2>2, <2>4, LimitsType
<1>3. CASE i.op = "rest" /\ i.row \in WriteRow
  <2>1. RestDecide(i, view, source) /\ NeedsWrite(i)
    BY <1>3, IntentType DEF Decide, NeedsWrite, GitOp
  <2>2. view.writes < Endpoint[HostOf(i)].maxWrites /\ ~view.locked
    BY <2>1 DEF RestDecide, QuotaCheck
  <2>3. RowCount(i) = 1
    BY <1>3 DEF RowCount
  <2>4. QED
    BY <1>0, <1>1, <2>2, <2>3, LimitsType
<1>4. QED
  BY <1>0, <1>2, <1>3 DEF Counted

LEMMA LastOf ==
    ASSUME NEW n \in Nat, NEW S \in SUBSET (1 .. n), S # {}
    PROVE  \E k \in S : \A j \in S : j <= k
<1> DEFINE T == {k .. n : k \in S}
           R == StrictSubsetOrdering(1 .. n)
<1>1. IsFiniteSet(1 .. n)
  BY FS_Interval
<1>2. T \subseteq SUBSET (1 .. n) /\ T # {}
  <2>1. ASSUME NEW k \in S
        PROVE  k .. n \subseteq 1 .. n
    OBVIOUS
  <2>2. PICK k \in S : TRUE
    OBVIOUS
  <2>3. k .. n \in T
    OBVIOUS
  <2>4. QED
    BY <2>1, <2>3
<1>3. IsWellFoundedOn(R, SUBSET (1 .. n))
  BY <1>1, FS_StrictSubsetOrderingWellFounded, FS_FiniteSubsetsOfFinite
<1>4. PICK x \in T : \A y \in T : <<y, x>> \notin R
  <2> HIDE DEF T, R
  <2>1. QED
    BY <1>2, <1>3, WFMin
<1>5. PICK k \in S : x = k .. n
  OBVIOUS
<1>6. ASSUME NEW j \in S, k < j
      PROVE  FALSE
  <2>1. j .. n \subseteq k .. n /\ j .. n # k .. n /\ k .. n \in SUBSET (1 .. n)
    <3>1. k \in k .. n /\ k \notin j .. n
      BY <1>6
    <3>2. QED
      BY <1>6, <3>1
  <2>2. <<j .. n, k .. n>> \in R
    BY <2>1 DEF StrictSubsetOrdering
  <2>3. QED
    BY <1>4, <1>5, <2>2
<1>7. QED
  BY <1>6

\* The creations of a push: one more than there are before the last.
LEMMA DecideWithinBranches ==
    ASSUME NEW i \in Intents, i.op = "receive-pack", NEW view \in View, PushAllowed(i, view),
           Creates(i)
    PROVE  /\ IsFiniteSet({k \in DOMAIN i.cmds : IsCreate(i.cmds[k])})
           /\ view.branches + Cardinality({k \in DOMAIN i.cmds : IsCreate(i.cmds[k])})
                  <= Endpoint[HostOf(i)].maxBranches
<1> DEFINE n == Len(i.cmds)
           S == {k \in DOMAIN i.cmds : IsCreate(i.cmds[k])}
<1>1. n \in Nat /\ DOMAIN i.cmds = 1 .. n
  BY IntentType DEF IntentRecord
<1>2. S \in SUBSET (1 .. n) /\ S # {}
  BY <1>1 DEF Creates
<1>3. PICK last \in S : \A j \in S : j <= last
  <2> HIDE DEF S, n
  <2>1. QED
    BY <1>1, <1>2, LastOf
<1> DEFINE B == {j \in 1 .. last - 1 : IsCreate(i.cmds[j])}
<1>4. S = B \cup {last} /\ last \notin B
  BY <1>1, <1>2, <1>3
<1>5. IsFiniteSet(B) /\ IsFiniteSet(S)
  <2>1. IsFiniteSet(1 .. n) /\ B \in SUBSET (1 .. n)
    <3>1. last \in 1 .. n
      BY <1>2
    <3> HIDE DEF S, n
    <3>2. \A j \in B : j \in 1 .. n
      BY <1>1, <3>1
    <3>3. IsFiniteSet(1 .. n)
      BY <1>1, FS_Interval
    <3>4. QED
      BY <3>2, <3>3
  <2> HIDE DEF S, B, n
  <2>2. QED
    BY <1>2, <2>1, FS_Subset
<1>6. Cardinality(S) = Cardinality(B) + 1 /\ Cardinality(B) \in Nat
  <2> HIDE DEF S, B
  <2>1. QED
    BY <1>4, <1>5, FS_AddElement, FS_CardinalityType
<1>7. /\ view.branches + Cardinality(B) < Endpoint[HostOf(i)].maxBranches
      /\ HostOf(i) \in Listed
  BY <1>1, <1>2 DEF PushAllowed, CheckRef, CreatesBefore, InNamespace
<1>8. view.branches \in Nat
  BY DEF View
<1>9. QED
  BY <1>5, <1>6, <1>7, <1>8, LimitsType
-----------------------------------------------------------------------------
(* Steps outside the sections that record.                                 *)

LeftTyped == \A h : Left(h) \in Nat

LEMMA LeftType == IInv /\ LoopSound => LeftTyped
<1> SUFFICES ASSUME IInv, LoopSound, NEW h
             PROVE  Left(h) \in Nat
  BY DEF LeftTyped
<1>1. CASE loop \in Req
  <2>1. Begun(req[loop].intent, req[loop].rows, writes, now, nextRow)
        /\ req[loop].intent \in Intents /\ req[loop].rows \in Seq(Row)
    BY <1>1 DEF LoopSound, Section, IInv, TypeOK, Slot, SlotsSound, Sound, InSection, Admitted
  <2>2. RowCount(req[loop].intent) \in Nat /\ Len(req[loop].rows) \in Nat
    BY <2>1, RowCountType
  <2>3. QED
    BY <2>1, <2>2 DEF Left, Begun
<1>2. CASE loop \notin Req
  BY <1>2 DEF Left
<1>3. QED
  BY <1>1, <1>2

\* Whatever lowers the three counts keeps their bound.
LEMMA RateLower ==
    ASSUME IInv, IInv', LoopSound, LoopSound', NEW h \in Listed,
           WritesLastHour(h) + Left(h) + Cardinality(Late(h))
               <= Endpoint[h].maxWrites + Cardinality(Req) - 1,
           WritesLastHour(h)' + Left(h)' <= WritesLastHour(h) + Left(h),
           Late(h)' \subseteq Late(h)
    PROVE  WritesLastHour(h)' + Left(h)' + Cardinality(Late(h)')
               <= Endpoint[h].maxWrites + Cardinality(Req) - 1
<1>1. IsFiniteSet(Late(h)) /\ Cardinality(Late(h)) \in Nat /\ Cardinality(Req) \in Nat
  BY LateType
<1>2. Cardinality(Late(h)') <= Cardinality(Late(h)) /\ Cardinality(Late(h)') \in Nat
  BY <1>1, FS_Subset, FS_CardinalityType
<1>3. CountersTyped /\ CountersTyped' /\ LeftTyped /\ LeftTyped'
  <2>1. IInv' => CountersTyped'
    BY CountersType, PTL
  <2>2. IInv' /\ LoopSound' => LeftTyped'
    BY LeftType, PTL
  <2>3. QED
    BY <2>1, <2>2, CountersType, LeftType
<1>4. WritesLastHour(h) \in Nat /\ WritesLastHour(h)' \in Nat
      /\ Left(h) \in Nat /\ Left(h)' \in Nat
  BY <1>3 DEF CountersTyped, Counters, LeftTyped
<1>5. QED
  BY <1>1, <1>2, <1>3, <1>4, LimitsType

\* A slot outside the sections moves on outside of them; into enrich's await it takes
\* a snapshot of this moment.
LEMMA SlotMoves ==
    ASSUME IInv, IInv', QuotaInv, NEW r \in Req, NEW s,
           req[r].pc \notin Section, proc # "down", s.pc \notin Section,
           s.pc = "lookup" =>
               /\ loop = "none" /\ s.intent.op = "rest"
               /\ s.view.locked \/ s.view.writes = WritesLastHour(HostOf(s.intent)),
           req' = [req EXCEPT ![r] = s], UNCHANGED <<proc, loop, writes, now, branches>>
    PROVE  QuotaInv'
<1>1. /\ req \in [Req -> Slot] /\ req'[r] = s
      /\ \A q \in Req : q # r => req'[q] = req[q]
  BY DEF IInv, TypeOK
<1>2. LoopSound' /\ LoopSound
  BY <1>1 DEF QuotaInv, LoopSound
<1>3. PushesFit'
  <2>1. ASSUME NEW q \in Req, Pushing(q)'
        PROVE  Fits(req[q])'
    <3>1. q # r /\ req'[q] = req[q] /\ Pushing(q)
      BY <1>1, <2>1 DEF Pushing, Section
    <3>2. Fits(req[q])
      BY <3>1 DEF QuotaInv, PushesFit
    <3>3. ASSUME NEW p, Fits(p)
          PROVE  Fits(p)'
      BY <3>3 DEF Fits, WritesLastHour, OpenBranches
    <3>4. QED
      BY <3>1, <3>2, <3>3
  <2>2. QED
    BY <2>1 DEF PushesFit
<1>4. ASSUME NEW h \in Listed
      PROVE  WritesLastHour(h)' + Left(h)' + Cardinality(Late(h)')
                 <= Endpoint[h].maxWrites + Cardinality(Req) - 1
  <2>1. WritesLastHour(h)' = WritesLastHour(h) /\ WritesLastHour(h) \in Nat
    BY CountersType DEF WritesLastHour, CountersTyped, Counters
  <2>2. Left(h)' = Left(h) /\ Left(h) \in Nat
    <3>1. loop \in Req => loop # r
      BY <1>2 DEF LoopSound
    <3>2. QED
      BY <1>1, <1>2, <3>1, LeftType DEF Left, LeftTyped
  <2>3. CASE r \notin Late(h)'
    <3>1. Late(h)' \subseteq Late(h)
      BY <1>1, <2>3 DEF Late
    <3>2. QED
      BY <1>2, <2>1, <2>2, <3>1, RateLower DEF QuotaInv, RateSound
  <2>4. CASE r \in Late(h)'
    <3>1. WritesLastHour(h) < Endpoint[h].maxWrites /\ loop = "none"
      BY <1>1, <2>4 DEF Late
    <3>2. Left(h) = 0
      BY <3>1, WardenAssumption DEF Left
    <3>3. Late(h)' \in SUBSET Req /\ IsFiniteSet(Req)
      BY WardenAssumption DEF Late
    <3>4. Cardinality(Late(h)') \in Nat /\ Cardinality(Late(h)') <= Cardinality(Req)
          /\ Cardinality(Req) \in Nat
      BY <3>3, FS_Subset, FS_CardinalityType
    <3>5. QED
      BY <2>1, <2>2, <3>1, <3>2, <3>4, LimitsType
  <2>5. QED
    BY <2>3, <2>4
<1>5. QED
  BY <1>2, <1>3, <1>4 DEF QuotaInv, RateSound

\* decide admits a counted request: it takes the loop, with room for all its rows.
LEMMA SlotEnters ==
    ASSUME IInv, IInv', QuotaInv, NEW r \in Req, NEW i \in Intents, NEW view \in View,
           proc # "down", loop = "none", req[r].pc \in {"parse", "lookup"},
           i = req[r].intent, RowCount(i) \in Nat, HostOf(i) \in Listed,
           \/ /\ WritesLastHour(HostOf(i)) + RowCount(i) <= Endpoint[HostOf(i)].maxWrites
              /\ i.op = "receive-pack" => Fits(At("record", i, view))
           \/ r \in Late(HostOf(i)) /\ RowCount(i) = 1 /\ i.op # "receive-pack",
           req' = [req EXCEPT ![r] = At("record", i, view)], loop' = r,
           UNCHANGED <<proc, writes, now, branches>>
    PROVE  QuotaInv'
<1> DEFINE s == At("record", i, view)
<1>1. /\ req \in [Req -> Slot] /\ req'[r] = s
      /\ \A q \in Req : q # r => req'[q] = req[q]
  BY DEF IInv, TypeOK
<1>2. s.pc = "record" /\ s.intent = i /\ s.rows = <<>>
  BY DEF At
<1> HIDE DEF s
<1>3. LoopSound' /\ LoopSound
  BY <1>1, <1>2, WardenAssumption DEF QuotaInv, LoopSound, Section
<1>4. PushesFit'
  <2>1. ASSUME NEW q \in Req, Pushing(q)'
        PROVE  q = r /\ i.op = "receive-pack"
    BY <1>1, <1>2, <1>3, <2>1 DEF Pushing, Section, LoopSound
  <2>2. ASSUME i.op = "receive-pack"
        PROVE  Fits(s)'
    BY <1>2, <2>2 DEF s, Fits, WritesLastHour, OpenBranches
  <2>3. QED
    BY <1>1, <2>1, <2>2 DEF PushesFit
<1>5. ASSUME NEW h \in Listed
      PROVE  WritesLastHour(h)' + Left(h)' + Cardinality(Late(h)')
                 <= Endpoint[h].maxWrites + Cardinality(Req) - 1
  <2>1. WritesLastHour(h)' = WritesLastHour(h) /\ WritesLastHour(h) \in Nat
    BY CountersType DEF WritesLastHour, CountersTyped, Counters
  <2>2. Left(h) = 0 /\ Left(h)' = IF HostOf(i) = h THEN RowCount(i) ELSE 0
    BY <1>1, <1>2, WardenAssumption DEF Left
  <2>3. Late(h)' = Late(h) \ {r}
    BY <1>1, <1>2 DEF Late
  <2>4. /\ IsFiniteSet(Late(h)) /\ Cardinality(Late(h)) \in Nat /\ Cardinality(Req) \in Nat \ {0}
        /\ Cardinality(Late(h)') = IF r \in Late(h) THEN Cardinality(Late(h)) - 1
                                                    ELSE Cardinality(Late(h))
        /\ r \notin Late(h) => Cardinality(Late(h)) <= Cardinality(Req) - 1
        /\ Cardinality(Late(h)) <= Cardinality(Req)
    BY <2>3, LateType, FS_RemoveElement
  <2>5. WritesLastHour(h) + Left(h) + Cardinality(Late(h))
            <= Endpoint[h].maxWrites + Cardinality(Req) - 1
    BY DEF QuotaInv, RateSound
  <2>6. QED
    BY <2>1, <2>2, <2>4, <2>5, LimitsType
<1>6. QED
  BY <1>3, <1>4, <1>5 DEF QuotaInv, RateSound

LEMMA FinishQuota ==
    ASSUME IInv, IInv', QuotaInv, NEW r \in Req, NEW b, req[r].pc \notin Section \cup {"idle"},
           Finish(r, b), UNCHANGED <<proc, loop, writes, now, branches>>
    PROVE  QuotaInv'
<1> DEFINE s == [At("done", SomeIntent, LockedView) EXCEPT !.logged = b]
<1>1. s.pc = "done" /\ req' = [req EXCEPT ![r] = s]
  BY DEF At, Finish
<1>2. proc # "down"
  BY DEF QuotaInv, LoopSound
<1> HIDE DEF s
<1>3. QED
  BY <1>1, <1>2, SlotMoves DEF Section

LEMMA ConcludeQuota ==
    ASSUME IInv, IInv', QuotaInv, NEW r \in Req, NEW view \in View, NEW source, loop = "none",
           NeedsWrite(req[r].intent) \/ Recognized(req[r].intent) # {} => Cleared(req[r].intent),
           \/ /\ req[r].pc = "parse"
              /\ view = StateView(req[r].intent.guard, HostOf(req[r].intent))
           \/ req[r].pc = "lookup" /\ view = req[r].view /\ req[r].intent.op # "receive-pack",
           Conclude(r, view, source), UNCHANGED <<proc, writes, now, branches>>
    PROVE  QuotaInv'
<1> DEFINE i == req[r].intent
           h == HostOf(i)
<1>1. i \in Intents /\ req[r].pc \notin Section /\ proc # "down"
  BY DEF IInv, TypeOK, Slot, Section, QuotaInv, LoopSound
<1>2. CASE ~Decide(i, view, source)
  BY <1>1, <1>2, FinishQuota DEF Conclude
<1>3. CASE Decide(i, view, source) /\ Counted(i)
  <2>1. /\ h \in Listed /\ view.writes + RowCount(i) <= Endpoint[h].maxWrites
        /\ ~view.locked /\ RowCount(i) \in Nat \ {0} /\ view.writes \in Nat
    BY <1>1, <1>3, DecideRecognizes, DecideWithinRate DEF View
  <2>2. req' = [req EXCEPT ![r] = At("record", i, view)] /\ loop' = r
    BY <1>3 DEF Conclude
  <2>3. CASE req[r].pc = "parse"
    <3>1. /\ view.writes = WritesLastHour(h)
          /\ i.guard = "git" => view.branches = OpenBranches(h)
      BY <2>1, <2>3 DEF StateView, LockedView
    <3>2. ASSUME i.op = "receive-pack"
          PROVE  Fits(At("record", i, view))
      <4> DEFINE s == At("record", i, view)
      <4>1. s.intent = i /\ s.rows = <<>> /\ s.pc = "record" /\ Len(s.rows) = 0
        BY DEF At
      <4>2. /\ i.guard = "git" /\ i.cmds \in Seq(Command) /\ RowCount(i) = Len(i.cmds)
            /\ PushAllowed(i, view)
        BY <1>1, <1>3, <3>2, IntentType DEF GitOp, IntentRecord, RowCount, Decide, GitDecide
      <4>3. Added(s) = 0
        BY <4>1 DEF Added
      <4>4. ToCreate(s) = {k \in DOMAIN i.cmds : IsCreate(i.cmds[k])}
        BY <4>1, <4>2, <4>3 DEF ToCreate
      <4>5. Creates(i) => OpenBranches(h) + Cardinality(ToCreate(s)) <= Endpoint[h].maxBranches
        BY <1>1, <3>1, <3>2, <4>2, <4>4, DecideWithinBranches
      <4>6. \A k \in DOMAIN i.cmds : ~(k <= 0)
        BY <4>2
      <4> HIDE DEF s
      <4>7. WritesLastHour(h) + (Len(i.cmds) - Len(s.rows)) <= Endpoint[h].maxWrites
        BY <2>1, <3>1, <4>1, <4>2
      <4>8. Fits(s)
        BY <4>1, <4>3, <4>5, <4>6, <4>7 DEF Fits
      <4>9. QED
        BY <4>8 DEF s
    <3>3. QED
      BY <1>1, <2>1, <2>2, <2>3, <3>1, <3>2, SlotEnters
  <2>4. CASE req[r].pc = "lookup"
    <3>1. r \in Late(h)
      BY <2>1, <2>4, LimitsType DEF Late
    <3>2. i.op # "receive-pack" /\ RowCount(i) = 1
      BY <2>4 DEF RowCount
    <3>3. QED
      BY <1>1, <2>1, <2>2, <2>4, <3>1, <3>2, SlotEnters
  <2>5. QED
    BY <2>3, <2>4
<1>4. CASE Decide(i, view, source) /\ ~Counted(i)
  <2>1. req' = [req EXCEPT ![r] = At("read", i, view)] /\ loop' = loop
    BY <1>4 DEF Conclude
  <2>2. At("read", i, view).pc = "read"
    BY DEF At
  <2>3. QED
    BY <1>1, <2>1, <2>2, SlotMoves DEF Section
<1>5. QED
  BY <1>2, <1>3, <1>4

LEMMA GateQuota ==
    ASSUME IInv, IInv', QuotaInv, NEW r \in Req, Gate(r)
    PROVE  QuotaInv'
<1> DEFINE i == req[r].intent
           view == StateView(i.guard, HostOf(i))
<1>1. /\ i \in Intents /\ aliases \in SUBSET AliasSet /\ req[r].pc = "parse"
      /\ loop = "none" /\ proc # "down" /\ i.guard \in Guard /\ HostOf(i) \in Host
  BY IntentType DEF IInv, TypeOK, Slot, ReconcileSound, Gate, IntentRecord, QuotaInv, LoopSound
<1>2. view \in View
  BY <1>1, StateViewType
<1>3. UNCHANGED <<proc, writes, now, branches>>
  BY DEF Gate, dbVars
<1>4. CASE Finish(r, TRUE) /\ UNCHANGED loop
  BY <1>1, <1>3, <1>4, FinishQuota DEF Section
<1>5. ASSUME KernelGates(i, Recognized(i), aliases), NEW source, Conclude(r, view, source)
      PROVE  QuotaInv'
  <2>1. NeedsWrite(i) \/ Recognized(i) # {} => Cleared(i)
    BY <1>1, <1>5, GatesClear DEF KernelGates
  <2> HIDE DEF view
  <2>2. view = StateView(req[r].intent.guard, HostOf(req[r].intent))
    BY DEF view
  <2>3. QED
    BY <1>1, <1>2, <1>3, <1>5, <2>1, <2>2, ConcludeQuota
<1>6. CASE NeedsSourceLookup(i) /\ req' = [req EXCEPT ![r] = At("lookup", i, view)]
           /\ UNCHANGED loop
  <2> DEFINE s == At("lookup", i, view)
  <2>1. s.pc = "lookup" /\ s.intent = i /\ s.view = view
    BY DEF At
  <2>2. view.locked \/ view.writes = WritesLastHour(HostOf(i))
    BY DEF StateView, LockedView
  <2> HIDE DEF s, view
  <2>3. req' = [req EXCEPT ![r] = s]
    BY <1>6 DEF s
  <2>4. QED
    BY <1>1, <1>3, <1>6, <2>1, <2>2, <2>3, SlotMoves DEF Section, NeedsSourceLookup
<1>7. QED
  BY <1>4, <1>5, <1>6 DEF Gate

LEMMA LookedUpQuota ==
    ASSUME IInv, IInv', QuotaInv, NEW r \in Req, LookedUp(r)
    PROVE  QuotaInv'
<1> DEFINE i == req[r].intent
<1>1. /\ i \in Intents /\ req[r].view \in View /\ Cleared(i) /\ Counted(i)
      /\ req[r].pc = "lookup" /\ loop = "none"
  BY DEF IInv, TypeOK, Slot, SlotsSound, Sound, LookedUp
<1>2. PICK source : Conclude(r, req[r].view, source)
  BY DEF LookedUp
<1>3. UNCHANGED <<proc, writes, now, branches>>
  BY DEF LookedUp, dbVars
<1>4. i.op # "receive-pack"
  BY <1>1 DEF QuotaInv, LoopSound
<1>5. QED
  BY <1>1, <1>2, <1>3, <1>4, ConcludeQuota
-----------------------------------------------------------------------------
(* The sections that record.                                               *)

\* The slot of r after a commit: still in its section, or complete and about to send.
Stepped(r, t) ==
    /\ req' = [req EXCEPT ![r] = t] /\ t.intent = req[r].intent
    /\ \/ t.pc \in Section /\ loop' = r
       \/ t.pc = "send" /\ loop' = "none" /\ Len(t.rows) = RowCount(t.intent)

LEMMA SectionType ==
    ASSUME IInv, NEW r \in Req, req[r].pc \in Section
    PROVE  /\ req[r] \in Slot /\ req[r].intent \in Intents /\ HostOf(req[r].intent) \in Listed
           /\ req[r].rows \in Seq(Row) /\ Len(req[r].rows) \in Nat
           /\ RowCount(req[r].intent) \in Nat
           /\ Len(req[r].rows) <= RowCount(req[r].intent)
           /\ req[r].pc = "record" => Len(req[r].rows) < RowCount(req[r].intent)
           /\ req[r].pc = "branch" => /\ req[r].intent.op = "receive-pack"
                                      /\ Len(req[r].rows) \in Nat \ {0}
<1>1. /\ req[r] \in Slot /\ req[r].intent \in Intents /\ req[r].rows \in Seq(Row)
      /\ Sound(req[r], writes, now, nextRow, latch)
  BY DEF IInv, TypeOK, Slot, SlotsSound
<1>2. Admitted(req[r], writes, now, nextRow, latch)
  BY <1>1 DEF Sound, InSection, Section
<1>3. HostOf(req[r].intent) \in Listed /\ Len(req[r].rows) <= RowCount(req[r].intent)
  BY <1>2 DEF Admitted, Cleared, AccessMode, Begun
<1>4. QED
  BY <1>1, <1>3, RowCountType DEF Sound

\* What EXCEPT leaves of a slot.
LEMMA SlotParts ==
    ASSUME NEW s \in Slot, NEW rows, NEW pc
    PROVE  LET t == [[s EXCEPT !.rows = rows] EXCEPT !.pc = pc]
               u == [s EXCEPT !.pc = pc] IN
           /\ t.rows = rows /\ t.intent = s.intent /\ t.pc = pc
           /\ u.rows = s.rows /\ u.intent = s.intent /\ u.pc = pc
           /\ [s EXCEPT !.rows = rows].rows = rows
           /\ [s EXCEPT !.rows = rows].intent = s.intent
BY DEF Slot

LEMMA RecordRowSlot ==
    ASSUME IInv, NEW r \in Req, RecordRow(r)
    PROVE  \E t : /\ Stepped(r, t) /\ Len(t.rows) = Len(req[r].rows) + 1
                  /\ t.intent.op = "receive-pack" =>
                         IF IsCreate(t.intent.cmds[Len(t.rows)])
                         THEN t.pc = "branch" ELSE t.pc # "branch"
<1> DEFINE i == req[r].intent
           n == Len(req[r].rows)
           more == Append(req[r].rows, NewRow(i, n + 1))
           s == [req[r] EXCEPT !.rows = more]
           t(pc) == [s EXCEPT !.pc = pc]
           created == i.op = "receive-pack" /\ IsCreate(i.cmds[n + 1])
<1>1. /\ req[r] \in Slot /\ n \in Nat /\ RowCount(i) \in Nat /\ n < RowCount(i) /\ loop = r
      /\ req[r].rows \in Seq(Row)
  BY SectionType DEF RecordRow, Section
<1>2. Len(more) = n + 1
  BY <1>1
<1>3. /\ s.rows = more /\ s.intent = i
      /\ \A pc : t(pc).rows = more /\ t(pc).intent = i /\ t(pc).pc = pc
  BY <1>1, SlotParts
<1>4. CASE created
  <2>1. req' = [req EXCEPT ![r] = t("branch")] /\ loop' = r
    BY <1>1, <1>4 DEF RecordRow
  <2> HIDE DEF t, s, more
  <2>2. Stepped(r, t("branch"))
    BY <1>3, <2>1 DEF Stepped, Section
  <2> DEFINE new == t("branch")
  <2>3. new.rows = more /\ new.intent = i /\ new.pc = "branch" /\ Stepped(r, new)
    BY <1>3, <2>2
  <2> HIDE DEF new
  <2>4. QED
    BY <1>2, <1>4, <2>3
<1>5. CASE ~created
  <2>1. Advance(r, s)
    BY <1>5 DEF RecordRow
  <2>2. CASE n + 1 < RowCount(i)
    <3>1. req' = [req EXCEPT ![r] = t("record")] /\ loop' = r
      BY <1>2, <1>3, <2>1, <2>2 DEF Advance
    <3> HIDE DEF t, s, more
    <3>2. Stepped(r, t("record"))
      BY <1>3, <3>1 DEF Stepped, Section
    <3> DEFINE new == t("record")
    <3>3. new.rows = more /\ new.intent = i /\ new.pc # "branch" /\ Stepped(r, new)
      BY <1>3, <3>2
    <3> HIDE DEF new
    <3>4. QED
      BY <1>2, <1>5, <3>3
  <2>3. CASE n + 1 = RowCount(i)
    <3>1. req' = [req EXCEPT ![r] = t("send")] /\ loop' = "none"
      BY <1>2, <1>3, <2>1, <2>3 DEF Advance
    <3> HIDE DEF t, s, more
    <3>2. Stepped(r, t("send"))
      BY <1>2, <1>3, <2>3, <3>1 DEF Stepped
    <3> DEFINE new == t("send")
    <3>3. new.rows = more /\ new.intent = i /\ new.pc # "branch" /\ Stepped(r, new)
      BY <1>3, <3>2
    <3> HIDE DEF new
    <3>4. QED
      BY <1>2, <1>5, <3>3
  <2>4. QED
    BY <1>1, <2>2, <2>3
<1>6. QED
  BY <1>4, <1>5

LEMMA AddBranchSlot ==
    ASSUME IInv, NEW r \in Req, AddBranch(r)
    PROVE  \E t : Stepped(r, t) /\ t.rows = req[r].rows /\ t.pc # "branch"
<1> DEFINE s == req[r]
           t(pc) == [s EXCEPT !.pc = pc]
<1>1. /\ s \in Slot /\ Len(s.rows) \in Nat /\ RowCount(s.intent) \in Nat
      /\ Len(s.rows) <= RowCount(s.intent) /\ Advance(r, s)
  BY SectionType DEF AddBranch, Section
<1>2. \A pc : t(pc).rows = s.rows /\ t(pc).intent = s.intent /\ t(pc).pc = pc
  BY <1>1, SlotParts
<1>3. CASE Len(s.rows) < RowCount(s.intent)
  <2>1. req' = [req EXCEPT ![r] = t("record")] /\ loop' = r
    BY <1>1, <1>3 DEF Advance
  <2> HIDE DEF t
  <2>2. Stepped(r, t("record"))
    BY <1>2, <2>1 DEF Stepped, Section
  <2>3. QED
    BY <1>2, <2>2
<1>4. CASE Len(s.rows) = RowCount(s.intent)
  <2>1. req' = [req EXCEPT ![r] = t("send")] /\ loop' = "none"
    BY <1>1, <1>4 DEF Advance
  <2> HIDE DEF t
  <2>2. Stepped(r, t("send"))
    BY <1>2, <1>4, <2>1 DEF Stepped
  <2>3. QED
    BY <1>2, <2>2
<1>5. QED
  BY <1>1, <1>3, <1>4

\* A row lowers what is left by as much as it raises the counter.
LEMMA SteppedQuota ==
    ASSUME IInv, IInv', QuotaInv, NEW r \in Req, req[r].pc \in Section, NEW t,
           Stepped(r, t), Len(t.rows) \in Nat, t.intent.op = "receive-pack" => Fits(t)',
           proc' = proc,
           \A h : WritesLastHour(h)' <= WritesLastHour(h)
                      + IF h = HostOf(t.intent) THEN Len(t.rows) - Len(req[r].rows) ELSE 0
    PROVE  QuotaInv'
<1>1. /\ req \in [Req -> Slot] /\ req'[r] = t /\ loop = r /\ proc # "down"
      /\ \A q \in Req : q # r => req'[q] = req[q]
  BY DEF IInv, TypeOK, Stepped, QuotaInv, LoopSound, Section
<1>2. LoopSound' /\ LoopSound
  BY <1>1, WardenAssumption DEF QuotaInv, LoopSound, Stepped, Section
<1>3. PushesFit'
  <2>1. ASSUME NEW q \in Req, Pushing(q)'
        PROVE  q = r
    BY <1>1, <1>2, <2>1 DEF Pushing, Section, LoopSound, Stepped
  <2>2. QED
    BY <1>1, <2>1 DEF PushesFit, Pushing
<1>4. ASSUME NEW h \in Listed
      PROVE  WritesLastHour(h)' + Left(h)' + Cardinality(Late(h)')
                 <= Endpoint[h].maxWrites + Cardinality(Req) - 1
  <2>1. Late(h)' \subseteq Late(h)
    BY <1>1 DEF Late, Stepped, Section
  <2>2. /\ WritesLastHour(h) \in Nat /\ WritesLastHour(h)' \in Nat
        /\ Left(h) \in Nat /\ Left(h)' \in Nat
    <3>1. CountersTyped /\ CountersTyped' /\ LeftTyped /\ LeftTyped'
      <4>1. IInv' => CountersTyped'
        BY CountersType, PTL
      <4>2. IInv' /\ LoopSound' => LeftTyped'
        BY LeftType, PTL
      <4>3. QED
        BY <1>2, <4>1, <4>2, CountersType, LeftType
    <3>2. QED
      BY <3>1 DEF CountersTyped, Counters, LeftTyped
  <2>3. Len(req[r].rows) \in Nat /\ RowCount(t.intent) \in Nat
    BY SectionType DEF Stepped
  <2>4. Left(h) = IF HostOf(t.intent) = h THEN RowCount(t.intent) - Len(req[r].rows) ELSE 0
    BY <1>1 DEF Left, Stepped
  <2>5. Left(h)' = IF HostOf(t.intent) = h THEN RowCount(t.intent) - Len(t.rows) ELSE 0
    <3>1. CASE loop' = r
      BY <1>1, <3>1 DEF Left
    <3>2. CASE loop' = "none" /\ Len(t.rows) = RowCount(t.intent)
      BY <2>3, <3>2, WardenAssumption DEF Left
    <3>3. QED
      BY <3>1, <3>2 DEF Stepped
  <2>6. WritesLastHour(h)' + Left(h)' <= WritesLastHour(h) + Left(h)
    <3>1. CASE h = HostOf(t.intent)
      <4>1. WritesLastHour(h)' <= WritesLastHour(h) + (Len(t.rows) - Len(req[r].rows))
        BY <3>1
      <4>2. /\ Left(h) = RowCount(t.intent) - Len(req[r].rows)
            /\ Left(h)' = RowCount(t.intent) - Len(t.rows)
        BY <2>4, <2>5, <3>1
      <4>3. \A a, b, c, m \in Nat : \A n \in Nat :
                n <= m + (a - b) => n + (c - a) <= m + (c - b)
        OBVIOUS
      <4>4. QED
        BY <2>2, <2>3, <4>1, <4>2, <4>3
    <3>2. CASE h # HostOf(t.intent)
      <4>1. WritesLastHour(h)' <= WritesLastHour(h) + 0
        BY <3>2
      <4>2. QED
        BY <2>2, <2>4, <2>5, <3>2, <4>1
    <3>3. QED
      BY <3>1, <3>2
  <2>7. QED
    BY <1>2, <2>1, <2>6, RateLower DEF QuotaInv, RateSound
<1>5. QED
  BY <1>2, <1>3, <1>4 DEF QuotaInv, RateSound

\* One row: the counter of its host goes up by at most one.
LEMMA RecordRowCounts ==
    ASSUME IInv, IInv', NEW r \in Req, RecordRow(r), NEW h
    PROVE  WritesLastHour(h)' <= WritesLastHour(h)
                                     + IF h = HostOf(req[r].intent) THEN 1 ELSE 0
<1> DEFINE w == NewRow(req[r].intent, Len(req[r].rows) + 1)
           C == {v \in writes : v.host = h /\ v.ts > now - Window}
           D == {v \in writes \cup {w} : v.host = h /\ v.ts > now - Window}
<1>1. writes' = writes \cup {w} /\ now' = now /\ w.host = HostOf(req[r].intent)
  BY DEF RecordRow, RecordWrite, NewRow
<1>2. IsFiniteSet(C) /\ Cardinality(C) \in Nat
  BY FS_Subset, FS_CardinalityType DEF IInv, TablesFinite
<1>3. WritesLastHour(h) = Cardinality(C) /\ WritesLastHour(h)' = Cardinality(D)
  BY <1>1 DEF WritesLastHour
<1>4. CASE h = HostOf(req[r].intent)
  <2>1. D \subseteq C \cup {w}
    OBVIOUS
  <2> HIDE DEF w, C, D
  <2>2. IsFiniteSet(C \cup {w}) /\ Cardinality(C \cup {w}) <= Cardinality(C) + 1
        /\ Cardinality(C \cup {w}) \in Nat
    <3>1. /\ IsFiniteSet(C \cup {w})
          /\ Cardinality(C \cup {w}) = IF w \in C THEN Cardinality(C) ELSE Cardinality(C) + 1
      BY <1>2, FS_AddElement
    <3>2. QED
      BY <1>2, <3>1
  <2>3. Cardinality(D) <= Cardinality(C \cup {w}) /\ Cardinality(D) \in Nat
    BY <2>1, <2>2, FS_Subset, FS_CardinalityType
  <2>4. QED
    BY <1>2, <1>3, <1>4, <2>2, <2>3
<1>5. CASE h # HostOf(req[r].intent)
  <2>1. D = C
    BY <1>1, <1>5
  <2> HIDE DEF w, C, D
  <2>2. QED
    BY <1>2, <1>3, <1>5, <2>1
<1>6. QED
  BY <1>4, <1>5

\* A smaller set of commands still to create.
LEMMA FewerToCreate ==
    ASSUME NEW i \in Intents, NEW m \in Nat, NEW n \in Nat, m <= n
    PROVE  LET Open(k) == {j \in DOMAIN i.cmds : IsCreate(i.cmds[j]) /\ j > k} IN
           /\ IsFiniteSet(Open(m)) /\ IsFiniteSet(Open(n))
           /\ Cardinality(Open(m)) \in Nat /\ Cardinality(Open(n)) \in Nat
           /\ Cardinality(Open(n)) <= Cardinality(Open(m))
           /\ \A j \in DOMAIN i.cmds : IsCreate(i.cmds[j]) /\ m < j /\ j <= n =>
                  Cardinality(Open(n)) + 1 <= Cardinality(Open(m))
<1> DEFINE Open(k) == {j \in DOMAIN i.cmds : IsCreate(i.cmds[j]) /\ j > k}
           A == Open(m)
           B == Open(n)
<1>1. i.cmds \in Seq(Command) /\ DOMAIN i.cmds = 1 .. Len(i.cmds) /\ Len(i.cmds) \in Nat
  BY IntentType DEF IntentRecord
<1>2. IsFiniteSet(DOMAIN i.cmds)
  BY <1>1, FS_Interval
<1>3. A \subseteq DOMAIN i.cmds /\ B \subseteq A
  BY <1>1
<1>4. ASSUME NEW j \in DOMAIN i.cmds, IsCreate(i.cmds[j]), m < j, j <= n
      PROVE  j \in A /\ j \notin B
  BY <1>1, <1>4
<1> HIDE DEF A, B
<1>5. IsFiniteSet(A) /\ IsFiniteSet(B) /\ Cardinality(B) <= Cardinality(A)
      /\ Cardinality(A) \in Nat /\ Cardinality(B) \in Nat
  BY <1>2, <1>3, FS_Subset, FS_CardinalityType
<1>6. ASSUME NEW j \in DOMAIN i.cmds, IsCreate(i.cmds[j]), m < j, j <= n
      PROVE  Cardinality(B) + 1 <= Cardinality(A)
  <2>1. B \in SUBSET (A \ {j}) /\ j \in A
    BY <1>3, <1>4, <1>6
  <2>2. IsFiniteSet(A \ {j}) /\ Cardinality(A \ {j}) = Cardinality(A) - 1
    BY <1>5, <2>1, FS_RemoveElement
  <2>3. Cardinality(B) <= Cardinality(A \ {j})
    BY <2>1, <2>2, FS_Subset
  <2>4. QED
    BY <1>5, <2>2, <2>3
<1>7. QED
  BY <1>5, <1>6 DEF A, B

LEMMA RecordRowFits ==
    ASSUME IInv, IInv', QuotaInv, NEW r \in Req, RecordRow(r), NEW t, Stepped(r, t),
           Len(t.rows) = Len(req[r].rows) + 1, t.intent.op = "receive-pack",
           IF IsCreate(t.intent.cmds[Len(t.rows)]) THEN t.pc = "branch" ELSE t.pc # "branch"
    PROVE  Fits(t)'
<1> DEFINE i == t.intent
           h == HostOf(i)
           n == Len(req[r].rows)
<1>1. /\ req[r].intent = i /\ i \in Intents /\ h \in Listed /\ n \in Nat /\ Len(i.cmds) \in Nat
      /\ i.cmds \in Seq(Command) /\ req[r].pc = "record" /\ Len(t.rows) = n + 1
  BY SectionType, IntentType DEF RecordRow, Section, Stepped, IntentRecord
<1>2. Fits(req[r]) /\ Added(req[r]) = n
  BY <1>1 DEF QuotaInv, PushesFit, Pushing, Added
<1>3. Added(t) \in Nat /\ n <= Added(t)
      /\ \A k \in DOMAIN i.cmds : IsCreate(i.cmds[k]) /\ k <= Added(t) => k <= n
  <2>1. CASE t.pc = "branch"
    BY <1>1, <2>1 DEF Added
  <2>2. CASE t.pc # "branch"
    <3>1. Added(t) = n + 1 /\ ~IsCreate(i.cmds[n + 1])
      BY <1>1, <2>2 DEF Added
    <3>2. ASSUME NEW k \in DOMAIN i.cmds, IsCreate(i.cmds[k]), k <= n + 1
          PROVE  k <= n
      <4>1. k \in Nat /\ k # n + 1
        BY <1>1, <3>1, <3>2
      <4>2. QED
        BY <1>1, <3>2, <4>1
    <3>3. n + 1 \in Nat /\ n <= n + 1
      BY <1>1
    <3>4. QED
      BY <3>1, <3>2, <3>3
  <2>3. QED
    BY <2>1, <2>2
<1>4. branches' = branches /\ OpenBranches(h)' = OpenBranches(h) /\ OpenBranches(h) \in Nat
  BY CountersType DEF RecordRow, OpenBranches, CountersTyped, Counters
<1>5. WritesLastHour(h)' <= WritesLastHour(h) + 1
      /\ WritesLastHour(h) \in Nat /\ WritesLastHour(h)' \in Nat
  <2>1. IInv' => CountersTyped'
    BY CountersType, PTL
  <2>2. QED
    BY <1>1, <2>1, CountersType, RecordRowCounts DEF CountersTyped, Counters
<1>6. /\ Cardinality(ToCreate(t)) <= Cardinality(ToCreate(req[r]))
      /\ Cardinality(ToCreate(t)) \in Nat /\ Cardinality(ToCreate(req[r])) \in Nat
  BY <1>1, <1>2, <1>3, FewerToCreate DEF ToCreate
<1>7. /\ WritesLastHour(h) + (Len(i.cmds) - n) <= Endpoint[h].maxWrites
      /\ Creates(i) => OpenBranches(h) + Cardinality(ToCreate(req[r])) <= Endpoint[h].maxBranches
      /\ \A k \in DOMAIN i.cmds : IsCreate(i.cmds[k]) /\ k <= n =>
             <<h, NormalizeProject(i.project), i.cmds[k].ref>> \in branches
  BY <1>1, <1>2 DEF Fits
<1>8. WritesLastHour(h)' + (Len(i.cmds) - Len(t.rows)) <= Endpoint[h].maxWrites
  <2>1. \A v, w, c, k, m \in Nat :
            v <= w + 1 /\ w + (c - k) <= m => v + (c - (k + 1)) <= m
    OBVIOUS
  <2>2. Endpoint[h].maxWrites \in Nat
    BY <1>1, LimitsType
  <2> HIDE DEF i, h, n
  <2>3. QED
    BY <1>1, <1>5, <1>7, <2>1, <2>2
<1>9. Creates(i) => OpenBranches(h)' + Cardinality(ToCreate(t)) <= Endpoint[h].maxBranches
  <2>1. \A v, c, k, m \in Nat : v + k <= m /\ c <= k => v + c <= m
    OBVIOUS
  <2>2. Endpoint[h].maxBranches \in Nat
    BY <1>1, LimitsType
  <2> HIDE DEF i, h, n
  <2>3. QED
    BY <1>4, <1>6, <1>7, <2>1, <2>2
<1>10. \A k \in DOMAIN i.cmds : IsCreate(i.cmds[k]) /\ k <= Added(t) =>
           <<h, NormalizeProject(i.project), i.cmds[k].ref>> \in branches'
  BY <1>3, <1>4, <1>7
<1>11. t.pc = "branch" => IsCreate(i.cmds[Len(t.rows)])
  OBVIOUS
<1>12. QED
  BY <1>8, <1>9, <1>10, <1>11 DEF Fits

LEMMA RecordRowQuota ==
    ASSUME IInv, IInv', QuotaInv, NEW r \in Req, RecordRow(r)
    PROVE  QuotaInv'
<1>1. PICK t : /\ Stepped(r, t) /\ Len(t.rows) = Len(req[r].rows) + 1
               /\ t.intent.op = "receive-pack" =>
                      IF IsCreate(t.intent.cmds[Len(t.rows)])
                      THEN t.pc = "branch" ELSE t.pc # "branch"
  BY RecordRowSlot
<1>2. t.intent.op = "receive-pack" => Fits(t)'
  BY <1>1, RecordRowFits
<1>3. /\ req[r].pc \in Section /\ proc' = proc /\ Len(req[r].rows) \in Nat
      /\ Len(t.rows) \in Nat /\ t.intent = req[r].intent
  BY <1>1, SectionType DEF RecordRow, Section, Stepped
<1>4. \A h : WritesLastHour(h)' <= WritesLastHour(h)
                 + IF h = HostOf(t.intent) THEN Len(t.rows) - Len(req[r].rows) ELSE 0
  <2>1. Len(t.rows) - Len(req[r].rows) = 1
    BY <1>1, <1>3
  <2>2. QED
    BY <1>3, <2>1, RecordRowCounts
<1>5. QED
  BY <1>1, <1>2, <1>3, <1>4, SteppedQuota

\* One branch: the count goes up by at most one, as what is to create goes down by one.
LEMMA AddBranchFits ==
    ASSUME IInv, IInv', QuotaInv, NEW r \in Req, AddBranch(r), NEW t, Stepped(r, t),
           t.rows = req[r].rows, t.pc # "branch"
    PROVE  Fits(t)'
<1> DEFINE i == t.intent
           h == HostOf(i)
           n == Len(req[r].rows)
           b == <<h, NormalizeProject(i.project), i.cmds[n].ref>>
<1>1. /\ req[r].intent = i /\ i \in Intents /\ h \in Listed /\ n \in Nat \ {0}
      /\ Len(i.cmds) \in Nat /\ i.cmds \in Seq(Command) /\ i.op = "receive-pack"
      /\ req[r].pc = "branch" /\ n <= Len(i.cmds)
  BY SectionType, IntentType DEF AddBranch, Section, Stepped, IntentRecord, RowCount
<1>2. Fits(req[r]) /\ Added(req[r]) = n - 1 /\ Added(t) = n /\ IsCreate(i.cmds[n])
      /\ n \in DOMAIN i.cmds
  <2>1. Fits(req[r])
    BY <1>1 DEF QuotaInv, PushesFit, Pushing
  <2>2. IsCreate(i.cmds[n])
    BY <1>1, <2>1 DEF Fits
  <2>3. QED
    BY <1>1, <2>1, <2>2 DEF Added
<1>3. branches' = branches \cup {b} /\ WritesLastHour(h)' = WritesLastHour(h)
  BY <1>1 DEF AddBranch, WritesLastHour
<1>4. OpenBranches(h)' <= OpenBranches(h) + 1
      /\ OpenBranches(h) \in Nat /\ OpenBranches(h)' \in Nat
  <2> DEFINE C == {x \in branches : x[1] = h}
             D == {x \in branches \cup {b} : x[1] = h}
  <2>1. IsFiniteSet(C) /\ Cardinality(C) \in Nat
    BY FS_Subset, FS_CardinalityType DEF IInv, TablesFinite
  <2>2. D \subseteq C \cup {b} /\ OpenBranches(h) = Cardinality(C)
        /\ OpenBranches(h)' = Cardinality(D)
    BY <1>3 DEF OpenBranches
  <2> HIDE DEF b, C, D
  <2>3. /\ IsFiniteSet(C \cup {b})
        /\ Cardinality(C \cup {b}) = IF b \in C THEN Cardinality(C) ELSE Cardinality(C) + 1
    BY <2>1, FS_AddElement
  <2>4. Cardinality(D) <= Cardinality(C \cup {b}) /\ Cardinality(D) \in Nat
    BY <2>2, <2>3, FS_Subset, FS_CardinalityType
  <2>5. QED
    BY <2>1, <2>2, <2>3, <2>4
<1>5. /\ Cardinality(ToCreate(t)) + 1 <= Cardinality(ToCreate(req[r]))
      /\ Cardinality(ToCreate(t)) \in Nat /\ Cardinality(ToCreate(req[r])) \in Nat
  <2>1. n - 1 \in Nat /\ n - 1 <= n /\ n - 1 < n /\ n <= n
    BY <1>1
  <2>2. QED
    BY <1>1, <1>2, <2>1, FewerToCreate DEF ToCreate
<1>6. /\ WritesLastHour(h) + (Len(i.cmds) - n) <= Endpoint[h].maxWrites
      /\ OpenBranches(h) + Cardinality(ToCreate(req[r])) <= Endpoint[h].maxBranches
      /\ \A k \in DOMAIN i.cmds : IsCreate(i.cmds[k]) /\ k <= n - 1 =>
             <<h, NormalizeProject(i.project), i.cmds[k].ref>> \in branches
  BY <1>1, <1>2 DEF Fits, Creates
<1>7. OpenBranches(h)' + Cardinality(ToCreate(t)) <= Endpoint[h].maxBranches
  <2>1. \A v, w, c, k, m \in Nat : v <= w + 1 /\ w + k <= m /\ c + 1 <= k => v + c <= m
    OBVIOUS
  <2>2. Endpoint[h].maxBranches \in Nat
    BY <1>1, LimitsType
  <2> HIDE DEF i, h, n
  <2>3. QED
    BY <1>4, <1>5, <1>6, <2>1, <2>2
<1>8. \A k \in DOMAIN i.cmds : IsCreate(i.cmds[k]) /\ k <= Added(t) =>
           <<h, NormalizeProject(i.project), i.cmds[k].ref>> \in branches'
  <2>1. ASSUME NEW k \in DOMAIN i.cmds, IsCreate(i.cmds[k]), k <= n
        PROVE  <<h, NormalizeProject(i.project), i.cmds[k].ref>> \in branches'
    <3>1. k \in Nat /\ (k = n \/ k <= n - 1)
      BY <1>1, <2>1
    <3>2. QED
      BY <1>3, <1>6, <2>1, <3>1
  <2>2. QED
    BY <1>2, <2>1
<1>9. QED
  BY <1>3, <1>6, <1>7, <1>8 DEF Fits

LEMMA AddBranchQuota ==
    ASSUME IInv, IInv', QuotaInv, NEW r \in Req, AddBranch(r)
    PROVE  QuotaInv'
<1>1. PICK t : Stepped(r, t) /\ t.rows = req[r].rows /\ t.pc # "branch"
  BY AddBranchSlot
<1>2. Fits(t)'
  BY <1>1, AddBranchFits
<1>3. req[r].pc \in Section /\ proc' = proc /\ Len(req[r].rows) \in Nat
  BY SectionType DEF AddBranch, Section
<1>4. \A h : WritesLastHour(h)' = WritesLastHour(h) /\ WritesLastHour(h) \in Nat
  BY CountersType DEF AddBranch, WritesLastHour, CountersTyped, Counters
<1>5. \A h : WritesLastHour(h)' <= WritesLastHour(h)
                 + IF h = HostOf(t.intent) THEN Len(t.rows) - Len(req[r].rows) ELSE 0
  <2>1. Len(t.rows) - Len(req[r].rows) = 0
    BY <1>1, <1>3
  <2>2. \A m \in Nat : m <= m + 0
    OBVIOUS
  <2>3. QED
    BY <1>4, <2>1, <2>2
<1>6. QED
  BY <1>1, <1>2, <1>3, <1>5, SteppedQuota
-----------------------------------------------------------------------------
(* The other steps.                                                        *)

\* Time, prune, reconcile, forge: no slot moves, and no counter of a push goes up.
LEMMA OtherQuota ==
    ASSUME IInv, IInv', QuotaInv, req' = req, LoopSound', \A h : Recent(h)' \subseteq Recent(h),
           loop \in Req => branches' = branches
    PROVE  QuotaInv'
<1>1. LoopSound /\ \A r \in Req : req[r].pc \in Section <=> loop = r /\ loop' = r
  BY DEF QuotaInv, LoopSound
<1>2. ASSUME NEW h
      PROVE  /\ WritesLastHour(h)' <= WritesLastHour(h)
             /\ WritesLastHour(h)' \in Nat /\ WritesLastHour(h) \in Nat
  <2>1. CountersTyped /\ CountersTyped'
    <3>1. IInv' => CountersTyped'
      BY CountersType, PTL
    <3>2. QED
      BY <3>1, CountersType
  <2>2. Cardinality(Recent(h)') <= Cardinality(Recent(h))
    BY <2>1, FS_Subset DEF CountersTyped, Counters
  <2>3. QED
    BY <2>1, <2>2 DEF CountersTyped, Counters
<1>3. PushesFit'
  <2>1. ASSUME NEW q \in Req, Pushing(q)'
        PROVE  Fits(req[q])'
    <3>1. Pushing(q) /\ Fits(req[q]) /\ req'[q] = req[q] /\ branches' = branches
      BY <1>1, <2>1 DEF Pushing, Section, QuotaInv, PushesFit
    <3> DEFINE p == req[q]
               h == HostOf(p.intent)
    <3>2. /\ HostOf(req[q].intent) \in Listed /\ req[q].intent \in Intents
          /\ Len(req[q].rows) \in Nat /\ Len(req[q].intent.cmds) \in Nat
      BY <3>1, SectionType, IntentType DEF Pushing, Section, IntentRecord
    <3>3. ASSUME NEW s, Fits(s), HostOf(s.intent) \in Listed, Len(s.rows) \in Nat,
                 Len(s.intent.cmds) \in Nat
          PROVE  Fits(s)'
      <4>1. WritesLastHour(HostOf(s.intent))' + (Len(s.intent.cmds) - Len(s.rows))
                <= Endpoint[HostOf(s.intent)].maxWrites
        <5>1. \A v, w, c, k, m \in Nat : v <= w /\ w + (c - k) <= m => v + (c - k) <= m
          OBVIOUS
        <5>2. Endpoint[HostOf(s.intent)].maxWrites \in Nat
          BY <3>3, LimitsType
        <5>3. QED
          BY <1>2, <3>3, <5>1, <5>2 DEF Fits
      <4>2. OpenBranches(HostOf(s.intent))' = OpenBranches(HostOf(s.intent))
        BY <3>1 DEF OpenBranches
      <4>3. QED
        BY <3>1, <3>3, <4>1, <4>2 DEF Fits
    <3>4. QED
      BY <3>1, <3>2, <3>3
  <2>2. QED
    BY <2>1 DEF PushesFit
<1>4. ASSUME NEW h \in Listed
      PROVE  WritesLastHour(h)' + Left(h)' + Cardinality(Late(h)')
                 <= Endpoint[h].maxWrites + Cardinality(Req) - 1
  <2>1. Late(h)' = Late(h)
    BY DEF Late
  <2>2. Left(h)' = Left(h) /\ Left(h) \in Nat
    <3>1. loop \in Req \/ loop' \in Req => loop' = loop
      BY <1>1 DEF LoopSound
    <3>2. QED
      BY <1>1, <3>1, LeftType DEF Left, LeftTyped
  <2>3. WritesLastHour(h)' + Left(h)' <= WritesLastHour(h) + Left(h)
    BY <1>2, <2>2
  <2>4. QED
    BY <1>1, <2>1, <2>3, RateLower DEF QuotaInv, RateSound
<1>5. QED
  BY <1>1, <1>3, <1>4 DEF QuotaInv, RateSound

\* The window only moves on.
LEMMA RecentShrinks ==
    ASSUME IInv, writes' \subseteq writes, now' = now \/ now' = now + 1
    PROVE  \A h : Recent(h)' \subseteq Recent(h)
<1>1. now \in Nat /\ \A w \in writes : w.ts \in Nat
  BY DEF IInv, TypeOK, Row
<1>2. QED
  BY <1>1, WardenAssumption DEF Recent

LEMMA ReconcileQuota ==
    ASSUME IInv, IInv', QuotaInv, Reconcile \/ Restart
    PROVE  QuotaInv'
<1>1. \A rec : LoopAfter(rec) => loop' \in {"none", "reconcile"} /\ loop' \notin Req
  BY WardenAssumption DEF LoopAfter
<1>2. /\ req' = req /\ now' = now /\ writes' \subseteq writes
      /\ loop \in Req => branches' = branches
  <2>1. CASE TakeListing \/ ListFails \/ EndPass \/ Restart
    BY <2>1 DEF TakeListing, ListFails, EndPass, Restart, dbVars
  <2>2. CASE InstallListing
    BY <2>2, WardenAssumption DEF InstallListing
  <2>3. CASE Wake
    BY <2>3 DEF Wake, Prune
  <2>4. QED
    BY <2>1, <2>2, <2>3 DEF Reconcile
<1>3. loop' = loop \/ (loop \notin Req /\ loop' \notin Req)
  <2>1. CASE TakeListing
    BY <2>1 DEF TakeListing
  <2>2. CASE InstallListing \/ ListFails \/ EndPass \/ Wake
    BY <1>1, <2>2, WardenAssumption DEF InstallListing, ListFails, EndPass, Wake
  <2>3. CASE Restart
    <3>1. loop \notin Req
      BY <2>3 DEF Restart, QuotaInv, LoopSound, Section
    <3>2. QED
      BY <1>1, <2>3, <3>1 DEF Restart
  <2>4. QED
    BY <2>1, <2>2, <2>3 DEF Reconcile
<1>4. proc' = "down" => proc = "down"
  BY DEF Reconcile, TakeListing, InstallListing, ListFails, EndPass, Wake, Restart
<1>5. LoopSound'
  BY <1>2, <1>3, <1>4 DEF QuotaInv, LoopSound
<1>6. QED
  BY <1>2, <1>5, RecentShrinks, OtherQuota

LEMMA CrashQuota ==
    ASSUME IInv, IInv', QuotaInv, Crash
    PROVE  QuotaInv'
<1>1. Idle.pc = "idle"
  BY DEF Idle, At
<1>2. /\ \A r \in Req : req'[r] = Idle
      /\ loop' = "none" /\ UNCHANGED <<writes, now, branches>>
  BY DEF Crash, dbVars
<1>3. LoopSound'
  BY <1>1, <1>2, WardenAssumption DEF LoopSound, Section
<1>4. PushesFit'
  BY <1>1, <1>2 DEF PushesFit, Pushing
<1>5. ASSUME NEW h \in Listed
      PROVE  WritesLastHour(h)' + Left(h)' + Cardinality(Late(h)')
                 <= Endpoint[h].maxWrites + Cardinality(Req) - 1
  <2>1. Late(h)' = {} /\ Left(h)' = 0
    BY <1>1, <1>2, WardenAssumption DEF Late, Left
  <2>2. WritesLastHour(h)' = WritesLastHour(h) /\ WritesLastHour(h) \in Nat
        /\ Left(h) \in Nat
    BY <1>2, CountersType, LeftType
       DEF WritesLastHour, CountersTyped, Counters, LeftTyped, QuotaInv
  <2>3. WritesLastHour(h)' + Left(h)' <= WritesLastHour(h) + Left(h)
    BY <2>1, <2>2
  <2>4. QED
    BY <1>3, <2>1, <2>3, RateLower DEF QuotaInv, RateSound
<1>6. QED
  BY <1>3, <1>4, <1>5 DEF QuotaInv, RateSound

LEMMA QuotaInit == Init => QuotaInv
<1> SUFFICES ASSUME Init PROVE QuotaInv
  OBVIOUS
<1>1. Idle.pc = "idle" /\ \A r \in Req : req[r] = Idle
  BY DEF Init, Idle, At
<1>2. loop \notin Req /\ proc = "starting"
  BY WardenAssumption DEF Init
<1>3. LoopSound
  BY <1>1, <1>2 DEF LoopSound, Section
<1>4. PushesFit
  BY <1>1 DEF PushesFit, Pushing
<1>5. ASSUME NEW h \in Listed
      PROVE  WritesLastHour(h) + Left(h) + Cardinality(Late(h))
                 <= Endpoint[h].maxWrites + Cardinality(Req) - 1
  <2>1. Late(h) = {} /\ Left(h) = 0
    BY <1>1, <1>2 DEF Late, Left
  <2>2. WritesLastHour(h) = 0 /\ Cardinality(Late(h)) = 0
    <3>1. {w \in writes : w.host = h /\ w.ts > now - Window} = {}
      BY DEF Init
    <3>2. QED
      BY <2>1, <3>1, FS_EmptySet DEF WritesLastHour
  <2>3. Cardinality(Req) \in Nat \ {0} /\ Endpoint[h].maxWrites \in Nat
    BY LateType, LimitsType
  <2>4. QED
    BY <2>1, <2>2, <2>3
<1>6. QED
  BY <1>3, <1>4, <1>5 DEF QuotaInv, RateSound

LEMMA QuotaStep ==
    ASSUME IInv, QuotaInv, [Next]_vars
    PROVE  QuotaInv'
<1> USE NextInv
<1>1. ASSUME NEW r \in Req, Arrive(r)
      PROVE  QuotaInv'
  <2>1. PICK i \in Intents : req' = [req EXCEPT ![r] = At("parse", i, LockedView)]
    BY <1>1 DEF Arrive
  <2>2. At("parse", i, LockedView).pc = "parse"
    BY DEF At
  <2>3. req[r].pc \notin Section /\ proc # "down"
        /\ UNCHANGED <<proc, loop, writes, now, branches>>
    BY <1>1 DEF Arrive, Active, Section, dbVars
  <2>4. QED
    BY <2>1, <2>2, <2>3, SlotMoves DEF Section
<1>2. ASSUME NEW r \in Req, ParseRaises(r) \/ LookupRaises(r) \/ Reply(r) \/ ForwardRaises(r)
      PROVE  QuotaInv'
  <2>1. PICK b : Finish(r, b)
    BY <1>2 DEF ParseRaises, LookupRaises, Reply, ForwardRaises
  <2>2. req[r].pc \notin Section \cup {"idle"}
        /\ UNCHANGED <<proc, loop, writes, now, branches>>
    BY <1>2 DEF ParseRaises, LookupRaises, Reply, ForwardRaises, Section, dbVars
  <2>3. QED
    BY <2>1, <2>2, FinishQuota
<1>3. ASSUME NEW r \in Req, Send(r)
      PROVE  QuotaInv'
  <2> DEFINE s == [req[r] EXCEPT !.pc = "await"]
  <2>1. req[r] \in Slot /\ req' = [req EXCEPT ![r] = s]
    BY <1>3 DEF Send, IInv, TypeOK
  <2>2. s.pc = "await"
    BY <2>1 DEF Slot
  <2>3. req[r].pc \notin Section /\ proc # "down"
        /\ UNCHANGED <<proc, loop, writes, now, branches>>
    BY <1>3 DEF Send, Section, dbVars, QuotaInv, LoopSound
  <2> HIDE DEF s
  <2>4. QED
    BY <2>1, <2>2, <2>3, SlotMoves DEF Section
<1>4. ASSUME NEW r \in Req, Arrive(r) \/ ParseRaises(r) \/ Handler(r)
      PROVE  QuotaInv'
  BY <1>1, <1>2, <1>3, <1>4, GateQuota, LookedUpQuota, RecordRowQuota, AddBranchQuota DEF Handler
<1>5. CASE Reconcile \/ Restart
  BY <1>5, ReconcileQuota
<1>6. CASE Crash
  BY <1>6, CrashQuota
<1>7. ASSUME \/ \E c \in calls : Apply(c) \/ Refuse(c)
             \/ ForgeCleanup \/ Tick \/ UNCHANGED vars
      PROVE  QuotaInv'
  <2>1. /\ UNCHANGED <<proc, loop, req, writes, branches>>
        /\ now' = now \/ now' = now + 1
    BY <1>7 DEF Apply, Refuse, ForgeCleanup, Tick, vars, memVars, dbVars
  <2>2. LoopSound'
    BY <2>1 DEF QuotaInv, LoopSound
  <2>3. QED
    BY <2>1, <2>2, RecentShrinks, OtherQuota
<1>8. QED
  BY <1>4, <1>5, <1>6, <1>7 DEF Next

LEMMA QuotaInvariance == Spec => []QuotaInv
BY QuotaInit, QuotaStep, Invariance, PTL DEF Spec

\* The snapshot that decide uses is stale when enrich awaited the forge in between, and
\* still the hourly ceiling is exceeded by one write at most for every other request
\* that can be in flight.
THEOREM RateOvershoot == Spec => []RateOvershootBounded
<1>1. IInv /\ QuotaInv => RateOvershootBounded
  <2> SUFFICES ASSUME IInv, QuotaInv, NEW h \in Listed
               PROVE  WritesLastHour(h) <= Endpoint[h].maxWrites + Cardinality(Req) - 1
    BY DEF RateOvershootBounded
  <2>1. WritesLastHour(h) \in Nat /\ Left(h) \in Nat /\ Cardinality(Late(h)) \in Nat
        /\ Cardinality(Req) \in Nat
    BY CountersType, LeftType, LateType DEF CountersTyped, Counters, LeftTyped, QuotaInv
  <2>2. WritesLastHour(h) + Left(h) + Cardinality(Late(h))
            <= Endpoint[h].maxWrites + Cardinality(Req) - 1
    BY DEF QuotaInv, RateSound
  <2>3. QED
    BY <2>1, <2>2, LimitsType
<1>2. QED
  BY <1>1, Invariance, QuotaInvariance, PTL

\* A section moves by its own commits only, or the process crashes.
LEMMA SectionMoves ==
    ASSUME IInv, QuotaInv, [Next]_vars, NEW r \in Req, req[r].pc \in Section,
           req'[r].pc = "send"
    PROVE  RecordRow(r) \/ AddBranch(r)
<1>1. loop = r /\ loop # "none" /\ req \in [Req -> Slot]
  BY WardenAssumption DEF QuotaInv, LoopSound, IInv, TypeOK
<1>2. ASSUME NEW q \in Req, q # r, Arrive(q)
      PROVE  FALSE
  <2>1. PICK s : req' = [req EXCEPT ![q] = s]
    BY <1>2 DEF Arrive
  <2>2. QED
    BY <1>1, <1>2, <2>1 DEF Section
<1>3. ASSUME NEW q \in Req, Arrive(q) \/ ParseRaises(q) \/ Handler(q)
      PROVE  RecordRow(r) \/ AddBranch(r)
  <2>1. ~(Arrive(r) \/ ParseRaises(q) \/ Gate(q) \/ LookedUp(q) \/ LookupRaises(q)
          \/ Send(q) \/ Reply(q) \/ ForwardRaises(q))
    BY <1>1 DEF Arrive, Active, ParseRaises, Gate, LookedUp, LookupRaises, Send, Reply,
                ForwardRaises, Section
  <2>2. RecordRow(q) \/ AddBranch(q) => q = r
    BY <1>1 DEF RecordRow, AddBranch
  <2>3. QED
    BY <1>2, <1>3, <2>1, <2>2 DEF Handler
<1>4. ASSUME req' = req \/ Crash
      PROVE  FALSE
  <2>1. Idle.pc = "idle"
    BY DEF Idle, At
  <2>2. QED
    BY <1>4, <2>1 DEF Crash, Section
<1>5. CASE \/ Reconcile \/ ForgeCleanup \/ Restart \/ Tick \/ UNCHANGED vars
           \/ \E c \in calls : Apply(c) \/ Refuse(c)
  BY <1>4, <1>5 DEF Reconcile, TakeListing, InstallListing, ListFails, EndPass, Wake,
                    ForgeCleanup, Restart, Tick, vars, memVars, Apply, Refuse
<1>6. QED
  BY <1>3, <1>4, <1>5 DEF Next

\* A push that is handed to forward has all its commands counted and is within both
\* ceilings, whatever requests were in flight and whatever reconcile installed.
THEOREM PushStaysWithinLimits == Spec => PushWithinLimits
<1>1. ASSUME IInv, QuotaInv, [Next]_vars, NEW r \in Req, Pushing(r), req'[r].pc = "send"
      PROVE  LET i == req[r].intent
                 h == HostOf(i) IN
             /\ WritesLastHour(h)' <= Endpoint[h].maxWrites
             /\ Creates(i) => OpenBranches(h)' <= Endpoint[h].maxBranches
             /\ \A k \in DOMAIN i.cmds : IsCreate(i.cmds[k]) =>
                    <<h, NormalizeProject(i.project), i.cmds[k].ref>> \in branches'
  <2>1. IInv' /\ QuotaInv'
    BY <1>1, NextInv, QuotaStep
  <2>2. RecordRow(r) \/ AddBranch(r)
    BY <1>1, SectionMoves DEF Pushing, Section
  <2>3. PICK t : Stepped(r, t) /\ Fits(t)'
    <3>1. CASE RecordRow(r)
      <4>1. PICK t : /\ Stepped(r, t) /\ Len(t.rows) = Len(req[r].rows) + 1
                     /\ t.intent.op = "receive-pack" =>
                            IF IsCreate(t.intent.cmds[Len(t.rows)])
                            THEN t.pc = "branch" ELSE t.pc # "branch"
        BY <1>1, <3>1, RecordRowSlot
      <4>2. t.intent.op = "receive-pack"
        BY <1>1, <4>1 DEF Stepped, Pushing
      <4>3. QED
        BY <1>1, <2>1, <3>1, <4>1, <4>2, RecordRowFits
    <3>2. CASE AddBranch(r)
      <4>1. PICK t : Stepped(r, t) /\ t.rows = req[r].rows /\ t.pc # "branch"
        BY <1>1, <3>2, AddBranchSlot
      <4>2. QED
        BY <1>1, <2>1, <3>2, <4>1, AddBranchFits
    <3>3. QED
      BY <2>2, <3>1, <3>2
  <2> DEFINE i == t.intent
             h == HostOf(i)
  <2>4. /\ i = req[r].intent /\ i = req'[r].intent
        /\ t.pc = "send" /\ Len(t.rows) = RowCount(i)
        /\ i \in Intents /\ h \in Listed
    BY <1>1, <2>3, SectionType DEF Stepped, Section, Pushing, IInv, TypeOK
  <2>5. /\ Len(t.rows) = Len(i.cmds) /\ Len(i.cmds) \in Nat /\ Added(t) = Len(i.cmds)
        /\ i.cmds \in Seq(Command)
    BY <1>1, <2>4, IntentType DEF Pushing, RowCount, IntentRecord, Added
  <2>6. WritesLastHour(h)' \in Nat /\ OpenBranches(h)' \in Nat
    <3>1. IInv' => CountersTyped'
      BY CountersType, PTL
    <3>2. QED
      BY <2>1, <3>1 DEF CountersTyped, Counters
  <2>7. Cardinality(ToCreate(t)) \in Nat
    <3>1. Added(t) \in Nat /\ Added(t) <= Added(t)
      BY <2>5
    <3>2. QED
      BY <2>4, <3>1, FewerToCreate DEF ToCreate
  <2>8. /\ WritesLastHour(h)' + (Len(i.cmds) - Len(t.rows)) <= Endpoint[h].maxWrites
        /\ Creates(i) => OpenBranches(h)' + Cardinality(ToCreate(t)) <= Endpoint[h].maxBranches
        /\ \A k \in DOMAIN i.cmds : IsCreate(i.cmds[k]) /\ k <= Added(t) =>
               <<h, NormalizeProject(i.project), i.cmds[k].ref>> \in branches'
    BY <2>3 DEF Fits
  <2>9. \A w, n, m \in Nat : /\ w + (n - n) <= m => w <= m
                             /\ w + n <= m => w <= m
    OBVIOUS
  <2>10. \A k \in DOMAIN i.cmds : k <= Added(t)
    BY <2>5
  <2>11. Endpoint[h].maxWrites \in Nat /\ Endpoint[h].maxBranches \in Nat
    BY <2>4, LimitsType
  <2>12. WritesLastHour(h)' <= Endpoint[h].maxWrites
    BY <2>5, <2>6, <2>8, <2>9, <2>11
  <2>13. Creates(i) => OpenBranches(h)' <= Endpoint[h].maxBranches
    BY <2>6, <2>7, <2>8, <2>9, <2>11
  <2> HIDE DEF i, h
  <2>14. QED
    BY <2>4, <2>8, <2>10, <2>12, <2>13 DEF i, h
<1>2. IInv /\ QuotaInv /\ [Next]_vars =>
          [\A r \in Req : LET i == req[r].intent
                              h == HostOf(i) IN
               Pushing(r) /\ req'[r].pc = "send" =>
                   /\ WritesLastHour(h)' <= Endpoint[h].maxWrites
                   /\ Creates(i) => OpenBranches(h)' <= Endpoint[h].maxBranches
                   /\ \A k \in DOMAIN i.cmds : IsCreate(i.cmds[k]) =>
                          <<h, NormalizeProject(i.project), i.cmds[k].ref>> \in branches']_vars
  BY <1>1
<1>3. QED
  BY <1>2, Invariance, QuotaInvariance, PTL DEF Spec, PushWithinLimits
=============================================================================
