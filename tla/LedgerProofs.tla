---------------------------- MODULE LedgerProofs ----------------------------
(***************************************************************************)
(* The Warden keeps the ledger of WriteLedger, for every configuration,    *)
(* any number of requests in flight, and any agent.                        *)
(*                                                                         *)
(* That an entry pays for one write only needs an invariant of its own:    *)
(* the rows a request has recorded and not yet sent are nobody else's,     *)
(* neither another request's nor those of a write already sent.            *)
(***************************************************************************)
EXTENDS WardenProofs

Unspent == {"record", "branch", "send"}

Ids(rows) == {rows[k].id : k \in DOMAIN rows}

CallIds == UNION {Ids(c.rows) : c \in calls}

Owned ==
    /\ \A n \in CallIds : n < nextRow
    /\ \A q \in Req : req[q].pc \in Unspent => Ids(req[q].rows) \cap CallIds = {}
    /\ \A q, r \in Req : q # r /\ req[q].pc \in Unspent /\ req[r].pc \in Unspent =>
           Ids(req[q].rows) \cap Ids(req[r].rows) = {}

\* A slot's unspent rows are those it had, or none.
Keeps(r) ==
    req'[r].pc \in Unspent =>
        \/ req'[r].rows = <<>>
        \/ req[r].pc \in Unspent /\ req'[r].rows = req[r].rows

QuietLedger ==
    /\ UNCHANGED <<writes, nextRow, now>>
    /\ \A r \in Req : Keeps(r)
    /\ {c.rows : c \in calls'} = {c.rows : c \in calls}
-----------------------------------------------------------------------------
(* Every step but four is quiet.                                           *)

LEMMA OneSlot ==
    ASSUME req \in [Req -> Slot], NEW r \in Req, NEW s, req' = [req EXCEPT ![r] = s],
           s.pc \notin Unspent \/ s.rows = <<>> \/ (req[r].pc \in Unspent /\ s.rows = req[r].rows)
    PROVE  \A q \in Req : Keeps(q)
BY DEF Keeps

LEMMA ConcludeKeeps ==
    ASSUME req \in [Req -> Slot], NEW r \in Req, NEW view, NEW ok, Conclude(r, view, ok)
    PROVE  \A q \in Req : Keeps(q)
BY OneSlot DEF Conclude, Finish, At, Unspent

LEMMA AdvanceKeeps ==
    ASSUME req \in [Req -> Slot], NEW r \in Req, req[r].pc \in Unspent, Advance(r, req[r])
    PROVE  \A q \in Req : Keeps(q)
<1>1. req[r] \in Slot
  OBVIOUS
<1>2. ASSUME NEW p \in Unspent, req' = [req EXCEPT ![r] = [req[r] EXCEPT !.pc = p]]
      PROVE  \A q \in Req : Keeps(q)
  <2> DEFINE s == [req[r] EXCEPT !.pc = p]
  <2>1. s.rows = req[r].rows
    BY <1>1 DEF Slot
  <2>2. req' = [req EXCEPT ![r] = s]
    BY <1>2
  <2> HIDE DEF s
  <2>3. QED
    BY <2>1, <2>2, OneSlot
<1>3. \/ req' = [req EXCEPT ![r] = [req[r] EXCEPT !.pc = "record"]]
      \/ req' = [req EXCEPT ![r] = [req[r] EXCEPT !.pc = "send"]]
  BY DEF Advance
<1>4. QED
  BY <1>2, <1>3 DEF Unspent

LEMMA SlotQuiet ==
    ASSUME IInv, NEW r \in Req,
           \/ Arrive(r) \/ ParseRaises(r) \/ Gate(r) \/ LookedUp(r) \/ LookupRaises(r)
           \/ AddBranch(r) \/ Reply(r) \/ ForwardRaises(r)
    PROVE  QuietLedger
<1>1. req \in [Req -> Slot]
  BY DEF IInv, TypeOK
<1>2. UNCHANGED <<writes, nextRow, now, calls>>
  BY DEF Arrive, ParseRaises, Gate, LookedUp, LookupRaises, AddBranch, Reply, ForwardRaises,
         dbVars
<1>3. ASSUME ParseRaises(r) \/ LookupRaises(r) \/ Reply(r) \/ ForwardRaises(r)
      PROVE  \A q \in Req : Keeps(q)
  BY <1>1, <1>3, OneSlot DEF ParseRaises, LookupRaises, Reply, ForwardRaises, Finish, At, Unspent
<1>4. ASSUME Arrive(r)
      PROVE  \A q \in Req : Keeps(q)
  BY <1>1, <1>4, OneSlot DEF Arrive, At, Unspent
<1>5. ASSUME Gate(r)
      PROVE  \A q \in Req : Keeps(q)
  <2>1. ASSUME NEW i, NEW view, req' = [req EXCEPT ![r] = At("lookup", i, view)]
        PROVE  \A q \in Req : Keeps(q)
    BY <1>1, <2>1, OneSlot DEF At, Unspent
  <2>2. ASSUME Finish(r, TRUE)
        PROVE  \A q \in Req : Keeps(q)
    BY <1>1, <2>2, OneSlot DEF Finish, At, Unspent
  <2>3. QED
    BY <1>1, <1>5, <2>1, <2>2, ConcludeKeeps DEF Gate
<1>6. ASSUME LookedUp(r)
      PROVE  \A q \in Req : Keeps(q)
  BY <1>1, <1>6, ConcludeKeeps DEF LookedUp
<1>7. ASSUME AddBranch(r)
      PROVE  \A q \in Req : Keeps(q)
  BY <1>1, <1>7, AdvanceKeeps DEF AddBranch, Unspent
<1>8. QED
  BY <1>2, <1>3, <1>4, <1>5, <1>6, <1>7 DEF QuietLedger

LEMMA AnswerQuiet ==
    ASSUME IInv, NEW c \in calls, NEW status, Answer(c, status)
    PROVE  {x.rows : x \in calls'} = {x.rows : x \in calls}
<1> DEFINE d == [c EXCEPT !.status = status]
<1>1. c \in Call
  BY DEF IInv, TypeOK
<1>2. d.rows = c.rows
  BY <1>1 DEF Call
<1>3. calls' = (calls \ {c}) \cup {d}
  BY DEF Answer
<1> HIDE DEF d
<1>4. QED
  BY <1>2, <1>3

LEMMA OtherQuiet ==
    ASSUME IInv,
           \/ TakeListing \/ InstallListing \/ ListFails \/ EndPass
           \/ \E c \in calls : Apply(c) \/ Refuse(c)
           \/ ForgeCleanup \/ Crash \/ Restart \/ UNCHANGED vars
    PROVE  QuietLedger
<1>1. ASSUME req' = req
      PROVE  \A q \in Req : Keeps(q)
  BY <1>1 DEF Keeps
<1>2. ASSUME NEW c \in calls, Apply(c) \/ Refuse(c)
      PROVE  QuietLedger
  BY <1>1, <1>2, AnswerQuiet DEF Apply, Refuse, memVars, dbVars, QuietLedger
<1>3. ASSUME Crash
      PROVE  QuietLedger
  <2>1. \A q \in Req : Keeps(q)
    BY <1>3 DEF Crash, Keeps, Idle, At, Unspent
  <2>2. QED
    BY <1>3, <2>1 DEF Crash, QuietLedger, dbVars
<1>4. ASSUME \/ TakeListing \/ InstallListing \/ ListFails \/ EndPass
             \/ ForgeCleanup \/ Restart \/ UNCHANGED vars
      PROVE  QuietLedger
  <2>1. UNCHANGED <<req, writes, nextRow, now, calls>>
    BY <1>4 DEF TakeListing, InstallListing, ListFails, EndPass, ForgeCleanup, Restart, vars,
                memVars, dbVars
  <2>2. QED
    BY <1>1, <2>1 DEF QuietLedger
<1>5. QED
  BY <1>2, <1>3, <1>4

\* The steps of the ledger, and all others.
LEMMA Steps ==
    ASSUME IInv, [Next]_vars
    PROVE  \/ \E r \in Req : RecordRow(r) \/ Send(r)
           \/ Wake \/ Tick \/ QuietLedger
BY SlotQuiet, OtherQuiet DEF Next, Handler, Reconcile
-----------------------------------------------------------------------------
(* No row has two owners.                                                  *)

LEMMA CallIdsKept ==
    ASSUME {c.rows : c \in calls'} = {c.rows : c \in calls}
    PROVE  CallIds' = CallIds
<1>1. CallIds = UNION {Ids(rows) : rows \in {c.rows : c \in calls}}
  BY DEF CallIds
<1>2. CallIds' = UNION {Ids(rows) : rows \in {c.rows : c \in calls'}}
  BY DEF CallIds
<1>3. QED
  BY <1>1, <1>2

LEMMA NoIds == Ids(<<>>) = {}
BY DEF Ids

LEMMA OwnedQuiet ==
    ASSUME Owned, \A r \in Req : Keeps(r), CallIds' = CallIds, nextRow' = nextRow
    PROVE  Owned'
<1>1. \A r \in Req : req'[r].pc \in Unspent =>
          \/ Ids(req'[r].rows) = {}
          \/ req[r].pc \in Unspent /\ Ids(req'[r].rows) = Ids(req[r].rows)
  BY NoIds DEF Keeps
<1>2. QED
  BY <1>1 DEF Owned

\* Numbers of unspent rows are below the next one.
LEMMA UnspentBelow ==
    ASSUME IInv, NEW r \in Req, req[r].pc \in Unspent
    PROVE  \A n \in Ids(req[r].rows) : n < nextRow
<1>1. Begun(req[r].intent, req[r].rows, writes, now, nextRow) /\ req[r].rows \in Seq(Row)
  BY DEF IInv, TypeOK, Slot, SlotsSound, Sound, Admitted, InSection, Unspent
<1>2. DOMAIN req[r].rows = 1 .. Len(req[r].rows)
  BY <1>1
<1>3. QED
  BY <1>1, <1>2 DEF Ids, Begun

LEMMA OwnedRecord ==
    ASSUME IInv, Owned, NEW r \in Req, RecordRow(r)
    PROVE  Owned'
<1> DEFINE i == req[r].intent
           w == NewRow(i, Len(req[r].rows) + 1)
<1>1. /\ req \in [Req -> Slot] /\ req[r] \in Slot /\ req[r].rows \in Seq(Row)
      /\ nextRow \in Nat /\ req[r].pc \in Unspent
  BY DEF IInv, TypeOK, Slot, RecordRow, Unspent
<1>2. nextRow' = nextRow + 1 /\ calls' = calls /\ w.id = nextRow
  BY DEF RecordRow, RecordWrite, NewRow
<1>3. \E s : req' = [req EXCEPT ![r] = s] /\ s.rows = Append(req[r].rows, w)
  <2> DEFINE rec == [req[r] EXCEPT !.rows = Append(@, w)]
  <2>1. \A p \in Unspent : [rec EXCEPT !.pc = p].rows = Append(req[r].rows, w)
    BY <1>1 DEF Slot
  <2>2. \/ req' = [req EXCEPT ![r] = [rec EXCEPT !.pc = "branch"]]
        \/ req' = [req EXCEPT ![r] = [rec EXCEPT !.pc = "record"]]
        \/ req' = [req EXCEPT ![r] = [rec EXCEPT !.pc = "send"]]
    <3>1. CASE i.op = "receive-pack" /\ IsCreate(i.cmds[Len(req[r].rows) + 1])
      BY <3>1 DEF RecordRow
    <3>2. CASE ~(i.op = "receive-pack" /\ IsCreate(i.cmds[Len(req[r].rows) + 1]))
      <4>1. Advance(r, rec)
        BY <3>2 DEF RecordRow
      <4> HIDE DEF rec
      <4>2. QED
        BY <4>1 DEF Advance
    <3>3. QED
      BY <3>1, <3>2
  <2> HIDE DEF rec, w
  <2>3. QED
    BY <2>1, <2>2 DEF Unspent
<1>4. Ids(Append(req[r].rows, w)) = Ids(req[r].rows) \cup {nextRow}
  <2> DEFINE rows == req[r].rows
             more == Append(rows, w)
  <2>1. /\ DOMAIN more = DOMAIN rows \cup {Len(rows) + 1}
        /\ \A k \in DOMAIN rows : more[k] = rows[k]
        /\ more[Len(rows) + 1] = w
    BY <1>1
  <2> HIDE DEF more, rows, w
  <2>2. Ids(more) = Ids(rows) \cup {nextRow}
    <3>1. Ids(more) = {more[k].id : k \in DOMAIN rows} \cup {w.id}
      BY <2>1 DEF Ids
    <3>2. QED
      BY <1>2, <2>1, <3>1 DEF Ids
  <2>3. QED
    BY <2>2 DEF more, rows
<1>5. Ids(req'[r].rows) = Ids(req[r].rows) \cup {nextRow}
  BY <1>1, <1>3, <1>4
<1>6. \A q \in Req \ {r} : req'[q] = req[q]
  BY <1>1, <1>3
<1>7. CallIds' = CallIds
  BY <1>2 DEF CallIds
<1>8. \A q \in Req : req[q].pc \in Unspent => nextRow \notin Ids(req[q].rows)
  BY <1>1, UnspentBelow
<1>9. nextRow \notin CallIds /\ \A n \in CallIds : n < nextRow'
  <2>1. \A n \in CallIds : n \in Nat
    <3>1. \A c \in calls : c.rows \in Seq(Row) /\ \A v \in Row : v.id \in Nat
      BY DEF IInv, TypeOK, Call, Row
    <3>2. QED
      BY <3>1 DEF CallIds, Ids
  <2>2. QED
    BY <1>1, <1>2, <2>1 DEF Owned
<1>10. \A q \in Req : req'[q].pc \in Unspent =>
           /\ req[q].pc \in Unspent
           /\ Ids(req'[q].rows) = IF q = r THEN Ids(req[q].rows) \cup {nextRow}
                                  ELSE Ids(req[q].rows)
  BY <1>1, <1>5, <1>6
<1> HIDE DEF i, w
<1>11. ASSUME NEW q \in Req, req'[q].pc \in Unspent
       PROVE  Ids(req'[q].rows) \cap CallIds' = {}
  BY <1>7, <1>9, <1>10, <1>11 DEF Owned
<1>12. ASSUME NEW q \in Req, NEW u \in Req, q # u, req'[q].pc \in Unspent, req'[u].pc \in Unspent
       PROVE  Ids(req'[q].rows) \cap Ids(req'[u].rows) = {}
  BY <1>8, <1>10, <1>12 DEF Owned
<1>13. QED
  BY <1>7, <1>9, <1>11, <1>12 DEF Owned

LEMMA OwnedSend ==
    ASSUME IInv, Owned, NEW r \in Req, Send(r)
    PROVE  Owned'
<1>1. /\ req \in [Req -> Slot] /\ req[r].pc \in Unspent /\ nextRow' = nextRow
      /\ req' = [req EXCEPT ![r].pc = "await"]
  BY DEF IInv, TypeOK, Send, Unspent, dbVars
<1>2. CallIds' = CallIds \cup Ids(req[r].rows)
  <2> DEFINE c == [intent |-> req[r].intent, rows |-> req[r].rows, status |-> "sent"]
  <2>1. calls' = calls \cup {c} /\ c.rows = req[r].rows
    BY DEF Send
  <2> HIDE DEF c
  <2>2. QED
    BY <2>1 DEF CallIds
<1>3. req'[r].pc \notin Unspent /\ \A q \in Req \ {r} : req'[q] = req[q]
  BY <1>1 DEF Unspent, Slot
<1>4. \A n \in Ids(req[r].rows) : n < nextRow
  BY <1>1, UnspentBelow
<1>5. QED
  BY <1>1, <1>2, <1>3, <1>4 DEF Owned

LEMMA OwnedStep ==
    ASSUME IInv, Owned, [Next]_vars
    PROVE  Owned'
<1>1. CASE \E r \in Req : RecordRow(r) \/ Send(r)
  BY <1>1, OwnedRecord, OwnedSend
<1>2. CASE Wake \/ Tick
  BY <1>2 DEF Wake, Tick, memVars, dbVars, Owned, CallIds
<1>3. CASE QuietLedger
  BY <1>3, CallIdsKept, OwnedQuiet DEF QuietLedger
<1>4. QED
  BY <1>1, <1>2, <1>3, Steps

LEMMA OwnedInit == Init => Owned
BY DEF Init, Owned, CallIds, Idle, At, Unspent
-----------------------------------------------------------------------------
(* The steps of the ledger.                                                *)

Entries == {Entry(w) : w \in writes}

Payment(rows) == {Entry(rows[k]) : k \in DOMAIN rows}

Payments == {Payment(c.rows) : c \in calls}

LEMMA Charges ==
    ASSUME IInv, NEW r \in Req, RecordRow(r)
    PROVE  Ledger!Charge
<1> DEFINE i == req[r].intent
           w == NewRow(i, Len(req[r].rows) + 1)
<1>1. writes' = writes \cup {w} /\ nextRow' = nextRow + 1 /\ UNCHANGED <<calls, now>>
  BY DEF RecordRow, RecordWrite
<1>2. Entry(w) = [id |-> nextRow, ts |-> now, account |-> HostOf(i)]
  BY DEF Entry, NewRow
<1>3. HostOf(i) \in Host
  BY IntentType DEF IInv, TypeOK, Slot
<1>4. Entries' = Entries \cup {Entry(w)}
  <2> HIDE DEF w
  <2>1. QED
    BY <1>1 DEF Entries
<1>5. QED
  BY <1>1, <1>2, <1>3, <1>4 DEF Ledger!Charge, Entries

\* A write that is sent has a row, and rows of its host.
LEMMA Spends ==
    ASSUME IInv, Owned, NEW r \in Req, Send(r)
    PROVE  Ledger!Spend
<1> DEFINE i == req[r].intent
           rows == req[r].rows
<1>1. /\ rows \in Seq(Row) /\ i \in Intents /\ req[r].pc \in Unspent
      /\ Admitted(req[r], writes, now, nextRow, latch) /\ Len(rows) = RowCount(i)
  BY DEF IInv, TypeOK, Slot, SlotsSound, Sound, InSection, Send, Unspent
<1>2. DOMAIN rows = 1 .. Len(rows) /\ Len(rows) \in Nat
  BY <1>1
<1>3. Len(rows) >= 1
  <2>1. i.op = "receive-pack" => i.cmds # <<>>
    <3>1. i.op = "receive-pack" /\ i.cmds = <<>> => Recognized(i) = {}
      BY <1>1, IntentType DEF Recognized, GitActions, GitOp
    <3>2. QED
      BY <1>1, <3>1 DEF Admitted, Cleared
  <2>2. i.cmds \in Seq(Command)
    BY <1>1, IntentType DEF IntentRecord
  <2>3. QED
    BY <1>1, <2>1, <2>2 DEF RowCount
<1>4. /\ UNCHANGED <<writes, nextRow, now>>
      /\ calls' = calls \cup {[intent |-> i, rows |-> rows, status |-> "sent"]}
  BY DEF Send, dbVars
<1>5. Payments' = Payments \cup {Payment(rows)}
  <2> DEFINE c == [intent |-> i, rows |-> rows, status |-> "sent"]
  <2>1. calls' = calls \cup {c} /\ c.rows = rows
    BY <1>4
  <2> HIDE DEF c
  <2>2. QED
    BY <2>1 DEF Payments
<1>6. Payment(rows) # {}
  BY <1>2, <1>3 DEF Payment
<1>7. Payment(rows) \cap UNION Payments = {}
  <2>1. \A e \in Payment(rows) : e.id \in Ids(rows)
    BY DEF Payment, Entry, Ids
  <2>2. \A e \in UNION Payments : e.id \in CallIds
    BY DEF Payments, Payment, Entry, Ids, CallIds
  <2>3. Ids(rows) \cap CallIds = {}
    BY <1>1 DEF Owned
  <2>4. QED
    BY <2>1, <2>2, <2>3
<1>8. \A e \in Payment(rows) : e.account = HostOf(i)
  BY <1>1, <1>2 DEF Payment, Entry, Admitted, Begun
<1>9. \A e \in Payment(rows) : e \in Entries \/ Ledger!Expired(e)
  BY <1>1, <1>2 DEF Payment, Entry, Entries, Admitted, Begun, KeptIn, Ledger!Expired
<1>10. Payments = {{Entry(c.rows[k]) : k \in DOMAIN c.rows} : c \in calls}
  BY DEF Payments, Payment
<1>11. Payments' = {{Entry(c.rows[k]) : k \in DOMAIN c.rows} : c \in calls}'
  BY DEF Payments, Payment
<1>12. Entries' = Entries
  BY <1>4 DEF Entries
<1> DEFINE payment == Payment(rows)
<1> HIDE DEF payment, rows, i
<1>13. QED
  BY <1>4, <1>5, <1>6, <1>7, <1>8, <1>9, <1>10, <1>11, <1>12 DEF Ledger!Spend, Entries, payment

LEMMA Expires ==
    ASSUME IInv, Wake
    PROVE  Ledger!Expire
<1>1. /\ writes' = {w \in writes : w.ts >= now - Window} /\ UNCHANGED <<nextRow, now, calls>>
      /\ writes \subseteq Row /\ now \in Nat
  BY DEF Wake, Prune, IInv, TypeOK
<1>2. \A w \in Row : w.ts \in Nat
  BY DEF Row
<1>3. Entries' \subseteq Entries
  BY <1>1 DEF Entries
<1>4. \A e \in Entries \ Entries' : Ledger!Expired(e)
  <2>1. \A w \in writes \ writes' : w.ts < now - Window
    BY <1>1, <1>2, WardenAssumption
  <2>2. QED
    BY <2>1 DEF Entries, Entry, Ledger!Expired
<1>5. QED
  BY <1>1, <1>3, <1>4 DEF Ledger!Expire, Entries

LEMMA LedgerStep ==
    ASSUME IInv, Owned, [Next]_vars
    PROVE  [Ledger!Next]_(Ledger!ledgerVars)
<1>1. CASE \E r \in Req : RecordRow(r) \/ Send(r)
  BY <1>1, Charges, Spends DEF Ledger!Next
<1>2. CASE Wake
  BY <1>2, Expires DEF Ledger!Next
<1>3. CASE Tick
  BY <1>3 DEF Tick, dbVars, Ledger!Next, Ledger!Tick
<1>4. CASE QuietLedger
  <2>1. Payments = {Payment(rows) : rows \in {c.rows : c \in calls}}
    BY DEF Payments
  <2>2. Payments' = {Payment(rows) : rows \in {c.rows : c \in calls'}}
    BY DEF Payments
  <2>3. Payments' = Payments
    BY <1>4, <2>1, <2>2 DEF QuietLedger
  <2>4. QED
    BY <1>4, <2>3 DEF QuietLedger, Ledger!ledgerVars, Payments, Payment
<1>5. QED
  BY <1>1, <1>2, <1>3, <1>4, Steps

LEMMA LedgerInit == Init => Ledger!Init
BY DEF Init, Ledger!Init

\* The guards, their pushes and requests in flight, prune, reconcile and restarts keep
\* one ledger: each write is paid with entries of its own, and entries go by age only.
THEOREM LedgerKept == Spec => KeepsLedger
<1>1. Spec => []Owned
  BY OwnedInit, OwnedStep, Invariance, PTL DEF Spec
<1>2. QED
  BY <1>1, LedgerInit, LedgerStep, Invariance, PTL DEF Spec, KeepsLedger, Ledger!Spec
=============================================================================
