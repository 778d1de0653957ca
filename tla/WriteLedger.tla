----------------------------- MODULE WriteLedger -----------------------------
(***************************************************************************)
(* What the quota store promises about writes, whatever guards, pushes,    *)
(* reconciles and restarts do with it: a ledger.  A write to the forge is  *)
(* paid for with entries of its host that were charged before and that no  *)
(* other write was paid with; an entry leaves the ledger by age only.      *)
(***************************************************************************)
EXTENDS Naturals

CONSTANTS Account, Window

VARIABLES
    entries,    \* [id, ts, account]
    nextId,
    payments,   \* the sets of entries that writes were paid with
    now

ledgerVars == <<entries, nextId, payments, now>>

Init == entries = {} /\ nextId = 1 /\ payments = {} /\ now = 0

Charge ==
    /\ \E a \in Account :
          entries' = entries \cup {[id |-> nextId, ts |-> now, account |-> a]}
    /\ nextId' = nextId + 1
    /\ UNCHANGED <<payments, now>>

Expired(e) == e.ts < now - Window

\* payment stands for the entries of one write, charged and not spent yet.
Spend ==
    /\ \E payment \in payments' :
          /\ payments' = payments \cup {payment}
          /\ payment # {} /\ payment \cap UNION payments = {}
          /\ \A d, e \in payment : d.account = e.account
          /\ \A e \in payment : e \in entries \/ Expired(e)
    /\ UNCHANGED <<entries, nextId, now>>

Expire ==
    /\ entries' \subseteq entries
    /\ \A e \in entries \ entries' : Expired(e)
    /\ UNCHANGED <<nextId, payments, now>>

Tick == now' = now + 1 /\ UNCHANGED <<entries, nextId, payments>>

Next == Charge \/ Spend \/ Expire \/ Tick

Spec == Init /\ [][Next]_ledgerVars
=============================================================================
