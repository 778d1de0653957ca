------------------------------- MODULE Paging -------------------------------
(***************************************************************************)
(* A listing of one project's branches (or merge requests) as reconcile    *)
(* really takes it: page after page, by number, from a forge that goes on  *)
(* changing between two pages.  Module Warden takes listings in one step;  *)
(* here is what that leaves out.                                           *)
(*                                                                         *)
(* The forge's order is that of the numbers that stand for its items.      *)
(***************************************************************************)
EXTENDS Naturals, FiniteSets

CONSTANTS
    Item,       \* everything that may ever exist at the forge
    Own,        \* what is in the agent's namespace
    PerPage,    \* 100 in the code
    MaxChanges  \* bound: creations and deletions during one listing

ASSUME PagingAssumption ==
    /\ Item \subseteq Nat /\ IsFiniteSet(Item) /\ Own \subseteq Item
    /\ PerPage \in Nat \ {0} /\ MaxChanges \in Nat

VARIABLES
    forge,      \* the items that exist
    page,       \* the page to ask for; 0: no listing under way, or all are in
    items,      \* items fetched so far, each with the page it was listed on
    phase,      \* "sleep", "fetch" or "install"
    rows,       \* the table: the items its INSERTs leave, with their pages
    kept,       \* history: items that exist since the listing began
    seen,       \* history: items that existed at some time since it began
    deleted,    \* history: deletions since it began
    changes     \* bound: changes of the forge since it began

listVars == <<page, items, phase>>
pagingVars == <<forge, listVars, rows, kept, seen, deleted, changes>>

Init ==
    /\ forge \in SUBSET Item
    /\ page = 0 /\ items = {} /\ phase = "sleep" /\ rows = {}
    /\ kept = {} /\ seen = {} /\ deleted = 0 /\ changes = 0

Begin ==
    /\ phase = "sleep"
    /\ phase' = "fetch" /\ page' = 1 /\ items' = {}
    /\ kept' = forge /\ seen' = forge /\ deleted' = 0 /\ changes' = 0
    /\ UNCHANGED <<forge, rows>>

\* Where an item of the forge stands in its listing: 1 for the first.
Position(x) == Cardinality({y \in forge : y <= x})

\* The items that page n lists.
PageOf(n) ==
    {[page |-> n, item |-> x] : x \in
        {y \in forge : (n - 1) * PerPage < Position(y) /\ Position(y) <= n * PerPage}}

\* Fault: the first page is taken for the listing.
NextPageNever(n) == 0

\* x-next-page: empty on the last page.
NextPage(n) == IF n * PerPage < Cardinality(forge) THEN n + 1 ELSE 0

\* One turn of get_paginated's loop.
FetchPage ==
    /\ phase = "fetch"
    /\ items' = items \cup PageOf(page)
    /\ page' = NextPage(page)
    /\ phase' = IF NextPage(page) = 0 THEN "install" ELSE "fetch"
    /\ UNCHANGED <<forge, rows, kept, seen, deleted, changes>>

\* Fault: what was listed so far is installed when a page fails.
FetchFailsInstalling ==
    /\ phase = "fetch"
    /\ phase' = "install" /\ page' = 0
    /\ UNCHANGED <<forge, items, rows, kept, seen, deleted, changes>>

\* raise_for_status or the connection: the pass goes on to the next project.
FetchFails ==
    /\ phase = "fetch"
    /\ phase' = "sleep" /\ page' = 0 /\ items' = {}
    /\ kept' = {} /\ seen' = {} /\ deleted' = 0 /\ changes' = 0
    /\ UNCHANGED <<forge, rows>>

\* Fault: without the primary key, an item listed twice makes two rows.
InsertedTwice(s) == s

\* INSERT OR REPLACE by key: of an item listed twice, the later row stays.
Inserted(s) == {a \in s : \A b \in s : b.item = a.item => b.page <= a.page}

\* Fault: every item is taken for the agent's.
MineAll(s) == s

\* The namespace filter of the two guards' listings.
Mine(s) == {a \in s : a.item \in Own}

\* The items of the namespace replace the project's rows.
Install ==
    /\ phase = "install"
    /\ rows' = Inserted(Mine(items))
    /\ phase' = "sleep" /\ items' = {}
    /\ kept' = {} /\ seen' = {} /\ deleted' = 0 /\ changes' = 0
    /\ UNCHANGED <<forge, page>>

Create(x) == x \notin forge /\ forge' = forge \cup {x}
Delete(x) == x \in forge /\ forge' = forge \ {x}

\* The forge, while nothing is being listed.
ChangeUnseen ==
    /\ phase = "sleep"
    /\ \E x \in Item : Create(x) \/ Delete(x)
    /\ UNCHANGED <<listVars, rows, kept, seen, deleted, changes>>

\* The forge, between two pages or before the rows are installed.
ChangeUnderway ==
    /\ phase # "sleep" /\ changes < MaxChanges
    /\ changes' = changes + 1
    /\ \E x \in Item :
          \/ Create(x) /\ seen' = seen \cup {x} /\ UNCHANGED <<kept, deleted>>
          \/ Delete(x) /\ kept' = kept \ {x} /\ deleted' = deleted + 1 /\ UNCHANGED seen
    /\ UNCHANGED <<listVars, rows>>

Next == Begin \/ FetchPage \/ FetchFails \/ Install \/ ChangeUnseen \/ ChangeUnderway

Spec == Init /\ [][Next]_pagingVars

\* The loop sleeps for reconcile_interval_s only, and requests end by their answer
\* or the client's timeout.
FairSpec == Spec /\ WF_pagingVars(Begin) /\ WF_pagingVars(FetchPage \/ FetchFails)
                 /\ WF_pagingVars(Install)
-----------------------------------------------------------------------------
(* Properties.                                                             *)

Keys(answers) == {a.item : a \in answers}

TypeOK ==
    /\ forge \in SUBSET Item /\ page \in Nat /\ items \subseteq [page : Nat, item : Item]
    /\ phase \in {"sleep", "fetch", "install"}
    /\ rows \subseteq [page : Nat, item : Own] /\ kept \subseteq forge /\ seen \subseteq Item
    /\ deleted \in Nat /\ changes \in Nat

\* "Without this a project with >100 agent branches/MRs would only count the first
\* page, undercount the quota, and wrongly allow further writes": also page by page
\* an item can slip to a page already read, but the counter misses no more of the
\* agent's items that existed throughout than were deleted meanwhile, whoever's
\* they were; when nothing is deleted it misses none (get_paginated, replace_*).
UndercountBounded ==
    [][Install => Cardinality((kept \cap Own) \ Keys(rows')) <= deleted]_pagingVars

\* The counter never exceeds the items of the agent that existed while it was
\* counted: an item pushed to a later page and listed again counts once
\* (PRIMARY KEY, INSERT OR REPLACE).
NeverOvercounts == [][Install => Cardinality(rows') <= Cardinality(seen \cap Own)]_pagingVars

Quiet == <>[][UNCHANGED forge]_pagingVars
Answered == <>[][~FetchFails]_pagingVars

\* Once the forge is quiet and answers, the counter is true and stays so: no page is
\* asked for twice for ever, and what earlier listings missed comes back.
CounterTrueInTheEnd == Quiet /\ Answered => <>[](Keys(rows) = Own \cap forge)
=============================================================================
