---------------------------- MODULE PagingProofs ----------------------------
(***************************************************************************)
(* A listing by page numbers from a changing forge: what it can miss and   *)
(* what it counts, for every page size, every namespace and any number of  *)
(* changes.                                                                *)
(*                                                                         *)
(* The heart is PassedOver: what lies before the page to ask for and was   *)
(* not listed slipped there, one item at most for each deletion.           *)
(***************************************************************************)
EXTENDS Paging, FiniteSetTheorems, WellFoundedInduction, TLAPS

\* What lies before position n and was not listed.
Missed(n) == {x \in kept : Position(x) <= n} \ Keys(items)

PassedOver ==
    /\ phase = "fetch" =>
           page \in Nat \ {0} /\ Cardinality(Missed((page - 1) * PerPage)) <= deleted
    /\ phase = "install" => Cardinality(kept \ Keys(items)) <= deleted
    /\ phase = "sleep" => kept = {}

\* While a listing is under way, all that exists and all that was listed was seen.
SeenSound == phase # "sleep" => forge \subseteq seen /\ Keys(items) \subseteq seen

PagingInv == TypeOK /\ IsFiniteSet(items) /\ PassedOver /\ SeenSound
-----------------------------------------------------------------------------
(* Positions.                                                              *)

Before(S, x) == {y \in S : y <= x}

LEMMA BeforeType ==
    ASSUME NEW S \in SUBSET Item, NEW x
    PROVE  /\ IsFiniteSet(S) /\ IsFiniteSet(Before(S, x))
           /\ Cardinality(S) \in Nat /\ Cardinality(Before(S, x)) \in Nat
           /\ Cardinality(Before(S, x)) <= Cardinality(S)
           /\ x \in S => Cardinality(Before(S, x)) >= 1
<1>1. IsFiniteSet(S) /\ Before(S, x) \in SUBSET S
  BY PagingAssumption, FS_Subset DEF Before
<1>2. /\ IsFiniteSet(Before(S, x)) /\ Cardinality(Before(S, x)) <= Cardinality(S)
      /\ Cardinality(S) \in Nat /\ Cardinality(Before(S, x)) \in Nat
  BY <1>1, FS_Subset, FS_CardinalityType
<1>3. ASSUME x \in S
      PROVE  Cardinality(Before(S, x)) >= 1
  <2>1. x \in Before(S, x)
    BY <1>3, PagingAssumption DEF Before
  <2>2. Cardinality(Before(S, x)) # 0
    BY <1>2, <2>1, FS_EmptySet
  <2>3. QED
    BY <1>2, <2>2
<1>4. QED
  BY <1>1, <1>2, <1>3

\* Two items never stand in the same place.
LEMMA PositionsDiffer ==
    ASSUME NEW S \in SUBSET Item, NEW x \in S, NEW y \in S,
           Cardinality(Before(S, x)) = Cardinality(Before(S, y))
    PROVE  x = y
<1>1. ASSUME NEW a \in S, NEW b \in S, a < b
      PROVE  Cardinality(Before(S, a)) < Cardinality(Before(S, b))
  <2>1. Before(S, a) \in SUBSET (Before(S, b) \ {b}) /\ b \in Before(S, b)
    <3>1. a \in Nat /\ b \in Nat /\ \A v \in S : v \in Nat
      BY PagingAssumption
    <3>2. \A v \in Before(S, a) : v \in S /\ v <= b /\ v # b
      BY <1>1, <3>1 DEF Before
    <3>3. b \in Before(S, b)
      BY <3>1 DEF Before
    <3>4. Before(S, a) \subseteq Before(S, b) /\ b \notin Before(S, a)
      BY <3>2 DEF Before
    <3>5. QED
      BY <3>3, <3>4
  <2>2. /\ IsFiniteSet(Before(S, b) \ {b})
        /\ Cardinality(Before(S, b) \ {b}) = Cardinality(Before(S, b)) - 1
    BY <2>1, BeforeType, FS_RemoveElement
  <2>3. Cardinality(Before(S, a)) <= Cardinality(Before(S, b) \ {b})
    BY <2>1, <2>2, FS_Subset
  <2>4. QED
    BY <2>2, <2>3, BeforeType
<1>2. ~(x < y) /\ ~(y < x)
  <2>1. /\ Cardinality(Before(S, x)) \in Nat /\ Cardinality(Before(S, y)) \in Nat
    BY BeforeType
  <2>2. QED
    BY <1>1, <2>1
<1>3. QED
  BY <1>2, PagingAssumption

\* A creation moves no item forward, a deletion by one place at most.
LEMMA PositionMoves ==
    ASSUME NEW S \in SUBSET Item, NEW x \in Item, NEW y
    PROVE  /\ Cardinality(Before(S, y)) <= Cardinality(Before(S \cup {x}, y))
           /\ Cardinality(Before(S, y)) <= Cardinality(Before(S \ {x}, y)) + 1
<1>1. S \cup {x} \in SUBSET Item /\ S \ {x} \in SUBSET Item
  OBVIOUS
<1>2. Before(S, y) \in SUBSET Before(S \cup {x}, y)
  BY DEF Before
<1>3. Before(S, y) \in SUBSET (Before(S \ {x}, y) \cup {x})
  BY DEF Before
<1>4. /\ IsFiniteSet(Before(S \ {x}, y) \cup {x})
      /\ Cardinality(Before(S \ {x}, y) \cup {x}) =
             IF x \in Before(S \ {x}, y) THEN Cardinality(Before(S \ {x}, y))
             ELSE Cardinality(Before(S \ {x}, y)) + 1
  BY <1>1, BeforeType, FS_AddElement
<1>5. /\ Cardinality(Before(S, y)) <= Cardinality(Before(S \cup {x}, y))
      /\ Cardinality(Before(S, y)) <= Cardinality(Before(S \ {x}, y) \cup {x})
  BY <1>1, <1>2, <1>3, <1>4, BeforeType, FS_Subset
<1>6. Cardinality(Before(S, y)) \in Nat /\ Cardinality(Before(S \ {x}, y)) \in Nat
  BY <1>1, BeforeType
<1>7. QED
  BY <1>4, <1>5, <1>6
-----------------------------------------------------------------------------
(* The steps.                                                              *)

LEMMA PositionIs ==
    ASSUME TypeOK, NEW x
    PROVE  /\ Position(x) = Cardinality(Before(forge, x)) /\ Position(x) \in Nat
           /\ x \in forge => Position(x) >= 1 /\ Position(x) <= Cardinality(forge)
<1>1. forge \in SUBSET Item
  BY DEF TypeOK
<1>2. Position(x) = Cardinality(Before(forge, x))
  BY DEF Position, Before
<1>3. QED
  BY <1>1, <1>2, BeforeType

\* Answers with different items are no more than the items.
LEMMA KeysCount ==
    ASSUME NEW answers, NEW keys, IsFiniteSet(keys), Keys(answers) \subseteq keys,
           \A a, b \in answers : a.item = b.item => a = b
    PROVE  IsFiniteSet(answers) /\ Cardinality(answers) <= Cardinality(keys)
<1> DEFINE f == [a \in answers |-> a.item]
<1>1. f \in Injection(answers, keys)
  BY DEF Injection, IsInjective, Keys
<1>2. QED
  BY <1>1, FS_Injection

LEMMA PageType ==
    ASSUME TypeOK, NEW n \in Nat
    PROVE  PageOf(n) \subseteq [page : Nat, item : forge] /\ IsFiniteSet(PageOf(n))
<1>1. PageOf(n) \subseteq [page : Nat, item : forge]
  BY DEF PageOf
<1>2. \A a, b \in PageOf(n) : a.item = b.item => a = b
  BY DEF PageOf
<1>3. Keys(PageOf(n)) \subseteq forge /\ IsFiniteSet(forge)
  BY <1>1, BeforeType DEF Keys, TypeOK
<1>4. QED
  BY <1>1, <1>2, <1>3, KeysCount

LEMMA MissedType ==
    ASSUME TypeOK, NEW n
    PROVE  IsFiniteSet(Missed(n)) /\ Cardinality(Missed(n)) \in Nat
           /\ IsFiniteSet(kept) /\ Missed(n) \subseteq kept
<1>1. IsFiniteSet(kept) /\ Missed(n) \in SUBSET kept
  BY PagingAssumption, FS_Subset DEF TypeOK, Missed
<1>2. QED
  BY <1>1, FS_Subset, FS_CardinalityType

LEMMA PagingInit == Init => PagingInv
BY FS_EmptySet DEF Init, PagingInv, TypeOK, PassedOver, SeenSound

LEMMA BeginStep ==
    ASSUME PagingInv, Begin
    PROVE  PagingInv'
<1>1. TypeOK' /\ SeenSound' /\ IsFiniteSet(items')
  BY FS_EmptySet DEF PagingInv, TypeOK, Begin, SeenSound, Keys
<1>2. TypeOK
  BY DEF PagingInv
<1>3. Missed((page - 1) * PerPage)' = {}
  <2>1. (page' - 1) * PerPage = 0
    BY PagingAssumption DEF Begin
  <2>2. \A x \in forge : ~(Position(x) <= 0)
    BY <1>2, PositionIs
  <2>3. forge' = forge /\ kept' = forge /\ \A x : Position(x)' = Position(x)
    BY DEF Begin, Position
  <2>4. QED
    BY <2>1, <2>2, <2>3 DEF Missed
<1>4. Cardinality(Missed((page - 1) * PerPage)') = 0
  BY <1>3, FS_EmptySet
<1>5. PassedOver'
  BY <1>4 DEF PassedOver, Begin
<1>6. QED
  BY <1>1, <1>5 DEF PagingInv

LEMMA FetchPageStep ==
    ASSUME PagingInv, FetchPage
    PROVE  PagingInv'
<1> DEFINE m == (page - 1) * PerPage
           n == page * PerPage
<1>1. /\ TypeOK /\ page \in Nat \ {0} /\ Cardinality(Missed(m)) <= deleted /\ deleted \in Nat
      /\ forge \subseteq seen /\ Keys(items) \subseteq seen /\ kept \subseteq forge
  BY DEF PagingInv, PassedOver, SeenSound, TypeOK, FetchPage
<1>2. m \in Nat /\ n \in Nat
  BY <1>1, PagingAssumption
<1>3. /\ PageOf(page) \subseteq [page : Nat, item : forge] /\ items' = items \cup PageOf(page)
      /\ IsFiniteSet(items')
  BY <1>1, PageType, FS_Union DEF FetchPage, PagingInv
<1>4. Keys(items') = Keys(items) \cup Keys(PageOf(page)) /\ Keys(PageOf(page)) \subseteq forge
  BY <1>3 DEF Keys
<1>5. TypeOK'
  <2>1. [page : Nat, item : forge] \subseteq [page : Nat, item : Item]
    BY <1>1 DEF TypeOK
  <2>2. items' \subseteq [page : Nat, item : Item]
    BY <1>1, <1>3, <2>1 DEF TypeOK
  <2>3. QED
    BY <1>1, <2>2 DEF TypeOK, FetchPage, NextPage
<1>6. SeenSound'
  BY <1>1, <1>4 DEF SeenSound, FetchPage
<1>7. {x \in kept : Position(x) <= n} \ Keys(items') \subseteq Missed(m)
  <2>1. ASSUME NEW x \in kept, Position(x) <= n, x \notin Keys(items'), ~(Position(x) <= m)
        PROVE  FALSE
    <3>1. m < Position(x)
      BY <1>1, <1>2, <2>1, PositionIs
    <3>2. [page |-> page, item |-> x] \in PageOf(page)
      BY <1>1, <2>1, <3>1 DEF PageOf
    <3>3. x \in Keys(PageOf(page))
      BY <3>2 DEF Keys
    <3>4. QED
      BY <1>4, <2>1, <3>3
  <2>2. QED
    BY <1>4, <2>1 DEF Missed
<1>8. Cardinality({x \in kept : Position(x) <= n} \ Keys(items')) <= deleted
  <2> DEFINE A == {x \in kept : Position(x) <= n} \ Keys(items')
  <2>1. A \in SUBSET Missed(m)
    BY <1>7
  <2> HIDE DEF A
  <2>2. Cardinality(A) <= Cardinality(Missed(m)) /\ Cardinality(A) \in Nat
        /\ Cardinality(Missed(m)) \in Nat
    BY <1>1, <2>1, MissedType, FS_Subset, FS_CardinalityType
  <2>3. QED
    BY <1>1, <2>2 DEF A
<1>9. PassedOver'
  <2>1. UNCHANGED <<forge, kept, deleted>> /\ \A x : Position(x)' = Position(x)
    BY DEF FetchPage, Position
  <2>2. CASE n < Cardinality(forge)
    <3>1. page' = page + 1 /\ phase' = "fetch" /\ page' # 0
      BY <1>1, <2>2 DEF FetchPage, NextPage
    <3>2. (page' - 1) * PerPage = n
      <4>1. page' - 1 = page
        BY <1>1, <3>1
      <4>2. QED
        BY <4>1
    <3>3. Missed((page - 1) * PerPage)' = {x \in kept : Position(x) <= n} \ Keys(items')
      BY <2>1, <3>2 DEF Missed
    <3>4. Cardinality(Missed((page - 1) * PerPage)') <= deleted'
      BY <1>8, <2>1, <3>3
    <3>5. page' \in Nat \ {0}
      BY <1>1, <3>1
    <3>6. QED
      BY <3>1, <3>4, <3>5 DEF PassedOver
  <2>3. CASE ~(n < Cardinality(forge))
    <3>1. phase' = "install"
      BY <2>3 DEF FetchPage, NextPage
    <3>2. {x \in kept : Position(x) <= n} = kept
      <4>1. Cardinality(forge) \in Nat
        BY <1>1, BeforeType DEF TypeOK
      <4>2. \A x \in kept : Position(x) <= n
        BY <1>1, <1>2, <2>3, <4>1, PositionIs
      <4>3. QED
        BY <4>2
    <3>3. QED
      BY <1>8, <2>1, <3>1, <3>2 DEF PassedOver
  <2>4. QED
    BY <2>2, <2>3
<1>10. QED
  BY <1>3, <1>5, <1>6, <1>9 DEF PagingInv

\* The forge changes under a listing: nothing moves before the page to ask for but one
\* item, and that by a deletion.
LEMMA ChangeUnderwayStep ==
    ASSUME PagingInv, ChangeUnderway
    PROVE  PagingInv'
<1>1. TypeOK /\ SeenSound /\ PassedOver /\ UNCHANGED <<page, items, phase, rows>>
  BY DEF PagingInv, ChangeUnderway, listVars
<1>2. PICK x \in Item :
          \/ Create(x) /\ seen' = seen \cup {x} /\ UNCHANGED <<kept, deleted>>
          \/ Delete(x) /\ kept' = kept \ {x} /\ deleted' = deleted + 1 /\ UNCHANGED seen
  BY DEF ChangeUnderway
<1>3. TypeOK' /\ changes' \in Nat
  BY <1>1, <1>2 DEF TypeOK, ChangeUnderway, Create, Delete
<1>4. SeenSound'
  BY <1>1, <1>2, <1>3 DEF SeenSound, TypeOK, Create, Delete
<1>5. IsFiniteSet(kept) /\ deleted \in Nat /\ kept \subseteq forge /\ forge \in SUBSET Item
      /\ kept' \subseteq kept /\ deleted <= deleted' /\ deleted' \in Nat
      /\ \A y : Position(y) = Cardinality(Before(forge, y))
                /\ Position(y)' = Cardinality(Before(forge', y))
  BY <1>1, <1>2, MissedType DEF TypeOK, Position, Before
<1>6. ASSUME phase = "install"
      PROVE  Cardinality(kept' \ Keys(items)) <= deleted'
  <2> DEFINE A == kept' \ Keys(items)
             B == kept \ Keys(items)
  <2>1. A \in SUBSET B /\ B \in SUBSET kept
    BY <1>5
  <2>2. Cardinality(B) <= deleted
    BY <1>1, <1>6 DEF PassedOver
  <2> HIDE DEF A, B
  <2>3. IsFiniteSet(B) /\ Cardinality(A) <= Cardinality(B)
        /\ Cardinality(A) \in Nat /\ Cardinality(B) \in Nat
    BY <1>5, <2>1, FS_Subset, FS_CardinalityType
  <2>4. QED
    BY <1>5, <2>2, <2>3 DEF A
<1>7. ASSUME phase = "fetch"
      PROVE  Cardinality(Missed((page - 1) * PerPage)') <= deleted'
  <2> DEFINE m == (page - 1) * PerPage
             B == Missed(m)
             A == {y \in kept' : Position(y)' <= m} \ Keys(items)
  <2>1. m \in Nat /\ Cardinality(B) <= deleted
    BY <1>1, <1>7, PagingAssumption DEF PassedOver
  <2>2. IsFiniteSet(B) /\ Cardinality(B) \in Nat
    BY <1>1, MissedType
  <2>3. Missed((page - 1) * PerPage)' = A
    BY <1>1 DEF Missed
  <2>4. CASE Create(x) /\ UNCHANGED <<kept, deleted>>
    <3>1. forge' = forge \cup {x}
      BY <2>4 DEF Create
    <3>2. \A y : /\ Position(y) <= Position(y)'
                 /\ Position(y) \in Nat /\ Position(y)' \in Nat
      BY <1>5, <3>1, PositionMoves, BeforeType
    <3>3. A \in SUBSET B
      BY <2>1, <2>4, <3>2 DEF Missed
    <3> HIDE DEF A, B, m
    <3>4. Cardinality(A) <= Cardinality(B) /\ Cardinality(A) \in Nat
      BY <2>2, <3>3, FS_Subset, FS_CardinalityType
    <3>5. QED
      BY <1>5, <2>1, <2>2, <2>3, <2>4, <3>4
  <2>5. CASE Delete(x) /\ kept' = kept \ {x} /\ deleted' = deleted + 1
    <3>1. forge' = forge \ {x}
      BY <2>5 DEF Delete
    <3>2. \A y : /\ Position(y) <= Position(y)' + 1
                 /\ Position(y) \in Nat /\ Position(y)' \in Nat
      BY <1>5, <3>1, PositionMoves, BeforeType
    <3>3. ASSUME NEW y \in A \ B, NEW z \in A \ B
          PROVE  y = z
      <4>1. /\ y \in kept /\ z \in kept /\ y \in forge /\ z \in forge
            /\ Position(y)' <= m /\ Position(z)' <= m
            /\ ~(Position(y) <= m) /\ ~(Position(z) <= m)
        BY <1>5, <3>3 DEF Missed
      <4>2. Position(y) = m + 1 /\ Position(z) = m + 1
        BY <2>1, <3>2, <4>1
      <4>3. QED
        BY <1>5, <4>1, <4>2, PositionsDiffer
    <3>4. \E y : A \subseteq B \cup {y}
      BY <3>3
    <3>5. PICK y : A \in SUBSET (B \cup {y})
      BY <3>4
    <3> HIDE DEF A, B, m
    <3>6. /\ IsFiniteSet(B \cup {y})
          /\ Cardinality(B \cup {y}) = IF y \in B THEN Cardinality(B) ELSE Cardinality(B) + 1
      BY <2>2, FS_AddElement
    <3>7. Cardinality(A) <= Cardinality(B \cup {y}) /\ Cardinality(A) \in Nat
      BY <3>5, <3>6, FS_Subset, FS_CardinalityType
    <3>8. Cardinality(A) <= deleted + 1
      BY <1>5, <2>1, <2>2, <3>6, <3>7
    <3>9. QED
      BY <2>3, <2>5, <3>8
  <2>6. QED
    BY <1>2, <2>4, <2>5
<1>8. PassedOver'
  <2>1. phase' = "fetch" => page' \in Nat \ {0}
    BY <1>1 DEF PassedOver
  <2>2. QED
    BY <1>1, <1>5, <1>6, <1>7, <2>1 DEF PassedOver
<1>9. QED
  BY <1>1, <1>3, <1>4, <1>8 DEF PagingInv

LEMMA OtherSteps ==
    ASSUME PagingInv, FetchFails \/ Install \/ ChangeUnseen \/ UNCHANGED pagingVars
    PROVE  PagingInv'
<1>1. CASE FetchFails
  BY <1>1, FS_EmptySet DEF FetchFails, PagingInv, TypeOK, PassedOver, SeenSound
<1>2. CASE Install
  <2>1. rows' \subseteq [page : Nat, item : Own]
    BY <1>2 DEF Install, Inserted, Mine, PagingInv, TypeOK
  <2>2. QED
    BY <1>2, <2>1, FS_EmptySet DEF Install, PagingInv, TypeOK, PassedOver, SeenSound
<1>3. CASE ChangeUnseen
  BY <1>3 DEF ChangeUnseen, Create, Delete, listVars, PagingInv, TypeOK, PassedOver, SeenSound
<1>4. CASE UNCHANGED pagingVars
  BY <1>4 DEF pagingVars, listVars, PagingInv, TypeOK, PassedOver, SeenSound, Missed,
              Position, Keys
<1>5. QED
  BY <1>1, <1>2, <1>3, <1>4

\* A finite set of answers to one item has a last one.
LEMMA LastAnswer ==
    ASSUME NEW S, IsFiniteSet(S), S # {}, \A a \in S : a.page \in Nat
    PROVE  \E a \in S : \A b \in S : b.page <= a.page
<1> DEFINE From(a) == {b \in S : b.page >= a.page}
           T == {From(a) : a \in S}
           R == StrictSubsetOrdering(S)
<1>1. T \subseteq SUBSET S /\ T # {}
  OBVIOUS
<1>2. IsWellFoundedOn(R, SUBSET S)
  BY FS_StrictSubsetOrderingWellFounded, FS_FiniteSubsetsOfFinite
<1>3. PICK x \in T : \A y \in T : <<y, x>> \notin R
  <2> HIDE DEF T, R
  <2>1. QED
    BY <1>1, <1>2, WFMin
<1>4. PICK a \in S : x = From(a)
  OBVIOUS
<1>5. ASSUME NEW b \in S, ~(b.page <= a.page)
      PROVE  FALSE
  <2>1. a \in From(a) /\ a \notin From(b) /\ From(b) \subseteq From(a)
    BY <1>5
  <2>2. <<From(b), From(a)>> \in R
    BY <2>1 DEF StrictSubsetOrdering
  <2>3. QED
    BY <1>3, <1>4, <2>2
<1>6. QED
  BY <1>5

\* INSERT OR REPLACE: one row for each of the agent's items that were listed.
LEMMA InsertedKeys ==
    ASSUME PagingInv
    PROVE  LET table == Inserted(Mine(items)) IN
           /\ Keys(items) \cap Own \subseteq Keys(table)
           /\ Keys(table) \subseteq Keys(items) \cap Own
           /\ \A a, b \in table : a.item = b.item => a = b
<1> DEFINE table == Inserted(Mine(items))
<1>1. Mine(items) \subseteq [page : Nat, item : Own] /\ IsFiniteSet(Mine(items))
  BY FS_Subset DEF Mine, PagingInv, TypeOK
<1>2. ASSUME NEW x \in Keys(items) \cap Own
      PROVE  x \in Keys(table)
  <2> DEFINE S == {a \in Mine(items) : a.item = x}
  <2>1. S # {}
    BY DEF Keys, Mine
  <2>2. IsFiniteSet(S) /\ \A a \in S : a.page \in Nat
    BY <1>1, FS_Subset
  <2> HIDE DEF S
  <2>3. PICK a \in S : \A b \in S : b.page <= a.page
    BY <2>1, <2>2, LastAnswer
  <2>4. a \in table /\ a.item = x
    BY <2>3 DEF S, Inserted
  <2>5. QED
    BY <2>4 DEF Keys
<1>3. Keys(table) \subseteq Keys(items) \cap Own
  BY DEF Keys, Inserted, Mine
<1>4. ASSUME NEW a \in table, NEW b \in table, a.item = b.item
      PROVE  a = b
  <2>1. a \in [page : Nat, item : Own] /\ b \in [page : Nat, item : Own]
    BY <1>1 DEF Inserted
  <2>2. a.page <= b.page /\ b.page <= a.page
    BY <1>4 DEF Inserted
  <2>3. QED
    BY <1>4, <2>1, <2>2
<1>5. QED
  BY <1>2, <1>3, <1>4

LEMMA PagingInvariance == Spec => []PagingInv
<1>1. ASSUME PagingInv, [Next]_pagingVars
      PROVE  PagingInv'
  BY <1>1, BeginStep, FetchPageStep, ChangeUnderwayStep, OtherSteps DEF Next
<1>2. QED
  BY <1>1, PagingInit, PTL DEF Spec

\* Type correctness: the table holds rows of the agent's own items only.
THEOREM PagingTypeCorrect == Spec => []TypeOK
<1>1. PagingInv => TypeOK
  BY DEF PagingInv
<1>2. QED
  BY <1>1, PagingInvariance, PTL

\* Reading a moving listing by page numbers misses no more of the agent's items than
\* the forge lost items meanwhile, whatever the page size.
THEOREM UndercountIsBounded == Spec => UndercountBounded
<1>1. ASSUME PagingInv, Install
      PROVE  Cardinality((kept \cap Own) \ Keys(rows')) <= deleted
  <2>1. /\ IsFiniteSet(kept) /\ deleted \in Nat /\ Cardinality(kept \ Keys(items)) <= deleted
        /\ items \subseteq [page : Nat, item : Item]
    BY <1>1, MissedType DEF PagingInv, PassedOver, Install, TypeOK
  <2>2. Keys(items) \cap Own \subseteq Keys(rows')
    BY <1>1, InsertedKeys DEF Install
  <2> DEFINE A == (kept \cap Own) \ Keys(rows')
             B == kept \ Keys(items)
  <2>3. A \in SUBSET B /\ B \in SUBSET kept
    BY <2>2
  <2> HIDE DEF A, B
  <2>4. IsFiniteSet(B) /\ Cardinality(A) <= Cardinality(B)
        /\ Cardinality(A) \in Nat /\ Cardinality(B) \in Nat
    BY <2>1, <2>3, FS_Subset, FS_CardinalityType
  <2>5. Cardinality(B) <= deleted
    BY <2>1 DEF B
  <2>6. QED
    BY <2>1, <2>4, <2>5 DEF A
<1>2. PagingInv /\ [Next]_pagingVars =>
          [Install => Cardinality((kept \cap Own) \ Keys(rows')) <= deleted]_pagingVars
  BY <1>1
<1>3. QED
  BY <1>2, PagingInvariance, PTL DEF Spec, UndercountBounded

\* The count is never above the agent's items that existed while it was taken, though
\* an item that slipped to a later page is listed twice.
THEOREM CountedOnce == Spec => NeverOvercounts
<1>1. ASSUME PagingInv, Install
      PROVE  Cardinality(rows') <= Cardinality(seen \cap Own)
  <2>1. Keys(items) \subseteq seen /\ seen \subseteq Item
    BY <1>1 DEF PagingInv, SeenSound, Install, TypeOK
  <2>2. IsFiniteSet(seen \cap Own)
    BY <2>1, PagingAssumption, FS_Subset
  <2>3. /\ Keys(rows') \subseteq seen \cap Own
        /\ \A a, b \in rows' : a.item = b.item => a = b
    BY <1>1, <2>1, InsertedKeys DEF Install
  <2>4. QED
    BY <2>2, <2>3, KeysCount
<1>2. PagingInv /\ [Next]_pagingVars =>
          [Install => Cardinality(rows') <= Cardinality(seen \cap Own)]_pagingVars
  BY <1>1
<1>3. QED
  BY <1>2, PagingInvariance, PTL DEF Spec, NeverOvercounts
=============================================================================
