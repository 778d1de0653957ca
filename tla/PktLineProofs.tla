--------------------------- MODULE PktLineProofs ---------------------------
(***************************************************************************)
(* A push is judged by what the forge will read out of it: for any prefix  *)
(* and base of the lengths, any bodies and any way to cut them into        *)
(* chunks.                                                                 *)
(*                                                                         *)
(* The readers recurse from a packet to the one behind it.  What they      *)
(* compute is shown packet by packet from the end of the buffer            *)
(* (FromTheEnd), and so is that they compute anything at all               *)
(* (FramingDefines): a packet's recursion only goes forward.               *)
(***************************************************************************)
EXTENDS PktLine, FiniteSetTheorems, SequenceTheorems, WellFoundedInduction, TLAPS

-----------------------------------------------------------------------------
(* Recursion from the end.                                                 *)

LEMMA Greatest ==
    ASSUME NEW n \in Nat, NEW S \in SUBSET (0 .. n), S # {}
    PROVE  \E k \in S : \A j \in S : j <= k
<1> DEFINE T == {k .. n : k \in S}
           R == StrictSubsetOrdering(0 .. n)
<1>1. IsFiniteSet(0 .. n)
  BY FS_Interval
<1>2. T \subseteq SUBSET (0 .. n) /\ T # {}
  <2>1. ASSUME NEW k \in S
        PROVE  k .. n \subseteq 0 .. n
    OBVIOUS
  <2>2. PICK k \in S : TRUE
    OBVIOUS
  <2>3. k .. n \in T
    OBVIOUS
  <2>4. QED
    BY <2>1, <2>3
<1>3. IsWellFoundedOn(R, SUBSET (0 .. n))
  BY <1>1, FS_StrictSubsetOrderingWellFounded, FS_FiniteSubsetsOfFinite
<1>4. PICK x \in T : \A y \in T : <<y, x>> \notin R
  <2> HIDE DEF T, R
  <2>1. QED
    BY <1>2, <1>3, WFMin
<1>5. PICK k \in S : x = k .. n
  OBVIOUS
<1>6. ASSUME NEW j \in S, k < j
      PROVE  FALSE
  <2>1. j .. n \subseteq k .. n /\ k \in k .. n /\ k \notin j .. n /\ k .. n \in SUBSET (0 .. n)
    BY <1>6
  <2>2. <<j .. n, k .. n>> \in R
    BY <2>1 DEF StrictSubsetOrdering
  <2>3. QED
    BY <1>4, <1>5, <2>2
<1>7. QED
  BY <1>6

\* Induction from the end of a buffer, for the set of the positions something holds at.
LEMMA FromTheEnd ==
    ASSUME NEW n \in Nat, NEW G,
           \A i \in 0 .. n : (\A j \in i + 1 .. n : j \in G) => i \in G
    PROVE  \A i \in 0 .. n : i \in G
<1> SUFFICES ASSUME (0 .. n) \ G # {}
             PROVE  FALSE
  OBVIOUS
<1>1. PICK k \in (0 .. n) \ G : \A j \in (0 .. n) \ G : j <= k
  <2> DEFINE S == (0 .. n) \ G
  <2>1. S \in SUBSET (0 .. n) /\ S # {}
    OBVIOUS
  <2> HIDE DEF S
  <2>2. \E k \in S : \A j \in S : j <= k
    BY <2>1, Greatest
  <2>3. QED
    BY <2>2 DEF S
<1>2. \A j \in k + 1 .. n : j \in G
  BY <1>1
<1>3. QED
  BY <1>1, <1>2

Follows(f, n, next, last, more) ==
    \A i \in 0 .. n :
        f[i] = IF i < next[i] /\ next[i] <= n THEN more[i][f[next[i]]] ELSE last[i]

\* A function on 0 .. n that goes on behind i at next[i], if that is further on, and else
\* ends, is there.
LEMMA FramingDefines ==
    ASSUME NEW n \in Nat, NEW S, NEW next \in [0 .. n -> Nat], NEW last \in [0 .. n -> S],
           NEW more \in [0 .. n -> [S -> S]]
    PROVE  \E f \in [0 .. n -> S] : Follows(f, n, next, last, more)
<1> DEFINE Solves(f, k) ==
              \A i \in k .. n :
                  f[i] = IF i < next[i] /\ next[i] <= n THEN more[i][f[next[i]]] ELSE last[i]
           G == {k \in 0 .. n : \E f \in [k .. n -> S] : Solves(f, k)}
<1>1. ASSUME NEW k \in 0 .. n, \A j \in k + 1 .. n : j \in G
      PROVE  k \in G
  <2>1. PICK f \in [k + 1 .. n -> S] : Solves(f, k + 1)
    <3>1. CASE k = n
      <4>1. k + 1 .. n = {}
        BY <3>1
      <4> DEFINE f == [i \in k + 1 .. n |-> last[i]]
      <4>2. f \in [k + 1 .. n -> S]
        BY <4>1
      <4>3. Solves(f, k + 1)
        BY <4>1
      <4>4. QED
        BY <4>2, <4>3
    <3>2. CASE k # n
      <4> HIDE DEF G
      <4>1. k + 1 \in G
        BY <1>1, <3>2
      <4>2. QED
        BY <4>1, Zenon DEF G
    <3>3. QED
      BY <3>1, <3>2
  <2> DEFINE v == IF k < next[k] /\ next[k] <= n THEN more[k][f[next[k]]] ELSE last[k]
             g == [i \in k .. n |-> IF i = k THEN v ELSE f[i]]
  <2>2. v \in S
    OBVIOUS
  <2>3. g \in [k .. n -> S] /\ g[k] = v /\ \A i \in k + 1 .. n : g[i] = f[i]
    <3> HIDE DEF v
    <3>1. QED
      BY <2>2
  <2> HIDE DEF g
  <2>4. Solves(g, k)
    <3>1. ASSUME NEW i \in k + 1 .. n
          PROVE  g[i] = IF i < next[i] /\ next[i] <= n THEN more[i][g[next[i]]] ELSE last[i]
      <4>1. i < next[i] /\ next[i] <= n => next[i] \in k + 1 .. n
        OBVIOUS
      <4>2. QED
        BY <2>1, <2>3, <4>1
    <3>2. k < next[k] /\ next[k] <= n => next[k] \in k + 1 .. n
      OBVIOUS
    <3>3. g[k] = IF k < next[k] /\ next[k] <= n THEN more[k][g[next[k]]] ELSE last[k]
      BY <2>3, <3>2
    <3>4. QED
      BY <3>1, <3>3
  <2> HIDE DEF Solves
  <2>5. QED
    BY <2>3, <2>4
<1> HIDE DEF G
<1>2. 0 \in G
  <2>1. \A i \in 0 .. n : (\A j \in i + 1 .. n : j \in G) => i \in G
    BY <1>1
  <2>2. \A i \in 0 .. n : i \in G
    BY <2>1, FromTheEnd
  <2>3. QED
    BY <2>2
<1>3. QED
  BY <1>2 DEF G, Follows
-----------------------------------------------------------------------------
(* Lengths.                                                                *)

IsDigits(digits) == \A k \in 1 .. Prefix : digits[k] \in Digit

LEMMA ValueType ==
    ASSUME NEW digits, IsDigits(digits)
    PROVE  Value(digits) \in Nat
<1> DEFINE Rec(g) == g = [k \in 0 .. Prefix |-> IF k = 0 THEN 0 ELSE g[k - 1] * Base + digits[k]]
           next == [i \in 0 .. Prefix |-> i + 1]
           more == [i \in 0 .. Prefix |-> [v \in Nat |-> IF i < Prefix THEN v * Base + digits[Prefix - i]
                                                         ELSE 0]]
           last == [i \in 0 .. Prefix |-> 0]
<1>1. /\ Prefix \in Nat \ {0} /\ Base \in Nat
      /\ \A k \in 1 .. Prefix : digits[k] \in Nat
  BY PktLineAssumption DEF IsDigits, Digit
<1>2. \A v, d \in Nat : v * Base + d \in Nat
  <2>1. \A a, b, d \in Nat : a * b + d \in Nat
    OBVIOUS
  <2>2. QED
    BY <1>1, <2>1
<1>3. /\ next \in [0 .. Prefix -> Nat] /\ more \in [0 .. Prefix -> [Nat -> Nat]]
      /\ last \in [0 .. Prefix -> Nat]
  <2>1. \A i \in 0 .. Prefix : i < Prefix => Prefix - i \in 1 .. Prefix
    BY <1>1
  <2>2. \A i \in 0 .. Prefix, v \in Nat :
            (IF i < Prefix THEN v * Base + digits[Prefix - i] ELSE 0) \in Nat
    BY <1>1, <1>2, <2>1
  <2>3. QED
    BY <1>1, <2>2
<1>4. PICK f \in [0 .. Prefix -> Nat] : Follows(f, Prefix, next, last, more)
  <2> HIDE DEF next, more, last
  <2>1. Prefix \in Nat
    BY <1>1
  <2>2. QED
    BY <1>3, <2>1, FramingDefines
<1> DEFINE g == [k \in 0 .. Prefix |-> f[Prefix - k]]
<1>5. \A k \in 0 .. Prefix : g[k] = IF k = 0 THEN 0 ELSE g[k - 1] * Base + digits[k]
  <2>1. ASSUME NEW k \in 0 .. Prefix, k # 0
        PROVE  g[k] = g[k - 1] * Base + digits[k]
    <3> DEFINE i == Prefix - k
    <3>1. i \in 0 .. Prefix /\ i < Prefix /\ i + 1 \in 0 .. Prefix /\ k - 1 \in 0 .. Prefix
          /\ Prefix - (k - 1) = i + 1 /\ Prefix - i = k
      BY <1>1, <2>1
    <3>2. g[k] = f[i] /\ g[k - 1] = f[i + 1]
      BY <3>1
    <3> HIDE DEF i, g
    <3>3. f[i] = more[i][f[i + 1]]
      <4>1. next[i] = i + 1 /\ i < next[i] /\ next[i] <= Prefix
        BY <1>1, <3>1
      <4> HIDE DEF next, more, last
      <4>2. QED
        BY <1>4, <3>1, <4>1 DEF Follows
    <3>4. more[i][f[i + 1]] = f[i + 1] * Base + digits[k]
      BY <3>1
    <3>5. QED
      BY <3>2, <3>3, <3>4
  <2>2. g[0] = 0
    <3>1. g[0] = f[Prefix] /\ Prefix \in 0 .. Prefix
      BY <1>1
    <3>2. f[Prefix] = last[Prefix]
      <4>1. next[Prefix] = Prefix + 1 /\ ~(next[Prefix] <= Prefix)
        BY <1>1, <3>1
      <4> HIDE DEF next, more, last
      <4>2. QED
        BY <1>4, <3>1, <4>1 DEF Follows
    <3>3. QED
      BY <3>1, <3>2
  <2> HIDE DEF g
  <2>3. QED
    BY <2>1, <2>2
<1>6. Rec(g)
  <2>1. g = [k \in 0 .. Prefix |-> g[k]]
    OBVIOUS
  <2> HIDE DEF g
  <2>2. QED
    BY <1>5, <2>1
<1>7. Value(digits) = (CHOOSE h : Rec(h))[Prefix]
  BY DEF Value
<1> HIDE DEF Rec
<1>8. Rec(CHOOSE h : Rec(h))
  BY <1>6
<1> DEFINE value == CHOOSE h : Rec(h)
<1>9. \A k \in 0 .. Prefix : value[k] = IF k = 0 THEN 0 ELSE value[k - 1] * Base + digits[k]
  BY <1>8 DEF Rec
<1> HIDE DEF value
<1> DEFINE G == {i \in 0 .. Prefix : value[Prefix - i] \in Nat}
<1>10. ASSUME NEW i \in 0 .. Prefix, \A j \in i + 1 .. Prefix : j \in G
       PROVE  i \in G
  <2>1. CASE i = Prefix
    BY <1>1, <1>9, <2>1
  <2>2. CASE i # Prefix
    <3>1. /\ i + 1 \in G /\ Prefix - (i + 1) = (Prefix - i) - 1 /\ Prefix - i \in 1 .. Prefix
          /\ Prefix - i \in 0 .. Prefix /\ Prefix - i # 0
      BY <1>1, <1>10, <2>2
    <3>2. value[Prefix - i] = value[(Prefix - i) - 1] * Base + digits[Prefix - i]
      BY <1>9, <3>1
    <3>3. value[(Prefix - i) - 1] \in Nat /\ digits[Prefix - i] \in Nat
      BY <1>1, <3>1
    <3>4. value[Prefix - i] \in Nat
      BY <1>2, <3>2, <3>3
    <3>5. QED
      BY <3>4
  <2>3. QED
    BY <2>1, <2>2
<1>11. 0 \in G
  <2> HIDE DEF G
  <2>1. \A i \in 0 .. Prefix : (\A j \in i + 1 .. Prefix : j \in G) => i \in G
    BY <1>10
  <2>2. Prefix \in Nat /\ 0 \in 0 .. Prefix
    BY <1>1
  <2>3. \A i \in 0 .. Prefix : i \in G
    BY <2>1, <2>2, FromTheEnd
  <2>4. QED
    BY <2>2, <2>3
<1>12. value[Prefix] \in Nat
  BY <1>1, <1>11
<1>13. QED
  BY <1>7, <1>12 DEF value

\* A packet may start at i: its length is there.
Plain(buf, i) == i + Prefix <= Len(buf) /\ IsNumber(buf, i)

LEMMA LenType ==
    ASSUME NEW S, NEW buf \in Seq(S)
    PROVE  Len(buf) \in Nat
OBVIOUS

LEMMA LengthType ==
    ASSUME NEW buf \in Seq(Unit), NEW i \in 0 .. Len(buf), Plain(buf, i)
    PROVE  LengthAt(buf, i) \in Nat
<1> DEFINE digits == SubSeq(buf, i + 1, i + Prefix)
<1>1. /\ i \in Nat /\ Prefix \in Nat /\ Len(buf) \in Nat /\ i + Prefix <= Len(buf)
      /\ \A k \in 1 .. Prefix : buf[i + k] \in Digit
  BY PktLineAssumption, LenType DEF Plain, IsNumber
<1>2. \A j \in i + 1 .. i + Prefix : buf[j] \in Unit
  <2>1. \A j \in i + 1 .. i + Prefix : j \in 1 .. Len(buf)
    BY <1>1
  <2>2. QED
    BY <2>1, ElementOfSeq
<1>3. \A k \in 1 .. Prefix : digits[k] = buf[i + k]
  <2> DEFINE m == i + 1
             e == i + Prefix
  <2>1. m \in Int /\ e \in Int /\ e - m + 1 = Prefix
    BY <1>1
  <2>2. \A k \in 1 .. Prefix : m + k - 1 = i + k
    BY <1>1
  <2> HIDE DEF m, e
  <2>3. \A j \in m .. e : buf[j] \in Unit
    BY <1>2 DEF m, e
  <2>4. \A k \in 1 .. e - m + 1 : SubSeq(buf, m, e)[k] = buf[m + k - 1]
    BY <2>1, <2>3, SubSeqProperties
  <2>5. QED
    BY <2>1, <2>2, <2>4 DEF m, e
<1>4. IsDigits(digits)
  BY <1>1, <1>3 DEF IsDigits
<1>5. QED
  BY <1>4, ValueType DEF LengthAt
-----------------------------------------------------------------------------
(* The readers, packet by packet.                                          *)

LEMMA CommandEndIs ==
    ASSUME NEW buf \in Seq(Unit)
    PROVE  \A i \in 0 .. Len(buf) :
               CommandEnd(buf)[i] =
                   IF ~Plain(buf, i) THEN None
                   ELSE IF LengthAt(buf, i) = 0 THEN i + Prefix
                   ELSE IF LengthAt(buf, i) < Prefix \/ i + LengthAt(buf, i) > Len(buf) THEN None
                   ELSE CommandEnd(buf)[i + LengthAt(buf, i)]
<1> DEFINE n == Len(buf)
           len(i) == LengthAt(buf, i)
           S == Nat \cup {None}
           next == [i \in 0 .. n |-> IF Plain(buf, i) /\ len(i) >= Prefix THEN i + len(i) ELSE 0]
           last == [i \in 0 .. n |-> IF Plain(buf, i) /\ len(i) = 0 THEN i + Prefix ELSE None]
           more == [i \in 0 .. n |-> [v \in S |-> v]]
           Step(g, i) == IF i + Prefix > Len(buf) \/ ~IsNumber(buf, i) THEN None
                         ELSE IF len(i) = 0 THEN i + Prefix
                         ELSE IF len(i) < Prefix \/ i + len(i) > Len(buf) THEN None
                         ELSE g[i + len(i)]
           Rec(g) == g = [i \in 0 .. Len(buf) |-> Step(g, i)]
<1>1. n \in Nat /\ Prefix \in Nat \ {0} /\ \A i \in 0 .. n : Plain(buf, i) => len(i) \in Nat
  BY LenType, LengthType, PktLineAssumption
<1>2. CommandEnd(buf) = CHOOSE g : Rec(g)
  BY DEF CommandEnd
<1>3. \A i \in 0 .. n : i + Prefix > Len(buf) \/ ~IsNumber(buf, i) <=> ~Plain(buf, i)
  <2>1. \A i \in 0 .. n : i + Prefix > Len(buf) <=> ~(i + Prefix <= Len(buf))
    BY <1>1
  <2>2. QED
    BY <2>1 DEF Plain
<1> HIDE DEF n, len
<1>4. next \in [0 .. n -> Nat] /\ last \in [0 .. n -> S] /\ more \in [0 .. n -> [S -> S]]
  <2>1. \A i \in 0 .. n : Plain(buf, i) => i + len(i) \in Nat /\ i + Prefix \in Nat
    BY <1>1
  <2>2. QED
    BY <2>1
<1>5. PICK f \in [0 .. n -> S] : Follows(f, n, next, last, more)
  <2> HIDE DEF next, last, more, S
  <2>1. QED
    BY <1>1, <1>4, FramingDefines
<1>6. Rec(f)
  <2>1. ASSUME NEW i \in 0 .. n
        PROVE  f[i] = Step(f, i)
    <3>1. f[i] = IF i < next[i] /\ next[i] <= n THEN more[i][f[next[i]]] ELSE last[i]
      BY <1>5 DEF Follows
    <3>2. CASE Plain(buf, i) /\ len(i) >= Prefix
      <4>1. next[i] = i + len(i) /\ i < i + len(i) /\ len(i) # 0 /\ ~(len(i) < Prefix)
        BY <1>1, <3>2
      <4>2. CASE i + len(i) <= n
        <5>1. i + len(i) \in 0 .. n /\ ~(i + len(i) > Len(buf))
          BY <1>1, <3>2, <4>2 DEF n
        <5>2. f[i] = f[i + len(i)]
          BY <3>1, <4>1, <4>2, <5>1
        <5>3. QED
          BY <1>3, <3>2, <4>1, <5>1, <5>2
      <4>3. CASE ~(i + len(i) <= n)
        <5>1. f[i] = None /\ i + len(i) > Len(buf)
          BY <1>1, <3>1, <3>2, <4>1, <4>3 DEF n
        <5>2. QED
          BY <1>3, <3>2, <4>1, <5>1
      <4>4. QED
        BY <4>2, <4>3
    <3>3. CASE ~(Plain(buf, i) /\ len(i) >= Prefix)
      <4>1. f[i] = IF Plain(buf, i) /\ len(i) = 0 THEN i + Prefix ELSE None
        BY <3>1, <3>3
      <4>2. Plain(buf, i) => len(i) < Prefix
        BY <1>1, <3>3
      <4>3. QED
        BY <1>3, <4>1, <4>2
    <3>4. QED
      BY <3>2, <3>3
  <2>2. f = [i \in 0 .. n |-> f[i]]
    OBVIOUS
  <2> HIDE DEF Step
  <2>3. QED
    BY <2>1, <2>2 DEF n
<1> HIDE DEF Rec
<1>7. Rec(CHOOSE g : Rec(g))
  BY <1>6
<1>8. \A i \in 0 .. n : CommandEnd(buf)[i] = Step(CommandEnd(buf), i)
  <2> DEFINE e == CommandEnd(buf)
  <2>1. Rec(e)
    BY <1>2, <1>7
  <2> HIDE DEF e, Step
  <2>2. e = [i \in 0 .. n |-> Step(e, i)]
    BY <2>1 DEF Rec, n
  <2>3. \A i \in 0 .. n : e[i] = Step(e, i)
    BY <2>2
  <2>4. QED
    BY <2>3 DEF e
<1>9. QED
  BY <1>3, <1>8 DEF n, len

Lines == Seq(Seq(Unit))

LEMMA SubSeqType ==
    ASSUME NEW S, NEW buf \in Seq(S), NEW m \in Nat \ {0}, NEW e \in 0 .. Len(buf)
    PROVE  /\ SubSeq(buf, m, e) \in Seq(S)
           /\ Len(SubSeq(buf, m, e)) = IF m <= e THEN e - m + 1 ELSE 0
           /\ \A k \in 1 .. e - m + 1 : SubSeq(buf, m, e)[k] = buf[m + k - 1]
<1>1. Len(buf) \in Nat
  BY LenType
<1>2. \A j \in m .. e : buf[j] \in S
  <2>1. \A j \in m .. e : j \in 1 .. Len(buf)
    BY <1>1
  <2>2. QED
    BY <2>1, ElementOfSeq
<1>3. m \in Int /\ e \in Int
  BY <1>1
<1>4. QED
  BY <1>2, <1>3, SubSeqProperties

LEMMA CommandsType ==
    ASSUME NEW line \in Seq(Unit)
    PROVE  Commands(line) \in Lines
BY DEF Commands, Lines

LEMMA LineType ==
    ASSUME NEW buf \in Seq(Unit), NEW i \in Nat, NEW length \in Nat
    PROVE  Commands(Line(buf, i, length)) \in Lines
<1> DEFINE e == IF i + length < Len(buf) THEN i + length ELSE Len(buf)
           m == i + Prefix + 1
<1>1. m \in Nat \ {0} /\ e \in 0 .. Len(buf)
  BY LenType, PktLineAssumption
<1>2. Line(buf, i, length) = SubSeq(buf, m, e)
  BY DEF Line
<1> HIDE DEF m, e
<1>3. Line(buf, i, length) \in Seq(Unit)
  BY <1>1, <1>2, SubSeqType
<1>4. QED
  BY <1>3, CommandsType

LEMMA JoinType ==
    ASSUME NEW s \in Lines, NEW t \in Lines
    PROVE  s \o t \in Lines /\ s \o t # None /\ s # None
BY ConcatProperties, PktLineAssumption DEF Lines

LEMMA ReadIs ==
    ASSUME NEW buf \in Seq(Unit)
    PROVE  \A i \in 0 .. Len(buf) :
               /\ Read(buf)[i] \in Lines \cup {None}
               /\ Read(buf)[i] =
                      IF ~Plain(buf, i) THEN None
                      ELSE IF LengthAt(buf, i) < Prefix THEN <<>>
                      ELSE IF i + LengthAt(buf, i) > Len(buf) THEN None
                      ELSE IF Read(buf)[i + LengthAt(buf, i)] = None THEN None
                      ELSE Commands(Line(buf, i, LengthAt(buf, i))) \o Read(buf)[i + LengthAt(buf, i)]
<1> DEFINE n == Len(buf)
           len(i) == LengthAt(buf, i)
           line(i) == Commands(Line(buf, i, len(i)))
           S == Lines \cup {None}
           next == [i \in 0 .. n |-> IF Plain(buf, i) /\ len(i) >= Prefix THEN i + len(i) ELSE 0]
           last == [i \in 0 .. n |-> IF Plain(buf, i) /\ len(i) < Prefix THEN <<>> ELSE None]
           more == [i \in 0 .. n |-> [v \in S |-> IF v = None \/ ~Plain(buf, i) THEN None
                                                  ELSE line(i) \o v]]
           Step(g, i) == IF i + Prefix > Len(buf) \/ ~IsNumber(buf, i) THEN None
                         ELSE IF len(i) < Prefix THEN <<>>
                         ELSE IF i + len(i) > Len(buf) \/ g[i + len(i)] = None THEN None
                         ELSE line(i) \o g[i + len(i)]
           Rec(g) == g = [i \in 0 .. Len(buf) |-> Step(g, i)]
<1>1. /\ n \in Nat /\ Prefix \in Nat \ {0}
      /\ \A i \in 0 .. n : Plain(buf, i) => len(i) \in Nat /\ line(i) \in Lines
  <2>1. n \in Nat /\ Prefix \in Nat \ {0} /\ \A i \in 0 .. n : Plain(buf, i) => len(i) \in Nat
    BY LenType, LengthType, PktLineAssumption
  <2>2. \A i \in 0 .. n : i \in Nat
    BY <2>1
  <2>3. QED
    BY <2>1, <2>2, LineType
<1>2. Read(buf) = CHOOSE g : Rec(g)
  BY DEF Read
<1>3. \A i \in 0 .. n : i + Prefix > Len(buf) \/ ~IsNumber(buf, i) <=> ~Plain(buf, i)
  <2>1. \A i \in 0 .. n : i + Prefix > Len(buf) <=> ~(i + Prefix <= Len(buf))
    BY <1>1
  <2>2. QED
    BY <2>1 DEF Plain
<1> HIDE DEF n, len, line
<1>4. next \in [0 .. n -> Nat] /\ last \in [0 .. n -> S] /\ more \in [0 .. n -> [S -> S]]
  <2>1. \A i \in 0 .. n : Plain(buf, i) => i + len(i) \in Nat
    BY <1>1
  <2>2. <<>> \in Lines
    BY DEF Lines
  <2>3. \A i \in 0 .. n : Plain(buf, i) => \A v \in Lines : line(i) \o v \in Lines
    BY <1>1, JoinType
  <2>4. next \in [0 .. n -> Nat]
    BY <2>1
  <2>5. last \in [0 .. n -> S]
    BY <2>2
  <2>6. more \in [0 .. n -> [S -> S]]
    BY <2>3
  <2>7. QED
    BY <2>4, <2>5, <2>6
<1>5. PICK f \in [0 .. n -> S] : Follows(f, n, next, last, more)
  <2> HIDE DEF next, last, more, S
  <2>1. QED
    BY <1>1, <1>4, FramingDefines
<1>6. Rec(f)
  <2>1. ASSUME NEW i \in 0 .. n
        PROVE  f[i] = Step(f, i)
    <3>1. f[i] = IF i < next[i] /\ next[i] <= n THEN more[i][f[next[i]]] ELSE last[i]
      BY <1>5 DEF Follows
    <3>2. CASE Plain(buf, i) /\ len(i) >= Prefix
      <4>1. next[i] = i + len(i) /\ i < i + len(i) /\ ~(len(i) < Prefix)
        BY <1>1, <3>2
      <4>2. CASE i + len(i) <= n
        <5>1. i + len(i) \in 0 .. n /\ ~(i + len(i) > Len(buf))
          BY <1>1, <3>2, <4>2 DEF n
        <5>2. f[i] = more[i][f[i + len(i)]]
          BY <3>1, <4>1, <4>2, <5>1
        <5>3. f[i] = IF f[i + len(i)] = None THEN None ELSE line(i) \o f[i + len(i)]
          BY <3>2, <5>1, <5>2
        <5>4. QED
          BY <1>3, <3>2, <4>1, <5>1, <5>3
      <4>3. CASE ~(i + len(i) <= n)
        <5>1. f[i] = None /\ i + len(i) > Len(buf)
          BY <1>1, <3>1, <3>2, <4>1, <4>3 DEF n
        <5>2. QED
          BY <1>3, <3>2, <4>1, <5>1
      <4>4. QED
        BY <4>2, <4>3
    <3>3. CASE ~(Plain(buf, i) /\ len(i) >= Prefix)
      <4>1. f[i] = last[i]
        BY <3>1, <3>3
      <4>2. Plain(buf, i) => len(i) < Prefix
        BY <1>1, <3>3
      <4>3. QED
        BY <1>3, <4>1, <4>2
    <3>4. QED
      BY <3>2, <3>3
  <2>2. f = [i \in 0 .. n |-> f[i]]
    OBVIOUS
  <2> HIDE DEF Step
  <2>3. QED
    BY <2>1, <2>2 DEF n
<1> HIDE DEF Rec
<1>7. Rec(CHOOSE g : Rec(g))
  BY <1>6
<1>8. \A i \in 0 .. n : Read(buf)[i] = Step(Read(buf), i)
  <2> DEFINE e == Read(buf)
  <2>1. Rec(e)
    BY <1>2, <1>7
  <2> HIDE DEF e, Step
  <2>2. e = [i \in 0 .. n |-> Step(e, i)]
    BY <2>1 DEF Rec, n
  <2>3. \A i \in 0 .. n : e[i] = Step(e, i)
    BY <2>2
  <2>4. QED
    BY <2>3 DEF e
<1> DEFINE e == Read(buf)
           G == {i \in 0 .. n : e[i] \in S}
<1>9. \A i \in 0 .. n : e[i] \in S
  <2>1. ASSUME NEW i \in 0 .. n, \A j \in i + 1 .. n : j \in G
        PROVE  i \in G
    <3>1. e[i] = Step(e, i)
      BY <1>8
    <3>2. Plain(buf, i) /\ ~(len(i) < Prefix) /\ ~(i + len(i) > Len(buf)) => i + len(i) \in i + 1 .. n
      BY <1>1 DEF n
    <3>3. <<>> \in S /\ None \in S
      BY DEF Lines
    <3> HIDE DEF e
    <3>4. \A v \in S : Plain(buf, i) /\ v # None => line(i) \o v \in S
      BY <1>1, JoinType
    <3>5. Plain(buf, i) /\ ~(len(i) < Prefix) /\ ~(i + len(i) > Len(buf)) => e[i + len(i)] \in S
      BY <2>1, <3>2
    <3> HIDE DEF S
    <3>6. Step(e, i) \in S
      BY <1>3, <3>3, <3>4, <3>5
    <3>7. QED
      BY <3>1, <3>6
  <2> HIDE DEF G
  <2>2. \A i \in 0 .. n : (\A j \in i + 1 .. n : j \in G) => i \in G
    BY <2>1
  <2>3. \A i \in 0 .. n : i \in G
    BY <1>1, <2>2, FromTheEnd
  <2>4. QED
    BY <2>3 DEF G
<1>10. QED
  BY <1>3, <1>8, <1>9 DEF n, len, line

\* What is behind a packet, for the parser: nothing, if the packet is cut off.
Behind(buf, i) ==
    IF i + LengthAt(buf, i) > Len(buf) THEN <<>> ELSE Parsed(buf)[i + LengthAt(buf, i)]

LEMMA ParsedIs ==
    ASSUME NEW buf \in Seq(Unit)
    PROVE  \A i \in 0 .. Len(buf) :
               /\ Parsed(buf)[i] \in Lines \cup {None}
               /\ Plain(buf, i) =>
                      Parsed(buf)[i] =
                          IF LengthAt(buf, i) = 0 THEN <<>>
                          ELSE IF Behind(buf, i) = None THEN None
                          ELSE Commands(Line(buf, i, LengthAt(buf, i))) \o Behind(buf, i)
<1> DEFINE n == Len(buf)
           len(i) == LengthAt(buf, i)
           line(i) == Commands(Line(buf, i, len(i)))
           S == Lines \cup {None}
           next == [i \in 0 .. n |-> IF Plain(buf, i) THEN i + len(i) ELSE 0]
           last == [i \in 0 .. n |-> IF i + Prefix > Len(buf) THEN <<>>
                                     ELSE IF ~IsNumber(buf, i) THEN None
                                     ELSE IF len(i) = 0 THEN <<>>
                                     ELSE line(i) \o <<>>]
           more == [i \in 0 .. n |-> [v \in S |-> IF v = None \/ ~Plain(buf, i) THEN None
                                                  ELSE line(i) \o v]]
           Rest(g, i) == IF i + len(i) > Len(buf) THEN <<>> ELSE g[i + len(i)]
           Step(g, i) == IF i + Prefix > Len(buf) THEN <<>>
                         ELSE IF ~IsNumber(buf, i) THEN None
                         ELSE IF len(i) = 0 THEN <<>>
                         ELSE IF Rest(g, i) = None THEN None
                         ELSE line(i) \o Rest(g, i)
           Rec(g) == g = [i \in 0 .. Len(buf) |-> Step(g, i)]
<1>1. /\ n \in Nat /\ Prefix \in Nat \ {0}
      /\ \A i \in 0 .. n : Plain(buf, i) => len(i) \in Nat /\ line(i) \in Lines
  <2>1. n \in Nat /\ Prefix \in Nat \ {0} /\ \A i \in 0 .. n : Plain(buf, i) => len(i) \in Nat
    BY LenType, LengthType, PktLineAssumption
  <2>2. \A i \in 0 .. n : i \in Nat
    BY <2>1
  <2>3. QED
    BY <2>1, <2>2, LineType
<1>2. Parsed(buf) = CHOOSE g : Rec(g)
  BY DEF Parsed
<1>3. \A i \in 0 .. n : Plain(buf, i) <=> ~(i + Prefix > Len(buf)) /\ IsNumber(buf, i)
  <2>1. \A i \in 0 .. n : i + Prefix > Len(buf) <=> ~(i + Prefix <= Len(buf))
    BY <1>1
  <2>2. QED
    BY <2>1 DEF Plain
<1>4. <<>> \in Lines /\ None \notin Lines
  BY PktLineAssumption DEF Lines
<1> HIDE DEF n, len, line
<1>5. next \in [0 .. n -> Nat] /\ last \in [0 .. n -> S] /\ more \in [0 .. n -> [S -> S]]
  <2>1. \A i \in 0 .. n : Plain(buf, i) => i + len(i) \in Nat
    BY <1>1
  <2>2. \A i \in 0 .. n : Plain(buf, i) => \A v \in Lines : line(i) \o v \in Lines
    BY <1>1, JoinType
  <2>3. next \in [0 .. n -> Nat]
    BY <2>1
  <2>4. last \in [0 .. n -> S]
    BY <1>3, <1>4, <2>2
  <2>5. more \in [0 .. n -> [S -> S]]
    BY <2>2
  <2>6. QED
    BY <2>3, <2>4, <2>5
<1>6. PICK f \in [0 .. n -> S] : Follows(f, n, next, last, more)
  <2> HIDE DEF next, last, more, S
  <2>1. QED
    BY <1>1, <1>5, FramingDefines
<1>7. Rec(f)
  <2>1. ASSUME NEW i \in 0 .. n
        PROVE  f[i] = Step(f, i)
    <3>1. f[i] = IF i < next[i] /\ next[i] <= n THEN more[i][f[next[i]]] ELSE last[i]
      BY <1>6 DEF Follows
    <3>2. CASE Plain(buf, i) /\ len(i) # 0
      <4>1. next[i] = i + len(i) /\ i < i + len(i)
        BY <1>1, <3>2
      <4>2. CASE i + len(i) <= n
        <5>1. i + len(i) \in 0 .. n /\ ~(i + len(i) > Len(buf))
          BY <1>1, <3>2, <4>2 DEF n
        <5>2. f[i] = more[i][f[i + len(i)]]
          BY <3>1, <4>1, <4>2, <5>1
        <5>3. f[i] = IF f[i + len(i)] = None THEN None ELSE line(i) \o f[i + len(i)]
          BY <3>2, <5>1, <5>2
        <5>4. QED
          BY <1>3, <3>2, <5>1, <5>3
      <4>3. CASE ~(i + len(i) <= n)
        <5>1. f[i] = last[i] /\ i + len(i) > Len(buf)
          BY <1>1, <3>1, <3>2, <4>1, <4>3 DEF n
        <5>2. QED
          BY <1>3, <1>4, <3>2, <5>1
      <4>4. QED
        BY <4>2, <4>3
    <3>3. CASE ~(Plain(buf, i) /\ len(i) # 0)
      <4>1. ~(i < next[i])
        <5>1. Plain(buf, i) => len(i) = 0 /\ i + len(i) = i
          BY <1>1, <3>3
        <5>2. next[i] = 0 \/ next[i] = i
          BY <5>1
        <5>3. QED
          BY <1>1, <5>2
      <4>2. f[i] = last[i]
        BY <3>1, <4>1
      <4>3. QED
        BY <1>3, <3>3, <4>2
    <3>4. QED
      BY <3>2, <3>3
  <2>2. f = [i \in 0 .. n |-> f[i]]
    OBVIOUS
  <2> HIDE DEF Step
  <2>3. QED
    BY <2>1, <2>2 DEF n
<1> HIDE DEF Rec
<1>8. Rec(CHOOSE g : Rec(g))
  BY <1>7
<1>9. \A i \in 0 .. n : Parsed(buf)[i] = Step(Parsed(buf), i)
  <2> DEFINE e == Parsed(buf)
  <2>1. Rec(e)
    BY <1>2, <1>8
  <2> HIDE DEF e, Step
  <2>2. e = [i \in 0 .. n |-> Step(e, i)]
    BY <2>1 DEF Rec, n
  <2>3. \A i \in 0 .. n : e[i] = Step(e, i)
    BY <2>2
  <2>4. QED
    BY <2>3 DEF e
<1> DEFINE e == Parsed(buf)
           G == {i \in 0 .. n : e[i] \in S}
<1>10. \A i \in 0 .. n : e[i] \in S
  <2>1. ASSUME NEW i \in 0 .. n, \A j \in i + 1 .. n : j \in G
        PROVE  i \in G
    <3>1. e[i] = Step(e, i)
      BY <1>9
    <3>2. Plain(buf, i) /\ len(i) # 0 /\ ~(i + len(i) > Len(buf)) => i + len(i) \in i + 1 .. n
      BY <1>1 DEF n
    <3>3. <<>> \in S /\ None \in S
      BY <1>4
    <3> HIDE DEF e
    <3>4. \A v \in S : Plain(buf, i) /\ v # None => line(i) \o v \in S
      BY <1>1, JoinType
    <3>5. Plain(buf, i) /\ len(i) # 0 => Rest(e, i) \in S
      BY <2>1, <3>2, <3>3
    <3> HIDE DEF S, Rest
    <3>6. Step(e, i) \in S
      BY <1>3, <3>3, <3>4, <3>5
    <3>7. QED
      BY <3>1, <3>6
  <2> HIDE DEF G
  <2>2. \A i \in 0 .. n : (\A j \in i + 1 .. n : j \in G) => i \in G
    BY <2>1
  <2>3. \A i \in 0 .. n : i \in G
    BY <1>1, <2>2, FromTheEnd
  <2>4. QED
    BY <2>3 DEF G
<1>11. QED
  BY <1>3, <1>9, <1>10 DEF n, len, line, Behind
-----------------------------------------------------------------------------
(* Prefixes.                                                               *)

LEMMA SubSeqSame ==
    ASSUME NEW S, NEW s \in Seq(S), NEW t \in Seq(S), NEW m \in Nat \ {0},
           NEW e \in 0 .. Len(s), e \in 0 .. Len(t), \A j \in m .. e : s[j] = t[j]
    PROVE  SubSeq(s, m, e) = SubSeq(t, m, e)
<1> DEFINE a == SubSeq(s, m, e)
           b == SubSeq(t, m, e)
<1>1. /\ a \in Seq(S) /\ b \in Seq(S) /\ Len(a) = Len(b)
      /\ Len(a) = IF m <= e THEN e - m + 1 ELSE 0
      /\ \A k \in 1 .. e - m + 1 : a[k] = s[m + k - 1]
      /\ \A k \in 1 .. e - m + 1 : b[k] = t[m + k - 1]
  BY SubSeqType
<1>2. \A k \in 1 .. Len(a) : a[k] = b[k]
  <2>1. e \in Nat
    BY LenType
  <2>2. ASSUME NEW k \in 1 .. Len(a)
        PROVE  a[k] = b[k]
    <3> HIDE DEF a, b
    <3>1. k \in 1 .. e - m + 1 /\ m + k - 1 \in m .. e
      BY <1>1, <2>1, <2>2
    <3>2. QED
      BY <1>1, <3>1
  <2>3. QED
    BY <2>2
<1> HIDE DEF a, b
<1>3. a = b
  BY <1>1, <1>2, SeqEqual
<1>4. QED
  BY <1>3 DEF a, b

LEMMA PrefixIs ==
    ASSUME NEW S, NEW s \in Seq(S), NEW t \in Seq(S)
    PROVE  /\ IsPrefix(s, t) => Len(s) <= Len(t) /\ \A k \in 1 .. Len(s) : s[k] = t[k]
           /\ Len(s) <= Len(t) /\ (\A k \in 1 .. Len(s) : s[k] = t[k]) => IsPrefix(s, t)
<1>1. Len(s) \in Nat /\ Len(t) \in Nat
  BY LenType
<1>2. SubSeq(s, 1, Len(s)) = s
  BY SubSeqFull
<1>3. ASSUME IsPrefix(s, t)
      PROVE  Len(s) <= Len(t) /\ \A k \in 1 .. Len(s) : s[k] = t[k]
  <2>1. Len(s) <= Len(t) /\ s = SubSeq(t, 1, Len(s))
    BY <1>2, <1>3 DEF IsPrefix
  <2>2. Len(s) \in 0 .. Len(t) /\ 1 \in Nat \ {0}
    BY <1>1, <2>1
  <2>3. \A k \in 1 .. Len(s) - 1 + 1 : SubSeq(t, 1, Len(s))[k] = t[1 + k - 1]
    BY <2>2, SubSeqType
  <2> DEFINE a == SubSeq(t, 1, Len(s))
             n == Len(s)
  <2>4. \A k \in 1 .. n : a[k] = t[k]
    <3>1. \A k \in 1 .. n - 1 + 1 : a[k] = t[1 + k - 1]
      BY <2>3
    <3>2. n \in Nat
      BY <1>1
    <3> HIDE DEF a, n
    <3>3. QED
      BY <3>1, <3>2
  <2>5. QED
    BY <2>1, <2>4
<1>4. ASSUME Len(s) <= Len(t), \A k \in 1 .. Len(s) : s[k] = t[k]
      PROVE  IsPrefix(s, t)
  <2>1. Len(s) \in 0 .. Len(t) /\ Len(s) \in 0 .. Len(s) /\ 1 \in Nat \ {0}
    BY <1>1, <1>4
  <2>2. SubSeq(s, 1, Len(s)) = SubSeq(t, 1, Len(s))
    BY <1>4, <2>1, SubSeqSame
  <2>3. QED
    BY <1>4, <2>2 DEF IsPrefix
<1>5. QED
  BY <1>3, <1>4

LEMMA PrefixBehind ==
    ASSUME NEW S, NEW s \in Seq(S), NEW t \in Seq(S), NEW u \in Seq(S), IsPrefix(t, u)
    PROVE  IsPrefix(s \o t, s \o u)
<1> DEFINE a == s \o t
           b == s \o u
           m == Len(s)
           n == Len(t)
           o == Len(u)
<1>1. /\ a \in Seq(S) /\ b \in Seq(S) /\ Len(a) = m + n /\ Len(b) = m + o
      /\ \A k \in 1 .. m + n : a[k] = IF k <= m THEN s[k] ELSE t[k - m]
      /\ \A k \in 1 .. m + o : b[k] = IF k <= m THEN s[k] ELSE u[k - m]
  BY ConcatProperties
<1>2. m \in Nat /\ n \in Nat /\ o \in Nat /\ n <= o /\ \A k \in 1 .. n : t[k] = u[k]
  BY LenType, PrefixIs
<1> HIDE DEF a, b, m, n, o
<1>3. \A k \in 1 .. m + n : a[k] = b[k]
  <2>1. ASSUME NEW k \in 1 .. m + n
        PROVE  a[k] = b[k]
    <3>1. k \in 1 .. m + o /\ (~(k <= m) => k - m \in 1 .. n)
      BY <1>2
    <3>2. QED
      BY <1>1, <1>2, <3>1
  <2>2. QED
    BY <2>1
<1>4. Len(a) <= Len(b) /\ \A k \in 1 .. Len(a) : a[k] = b[k]
  <2>1. m + n <= m + o
    BY <1>2
  <2>2. Len(a) = m + n /\ Len(b) = m + o
    BY <1>1
  <2>3. QED
    BY <1>3, <2>1, <2>2
<1>5. IsPrefix(a, b)
  BY <1>1, <1>4, PrefixIs
<1>6. QED
  BY <1>5 DEF a, b

LEMMA EmptyIsPrefix ==
    ASSUME NEW S, NEW s \in Seq(S)
    PROVE  IsPrefix(<<>>, s)
<1>1. <<>> \in Seq(S) /\ Len(<<>>) = 0 /\ Len(s) \in Nat
  BY LenType
<1>2. Len(<<>>) <= Len(s) /\ \A k \in 1 .. Len(<<>>) : <<>>[k] = s[k]
  BY <1>1
<1>3. QED
  BY <1>1, <1>2, PrefixIs
-----------------------------------------------------------------------------
(* What has arrived and what is still to come.                             *)

LEMMA PartIs ==
    ASSUME NEW S, NEW buf \in Seq(S), NEW m \in 0 .. Len(buf)
    PROVE  LET part == SubSeq(buf, 1, m) IN
           part \in Seq(S) /\ Len(part) = m /\ \A k \in 1 .. m : part[k] = buf[k]
<1> DEFINE part == SubSeq(buf, 1, m)
<1>1. m \in Nat
  BY LenType
<1>2. /\ part \in Seq(S) /\ Len(part) = IF 1 <= m THEN m - 1 + 1 ELSE 0
      /\ \A k \in 1 .. m - 1 + 1 : part[k] = buf[1 + k - 1]
  <2>1. 1 \in Nat \ {0}
    OBVIOUS
  <2>2. QED
    BY <2>1, SubSeqType
<1> HIDE DEF part
<1>3. part \in Seq(S) /\ Len(part) = m /\ \A k \in 1 .. m : part[k] = buf[k]
  BY <1>1, <1>2
<1>4. QED
  BY <1>3 DEF part

\* A packet that is all there reads the same in a part of the buffer.
LEMMA SamePacket ==
    ASSUME NEW buf \in Seq(Unit), NEW m \in 0 .. Len(buf), NEW i \in Nat, i + Prefix <= m
    PROVE  LET part == SubSeq(buf, 1, m) IN
           /\ (Plain(part, i) => Plain(buf, i)) /\ (Plain(buf, i) => Plain(part, i))
           /\ LengthAt(part, i) = LengthAt(buf, i)
           /\ \A length \in Nat : i + length <= m => Line(part, i, length) = Line(buf, i, length)
<1> DEFINE part == SubSeq(buf, 1, m)
           n == Len(buf)
<1>1. /\ n \in Nat /\ m \in Nat /\ m <= n /\ Prefix \in Nat
      /\ part \in Seq(Unit) /\ Len(part) = m /\ \A k \in 1 .. m : part[k] = buf[k]
  BY LenType, PartIs, PktLineAssumption
<1> HIDE DEF part, n
<1>2. (Plain(part, i) => Plain(buf, i)) /\ (Plain(buf, i) => Plain(part, i))
  <2>1. \A k \in 1 .. Prefix : i + k \in 1 .. m
    BY <1>1
  <2>2. \A k \in 1 .. Prefix : part[i + k] = buf[i + k]
    BY <1>1, <2>1
  <2>3. i + Prefix <= n
    BY <1>1
  <2>4. QED
    BY <1>1, <2>2, <2>3 DEF Plain, IsNumber, n
<1>3. LengthAt(part, i) = LengthAt(buf, i)
  <2> DEFINE a == i + 1
             e == i + Prefix
  <2>1. /\ a \in Nat \ {0} /\ e \in 0 .. Len(part) /\ e \in 0 .. Len(buf)
        /\ \A j \in a .. e : part[j] = buf[j]
    BY <1>1 DEF n
  <2> HIDE DEF a, e
  <2>2. SubSeq(part, a, e) = SubSeq(buf, a, e)
    BY <1>1, <2>1, SubSeqSame
  <2>3. QED
    BY <2>2 DEF LengthAt, a, e
<1>4. ASSUME NEW length \in Nat, i + length <= m
      PROVE  Line(part, i, length) = Line(buf, i, length)
  <2> DEFINE a == i + Prefix + 1
             e == i + length
  <2>1. /\ a \in Nat \ {0} /\ e \in 0 .. Len(part) /\ e \in 0 .. Len(buf)
        /\ \A j \in a .. e : part[j] = buf[j]
    BY <1>1, <1>4 DEF n
  <2>2. /\ e = IF i + length < Len(part) THEN i + length ELSE Len(part)
        /\ e = IF i + length < Len(buf) THEN i + length ELSE Len(buf)
    BY <1>1, <1>4 DEF n
  <2> HIDE DEF a, e
  <2>3. SubSeq(part, a, e) = SubSeq(buf, a, e)
    BY <1>1, <2>1, SubSeqSame
  <2>4. Line(part, i, length) = SubSeq(part, a, e) /\ Line(buf, i, length) = SubSeq(buf, a, e)
    BY <2>2 DEF Line, a
  <2>5. QED
    BY <2>3, <2>4
<1>5. QED
  BY <1>2, <1>3, <1>4 DEF part

\* The end lies behind every packet of the section, in the buffer.
LEMMA EndType ==
    ASSUME NEW buf \in Seq(Unit)
    PROVE  \A i \in 0 .. Len(buf) :
               CommandEnd(buf)[i] # None => CommandEnd(buf)[i] \in i + Prefix .. Len(buf)
<1> DEFINE n == Len(buf)
           end == CommandEnd(buf)
           G == {i \in 0 .. n : end[i] # None => end[i] \in i + Prefix .. n}
<1>1. n \in Nat /\ Prefix \in Nat /\ \A i \in 0 .. n : Plain(buf, i) => LengthAt(buf, i) \in Nat
  BY LenType, LengthType, PktLineAssumption
<1>2. ASSUME NEW i \in 0 .. n, \A j \in i + 1 .. n : j \in G
      PROVE  i \in G
  <2> DEFINE length == LengthAt(buf, i)
  <2>1. SUFFICES ASSUME end[i] # None
                 PROVE  end[i] \in i + Prefix .. n
    OBVIOUS
  <2>2. /\ Plain(buf, i)
        /\ end[i] = IF length = 0 THEN i + Prefix
                    ELSE IF length < Prefix \/ i + length > n THEN None ELSE end[i + length]
    BY <2>1, CommandEndIs
  <2>3. length \in Nat /\ i + Prefix <= n
    BY <1>1, <2>2 DEF Plain
  <2> HIDE DEF n, end, length
  <2>4. CASE length = 0
    BY <1>1, <2>2, <2>3, <2>4
  <2>5. CASE length # 0
    <3>1. ~(length < Prefix) /\ ~(i + length > n) /\ end[i] = end[i + length]
      BY <2>1, <2>2, <2>5
    <3>2. i + length \in i + 1 .. n
      BY <1>1, <2>3, <2>5, <3>1
    <3>3. end[i] \in i + length + Prefix .. n
      BY <1>2, <2>1, <3>1, <3>2
    <3>4. QED
      BY <1>1, <2>3, <3>3
  <2>6. QED
    BY <2>4, <2>5
<1> HIDE DEF G
<1>3. \A i \in 0 .. n : i \in G
  <2>1. \A i \in 0 .. n : (\A j \in i + 1 .. n : j \in G) => i \in G
    BY <1>2
  <2>2. QED
    BY <1>1, <2>1, FromTheEnd
<1>4. QED
  BY <1>3 DEF G

\* An end that is found stays where it is, whatever still arrives.
LEMMA EndStays ==
    ASSUME NEW buf \in Seq(Unit), NEW m \in 0 .. Len(buf)
    PROVE  LET part == SubSeq(buf, 1, m) IN
           \A i \in 0 .. m :
               CommandEnd(part)[i] # None => CommandEnd(buf)[i] = CommandEnd(part)[i]
<1> DEFINE part == SubSeq(buf, 1, m)
           n == Len(buf)
           end == CommandEnd(part)
           whole == CommandEnd(buf)
           G == {i \in 0 .. m : end[i] # None => whole[i] = end[i]}
<1>1. /\ n \in Nat /\ m \in Nat /\ m <= n /\ Prefix \in Nat \ {0}
      /\ part \in Seq(Unit) /\ Len(part) = m
  BY LenType, PartIs, PktLineAssumption
<1>2. ASSUME NEW i \in 0 .. m, \A j \in i + 1 .. m : j \in G
      PROVE  i \in G
  <2> DEFINE length == LengthAt(buf, i)
  <2>1. SUFFICES ASSUME end[i] # None
                 PROVE  whole[i] = end[i]
    OBVIOUS
  <2>2. Plain(part, i) /\ i + Prefix <= m
    <3> HIDE DEF part
    <3>1. Plain(part, i)
      BY <1>1, <2>1, CommandEndIs
    <3>2. QED
      BY <1>1, <3>1 DEF Plain
  <2>3. Plain(buf, i) /\ LengthAt(part, i) = length
    BY <2>2, SamePacket
  <2>4. i \in 0 .. n /\ length \in Nat
    BY <1>1, <2>3, LengthType
  <2>5. end[i] = IF length = 0 THEN i + Prefix
                 ELSE IF length < Prefix \/ i + length > m THEN None ELSE end[i + length]
    <3> HIDE DEF part
    <3>1. QED
      BY <1>1, <2>2, <2>3, CommandEndIs
  <2>6. whole[i] = IF length = 0 THEN i + Prefix
                   ELSE IF length < Prefix \/ i + length > n THEN None ELSE whole[i + length]
    BY <2>3, <2>4, CommandEndIs
  <2> HIDE DEF n, end, whole, length
  <2>7. CASE length = 0
    BY <2>5, <2>6, <2>7
  <2>8. CASE length # 0
    <3>1. ~(length < Prefix) /\ ~(i + length > m) /\ end[i] = end[i + length]
      BY <2>1, <2>5, <2>8
    <3>2. i + length \in i + 1 .. m /\ ~(i + length > n)
      BY <1>1, <2>4, <2>8, <3>1
    <3>3. whole[i + length] = end[i + length]
      BY <1>2, <2>1, <3>1, <3>2
    <3>4. QED
      BY <2>6, <2>8, <3>1, <3>2, <3>3
  <2>9. QED
    BY <2>7, <2>8
<1> HIDE DEF G
<1>3. \A i \in 0 .. m : i \in G
  <2>1. \A i \in 0 .. m : (\A j \in i + 1 .. m : j \in G) => i \in G
    BY <1>2
  <2>2. QED
    BY <1>1, <2>1, FromTheEnd
<1>4. QED
  BY <1>3 DEF G
-----------------------------------------------------------------------------
(* The Warden's parser and the forge's reader.                             *)

\* From every packet of the section on, what the forge reads the Warden has parsed: up to
\* the flush they see the same packets, and without a flush the same buffer.
LEMMA Agree ==
    ASSUME NEW text \in Seq(Unit), NEW b \in 0 .. Len(text)
    PROVE  LET head == SubSeq(text, 1, b) IN
           \A i \in 0 .. Len(text) :
               /\ b = Len(text) \/ CommandEnd(text)[i] = b
               /\ Read(text)[i] # None /\ Parsed(head)[i] # None
               => IsPrefix(Read(text)[i], Parsed(head)[i])
<1> DEFINE n == Len(text)
           head == SubSeq(text, 1, b)
           read == Read(text)
           parsed == Parsed(head)
           end == CommandEnd(text)
           Within(i) == b = n \/ end[i] = b
           G == {i \in 0 .. n : Within(i) /\ read[i] # None /\ parsed[i] # None
                                => IsPrefix(read[i], parsed[i])}
<1>1. /\ n \in Nat /\ b \in Nat /\ b <= n /\ Prefix \in Nat \ {0} /\ b # None
      /\ head \in Seq(Unit) /\ Len(head) = b
  BY LenType, PartIs, PktLineAssumption
<1>2. \A i \in 0 .. n : end[i] = b => i + Prefix <= b
  <2>1. \A i \in 0 .. n : end[i] = b => b \in i + Prefix .. n
    BY <1>1, EndType
  <2>2. QED
    BY <1>1, <2>1
<1>3. ASSUME NEW i \in 0 .. n, \A j \in i + 1 .. n : j \in G
      PROVE  i \in G
  <2> DEFINE length == LengthAt(text, i)
  <2>1. SUFFICES ASSUME Within(i), read[i] # None, parsed[i] # None
                 PROVE  IsPrefix(read[i], parsed[i])
    OBVIOUS
  <2>2. i \in 0 .. b
    BY <1>1, <1>2, <2>1
  <2>3. parsed[i] \in Lines
    <3> HIDE DEF head
    <3>1. QED
      BY <1>1, <2>1, <2>2, ParsedIs
  <2>4. /\ Plain(text, i)
        /\ read[i] = IF length < Prefix THEN <<>>
                     ELSE IF i + length > n THEN None
                     ELSE IF read[i + length] = None THEN None
                     ELSE Commands(Line(text, i, length)) \o read[i + length]
    BY <2>1, ReadIs
  <2>5. length \in Nat
    BY <2>4, LengthType
  <2>6. CASE length < Prefix
    <3>1. read[i] = <<>>
      BY <2>4, <2>6
    <3> HIDE DEF read, parsed
    <3>2. QED
      BY <2>3, <3>1, EmptyIsPrefix DEF Lines
  <2>7. CASE ~(length < Prefix)
    <3> DEFINE j == i + length
               line == Commands(Line(text, i, length))
    <3>1. ~(j > n) /\ read[j] # None /\ read[i] = line \o read[j] /\ length # 0
      <4>1. length # 0
        BY <1>1, <2>7
      <4> HIDE DEF read, n, length
      <4>2. QED
        BY <2>1, <2>4, <2>7, <4>1
    <3>2. j \in i + 1 .. n /\ i + Prefix <= j /\ j \in Nat
      BY <1>1, <2>5, <2>7, <3>1
    <3>3. Within(j) /\ j <= b
      <4>1. CASE b = n
        BY <3>2, <4>1
      <4>2. CASE end[i] = b
        <5>1. end[i] = end[j]
          <6>1. end[i] # None
            BY <1>1, <4>2
          <6>2. end[i] = IF ~Plain(text, i) THEN None
                         ELSE IF length = 0 THEN i + Prefix
                         ELSE IF length < Prefix \/ i + length > Len(text) THEN None
                         ELSE end[i + length]
            BY CommandEndIs
          <6> HIDE DEF end, length
          <6>3. QED
            BY <2>4, <2>7, <3>1, <6>1, <6>2
        <5>2. j + Prefix <= b
          BY <1>2, <3>2, <4>2, <5>1
        <5>3. QED
          BY <1>1, <3>2, <4>2, <5>1, <5>2
      <4>3. QED
        BY <2>1, <4>1, <4>2
    <3>4. i \in Nat /\ i + Prefix <= b /\ i + length <= b
      BY <1>1, <3>2, <3>3
    <3>5. Plain(head, i) /\ LengthAt(head, i) = length /\ Line(head, i, length) = Line(text, i, length)
      BY <2>4, <2>5, <3>4, SamePacket
    <3>6. parsed[j] # None /\ parsed[j] \in Lines /\ parsed[i] = line \o parsed[j]
      <4>1. parsed[i] = IF length = 0 THEN <<>>
                        ELSE IF Behind(head, i) = None THEN None
                        ELSE line \o Behind(head, i)
        <5> HIDE DEF head, length
        <5>1. parsed[i] = IF LengthAt(head, i) = 0 THEN <<>>
                          ELSE IF Behind(head, i) = None THEN None
                          ELSE Commands(Line(head, i, LengthAt(head, i))) \o Behind(head, i)
          BY <1>1, <2>2, <3>5, ParsedIs
        <5>2. QED
          BY <3>5, <5>1
      <4>2. Behind(head, i) = parsed[j]
        <5>1. ~(i + LengthAt(head, i) > Len(head))
          BY <1>1, <2>5, <3>4, <3>5
        <5>2. i + LengthAt(head, i) = j
          BY <3>5
        <5>3. QED
          BY <5>1, <5>2 DEF Behind
      <4>3. parsed[j] \in Lines \cup {None}
        <5>1. j \in 0 .. b
          BY <1>1, <3>2, <3>3
        <5> HIDE DEF head, j
        <5>2. QED
          BY <1>1, <5>1, ParsedIs
      <4> HIDE DEF head, parsed, line, j
      <4>4. QED
        BY <2>1, <3>1, <4>1, <4>2, <4>3
    <3>7. IsPrefix(read[j], parsed[j])
      <4> HIDE DEF read, parsed, Within, j
      <4>1. j \in G
        BY <1>3, <3>2
      <4>2. QED
        BY <3>1, <3>3, <3>6, <4>1
    <3>8. line \in Lines /\ read[j] \in Lines
      <4>1. i \in Nat /\ j \in 0 .. n
        BY <1>1, <3>2
      <4>2. line \in Lines
        BY <2>5, <4>1, LineType
      <4>3. read[j] \in Lines
        BY <3>1, <4>1, ReadIs
      <4>4. QED
        BY <4>2, <4>3
    <3> HIDE DEF read, parsed, line, j
    <3>9. QED
      BY <3>1, <3>6, <3>7, <3>8, PrefixBehind DEF Lines
  <2>8. QED
    BY <2>6, <2>7
<1> HIDE DEF G
<1>4. \A i \in 0 .. n : i \in G
  <2>1. \A i \in 0 .. n : (\A j \in i + 1 .. n : j \in G) => i \in G
    BY <1>3
  <2>2. QED
    BY <1>1, <2>1, FromTheEnd
<1>5. QED
  BY <1>4 DEF G

LEMMA ForgeAgrees ==
    ASSUME NEW text \in Seq(Unit), NEW b \in 0 .. Len(text),
           b = Len(text) \/ FindCommandEnd(text) = b,
           ParseCommands(SubSeq(text, 1, b)) # None
    PROVE  IsPrefix(ForgeCommands(text), ParseCommands(SubSeq(text, 1, b)))
<1> DEFINE head == SubSeq(text, 1, b)
<1>1. head \in Seq(Unit) /\ Len(head) = b /\ 0 \in 0 .. b /\ 0 \in 0 .. Len(text)
  BY LenType, PartIs
<1>2. Parsed(head)[0] \in Lines
  <2> HIDE DEF head
  <2>1. Parsed(head)[0] \in Lines \cup {None}
    BY <1>1, ParsedIs
  <2>2. QED
    BY <2>1 DEF head, ParseCommands
<1>3. CASE Read(text)[0] = None
  BY <1>2, <1>3, EmptyIsPrefix DEF ForgeCommands, ParseCommands, Lines
<1>4. CASE Read(text)[0] # None
  <2>1. IsPrefix(Read(text)[0], Parsed(head)[0])
    BY <1>1, <1>4, Agree DEF FindCommandEnd, ParseCommands
  <2>2. QED
    BY <1>4, <2>1 DEF ForgeCommands, ParseCommands
<1>5. QED
  BY <1>3, <1>4
-----------------------------------------------------------------------------
(* The inductive invariant.                                                *)

\* What has arrived.
Text == SubSeq(body, 1, received)

\* The head ends at the flush, or with the body if that has none.
Bounded ==
    \/ boundary \in 0 .. received /\ FindCommandEnd(Text) = boundary
    \/ boundary = received /\ received = Len(body) /\ FindCommandEnd(body) = None

PktInv ==
    /\ body \in Bodies /\ encoded \in BOOLEAN /\ received \in 0 .. Len(body)
    /\ phase \in {"read", "parse", "judge", "head", "rest", "done", "denied", "failed"}
    /\ boundary # None => Bounded
    /\ phase = "read" => boundary = None /\ FindCommandEnd(Text) = None
    /\ phase \notin {"read", "failed"} => boundary # None
    /\ cmds \in Lines
    /\ phase \in {"judge", "head", "rest", "done", "denied"} =>
           cmds = ParseCommands(Decompress(Head1))
    /\ phase \in {"rest", "done"} => sent = Text
    /\ phase \in {"read", "parse", "judge", "head", "denied"} => sent = <<>>
    /\ phase = "failed" => sent \in {<<>>, Text}
    /\ phase = "done" => received = Len(body)

LEMMA BodyType ==
    ASSUME body \in Bodies
    PROVE  body \in Seq(Unit) /\ Len(body) \in Nat
BY PktLineAssumption, LenType

LEMMA FindType ==
    ASSUME NEW buf \in Seq(Unit), FindCommandEnd(buf) # None
    PROVE  FindCommandEnd(buf) \in Prefix .. Len(buf)
<1>1. Len(buf) \in Nat /\ Prefix \in Nat
  BY LenType, PktLineAssumption
<1>2. 0 \in 0 .. Len(buf) /\ 0 + Prefix = Prefix
  BY <1>1
<1>3. CommandEnd(buf)[0] \in 0 + Prefix .. Len(buf)
  BY <1>2, EndType DEF FindCommandEnd
<1>4. QED
  BY <1>2, <1>3 DEF FindCommandEnd

LEMMA TextType ==
    ASSUME body \in Bodies, NEW m \in 0 .. Len(body)
    PROVE  SubSeq(body, 1, m) \in Seq(Unit) /\ Len(SubSeq(body, 1, m)) = m /\ m \in Nat
BY BodyType, PartIs

\* More of the body does not move the flush.
LEMMA EndGrows ==
    ASSUME body \in Bodies, NEW n \in 0 .. Len(body), NEW m \in 0 .. n,
           FindCommandEnd(SubSeq(body, 1, m)) # None
    PROVE  FindCommandEnd(SubSeq(body, 1, n)) = FindCommandEnd(SubSeq(body, 1, m))
<1> DEFINE buf == SubSeq(body, 1, n)
           part == SubSeq(body, 1, m)
<1>1. m \in 0 .. Len(body) /\ m \in Nat /\ n \in Nat
  BY BodyType
<1>2. /\ body \in Seq(Unit) /\ buf \in Seq(Unit) /\ Len(buf) = n
      /\ \A k \in 1 .. n : buf[k] = body[k]
  BY BodyType, PartIs
<1>3. SubSeq(buf, 1, m) = part
  <2>1. 1 \in Nat \ {0} /\ m \in 0 .. Len(buf) /\ \A j \in 1 .. m : buf[j] = body[j]
    BY <1>1, <1>2
  <2> HIDE DEF buf
  <2>2. QED
    BY <1>1, <1>2, <2>1, SubSeqSame
<1> HIDE DEF buf, part
<1>4. CommandEnd(buf)[0] = CommandEnd(part)[0]
  <2>1. m \in 0 .. Len(buf) /\ 0 \in 0 .. m
    BY <1>1, <1>2
  <2>2. CommandEnd(part)[0] # None
    BY DEF part, FindCommandEnd
  <2>3. QED
    BY <1>2, <1>3, <2>1, <2>2, EndStays
<1>5. QED
  BY <1>4 DEF FindCommandEnd, buf, part

LEMMA DecompressType ==
    ASSUME NEW buf \in Seq(Unit)
    PROVE  Decompress(buf) \in Seq(Unit)
BY HeadTailProperties DEF Decompress, Zipped

LEMMA ParseType ==
    ASSUME NEW buf \in Seq(Unit)
    PROVE  ParseCommands(buf) \in Lines \cup {None}
<1>1. 0 \in 0 .. Len(buf)
  BY LenType
<1>2. QED
  BY <1>1, ParsedIs DEF ParseCommands

LEMMA BoundaryType ==
    ASSUME PktInv
    PROVE  boundary \in {None} \cup 0 .. received
<1>1. received \in 0 .. received
  BY BodyType DEF PktInv
<1>2. QED
  BY <1>1 DEF PktInv, Bounded

LEMMA InitPkt ==
    ASSUME Init
    PROVE  PktInv
<1>1. /\ body \in Bodies /\ encoded \in BOOLEAN /\ received = 0 /\ phase = "read"
      /\ boundary = None /\ cmds = <<>> /\ sent = <<>>
  BY DEF Init
<1>2. received \in 0 .. Len(body) /\ cmds \in Lines
  BY <1>1, BodyType DEF Lines
<1>3. FindCommandEnd(Text) = None
  <2>1. Text \in Seq(Unit) /\ Len(Text) = 0
    BY <1>1, <1>2, TextType DEF Text
  <2>2. SUFFICES ASSUME FindCommandEnd(Text) # None
                 PROVE  FALSE
    OBVIOUS
  <2>3. FindCommandEnd(Text) \in Prefix .. 0
    BY <2>1, <2>2, FindType
  <2>4. QED
    BY <2>3, PktLineAssumption
<1>4. QED
  BY <1>1, <1>2, <1>3 DEF PktInv

LEMMA ReceivePkt ==
    ASSUME PktInv, Receive
    PROVE  PktInv'
<1>1. PICK n \in received + 1 .. Len(body) :
          /\ received' = n /\ boundary' = FindCommandEnd(SubSeq(body, 1, n))
          /\ phase' = IF boundary' = None THEN "read" ELSE "parse"
          /\ phase = "read" /\ UNCHANGED <<body, encoded, cmds, sent>>
  BY DEF Receive
<1>2. body \in Bodies /\ n \in 0 .. Len(body) /\ n \in Nat
  BY <1>1, BodyType DEF PktInv
<1>3. Text' = SubSeq(body, 1, n)
  BY <1>1 DEF Text
<1>4. ASSUME boundary' # None
      PROVE  Bounded'
  <2> DEFINE t == SubSeq(body, 1, n)
  <2>1. t \in Seq(Unit) /\ Len(t) = n
    BY <1>2, TextType
  <2>2. boundary' = FindCommandEnd(t)
    BY <1>1
  <2> HIDE DEF t
  <2>3. boundary' \in Prefix .. n
    BY <1>4, <2>1, <2>2, FindType
  <2>4. boundary' \in 0 .. n
    BY <1>2, <2>3, PktLineAssumption
  <2>5. QED
    BY <1>1, <1>3, <2>2, <2>4 DEF Bounded, t
<1>5. sent = <<>>
  BY <1>1 DEF PktInv
<1>6. QED
  BY <1>1, <1>2, <1>3, <1>4, <1>5 DEF PktInv

LEMMA StreamEndsPkt ==
    ASSUME PktInv, StreamEnds
    PROVE  PktInv'
<1>1. /\ phase = "read" /\ received = Len(body) /\ boundary' = received /\ phase' = "parse"
      /\ UNCHANGED <<body, encoded, received, cmds, sent>>
  BY DEF StreamEnds
<1>2. received \in Nat /\ None \notin Nat
  BY BodyType, PktLineAssumption DEF PktInv
<1>3. Text = body
  BY <1>1, BodyType, SubSeqFull DEF Text, PktInv
<1>4. FindCommandEnd(body) = None
  BY <1>1, <1>3 DEF PktInv
<1>5. Bounded'
  BY <1>1, <1>4 DEF Bounded
<1>6. QED
  BY <1>1, <1>2, <1>5 DEF PktInv

LEMMA ParsePkt ==
    ASSUME PktInv, Parse
    PROVE  PktInv'
<1> DEFINE parsed == ParseCommands(Decompress(Head1))
<1>1. /\ phase = "parse" /\ UNCHANGED <<body, encoded, received, boundary, sent>>
      /\ \/ parsed = None /\ phase' = "failed" /\ cmds' = cmds
         \/ parsed # None /\ phase' = "judge" /\ cmds' = parsed
  BY DEF Parse
<1>2. parsed \in Lines \cup {None}
  <2>1. boundary \in 0 .. received /\ body \in Bodies
    BY <1>1, BoundaryType DEF PktInv
  <2>2. boundary \in 0 .. Len(body)
    BY <2>1, BodyType DEF PktInv
  <2>3. Head1 \in Seq(Unit)
    BY <2>1, <2>2, TextType DEF Head1
  <2> HIDE DEF parsed
  <2>4. QED
    BY <2>3, DecompressType, ParseType DEF parsed
<1>3. Text' = Text /\ (Bounded => Bounded') /\ Head1' = Head1
  BY <1>1 DEF Text, Bounded, Head1
<1>4. sent = <<>>
  BY <1>1 DEF PktInv
<1>5. parsed' = parsed
  BY <1>3 DEF Decompress, Zipped
<1> HIDE DEF parsed
<1>6. QED
  BY <1>1, <1>2, <1>3, <1>4, <1>5 DEF PktInv, parsed

LEMMA JudgePkt ==
    ASSUME PktInv, Judge \/ Disconnect \/ UNCHANGED vars
    PROVE  PktInv'
<1>1. /\ UNCHANGED <<body, encoded, received, boundary, cmds, sent>>
      /\ \/ phase = "judge" /\ phase' \in {"denied", "head"}
         \/ phase \in {"read", "head", "rest"} /\ phase' = "failed"
         \/ phase' = phase
  BY DEF Judge, Disconnect, vars
<1>2. Text' = Text /\ (Bounded => Bounded') /\ Head1' = Head1
  BY <1>1 DEF Text, Bounded, Head1
<1>3. ParseCommands(Decompress(Head1))' = ParseCommands(Decompress(Head1))
  BY <1>2 DEF Decompress, Zipped
<1>4. QED
  BY <1>1, <1>2, <1>3 DEF PktInv

LEMMA SendHeadPkt ==
    ASSUME PktInv, SendHead
    PROVE  PktInv'
<1>1. /\ phase = "head" /\ phase' = "rest"
      /\ UNCHANGED <<body, encoded, received, boundary, cmds>>
      /\ sent' = sent \o Head1 \o SubSeq(body, boundary + 1, received)
  BY DEF SendHead
<1>2. Text' = Text /\ (Bounded => Bounded') /\ Head1' = Head1
  BY <1>1 DEF Text, Bounded, Head1
<1>3. ParseCommands(Decompress(Head1))' = ParseCommands(Decompress(Head1))
  BY <1>2 DEF Decompress, Zipped
<1>4. sent' = Text
  <2>1. boundary \in 0 .. received /\ body \in Seq(Unit) /\ Len(body) \in Nat /\ sent = <<>>
    BY <1>1, BoundaryType, BodyType DEF PktInv
  <2>2. /\ 1 \in 1 .. Len(body) + 1 /\ boundary \in 1 - 1 .. Len(body)
        /\ received \in boundary .. Len(body) /\ boundary \in 0 .. Len(body)
    BY <2>1 DEF PktInv
  <2>3. SubSeq(body, 1, boundary) \o SubSeq(body, boundary + 1, received) = SubSeq(body, 1, received)
    BY <2>1, <2>2, ConcatAdjacentSubSeq
  <2>4. <<>> \o Head1 = Head1
    <3>1. Head1 \in Seq(Unit)
      BY <2>1, <2>2, PartIs DEF Head1
    <3>2. QED
      BY <3>1, ConcatEmptySeq
  <2>5. QED
    BY <1>1, <2>1, <2>3, <2>4 DEF Head1, Text
<1>5. QED
  BY <1>1, <1>2, <1>3, <1>4 DEF PktInv

LEMMA RelayPkt ==
    ASSUME PktInv, Relay
    PROVE  PktInv'
<1>1. /\ phase = "rest" /\ UNCHANGED <<body, encoded, boundary, cmds>> /\ sent = Text
      /\ boundary # None /\ Bounded /\ received \in 0 .. Len(body) /\ body \in Bodies
  BY DEF Relay, PktInv
<1>2. Head1' = Head1
  BY <1>1 DEF Head1
<1>3. ParseCommands(Decompress(Head1))' = ParseCommands(Decompress(Head1))
  BY <1>2 DEF Decompress, Zipped
<1>4. CASE received = Len(body) /\ phase' = "done" /\ UNCHANGED <<sent, received>>
  <2>1. Text' = Text /\ Bounded'
    BY <1>1, <1>4 DEF Text, Bounded
  <2>2. QED
    BY <1>1, <1>2, <1>3, <1>4, <2>1 DEF PktInv
<1>5. ASSUME NEW n \in received + 1 .. Len(body),
             sent' = sent \o SubSeq(body, received + 1, n), received' = n, UNCHANGED phase
      PROVE  PktInv'
  <2>1. /\ body \in Seq(Unit) /\ Len(body) \in Nat /\ received \in Nat /\ n \in Nat
        /\ received < n /\ n <= Len(body)
    BY <1>1, <1>5, BodyType
  <2>2. Text' = SubSeq(body, 1, n)
    BY <1>1, <1>5 DEF Text
  <2>3. sent' = Text'
    <3>1. /\ 1 \in 1 .. Len(body) + 1 /\ received \in 1 - 1 .. Len(body)
          /\ n \in received .. Len(body)
      BY <2>1
    <3>2. SubSeq(body, 1, received) \o SubSeq(body, received + 1, n) = SubSeq(body, 1, n)
      BY <2>1, <3>1, ConcatAdjacentSubSeq
    <3>3. QED
      BY <1>1, <1>5, <2>2, <3>2 DEF Text
  <2>4. Bounded'
    <3>1. boundary \in 0 .. received /\ FindCommandEnd(Text) = boundary
      BY <1>1, <2>1 DEF Bounded
    <3>2. n \in 0 .. Len(body) /\ received \in 0 .. n /\ boundary \in 0 .. n
      BY <2>1, <3>1
    <3>3. FindCommandEnd(SubSeq(body, 1, n)) = boundary
      BY <1>1, <3>1, <3>2, EndGrows DEF Text
    <3>4. QED
      BY <1>1, <1>5, <2>2, <3>2, <3>3 DEF Bounded
  <2>5. received' \in 0 .. Len(body)'
    BY <1>1, <1>5, <2>1
  <2>6. QED
    BY <1>1, <1>2, <1>3, <1>5, <2>3, <2>4, <2>5 DEF PktInv
<1>6. QED
  BY <1>4, <1>5 DEF Relay

LEMMA NextPkt ==
    ASSUME PktInv, [Next]_vars
    PROVE  PktInv'
BY ReceivePkt, StreamEndsPkt, ParsePkt, JudgePkt, SendHeadPkt, RelayPkt DEF Next

LEMMA PktInvariance == Spec => []PktInv
BY InitPkt, NextPkt, PTL DEF Spec
-----------------------------------------------------------------------------
(* The theorems.                                                           *)

LEMMA SentIsPart ==
    ASSUME PktInv
    PROVE  sent \in Seq(Unit) /\ ForwardedOnce
<1>1. body \in Seq(Unit) /\ received \in 0 .. Len(body) /\ sent \in {<<>>, Text}
  BY BodyType DEF PktInv
<1>2. Text \in Seq(Unit) /\ Len(Text) = received /\ \A k \in 1 .. received : Text[k] = body[k]
  BY <1>1, PartIs DEF Text
<1>3. IsPrefix(Text, body)
  <2>1. Len(Text) <= Len(body)
    BY <1>1, <1>2, LenType
  <2>2. QED
    BY <1>1, <1>2, <2>1, PrefixIs
<1>4. IsPrefix(sent, body)
  BY <1>1, <1>3, EmptyIsPrefix
<1>5. phase = "done" => sent = body
  BY <1>1, SubSeqFull DEF PktInv, Text
<1>6. <<>> \in Seq(Unit)
  OBVIOUS
<1>7. QED
  BY <1>1, <1>2, <1>4, <1>5, <1>6 DEF ForwardedOnce

\* What is buffered, parsed and sent has its type, and the head ends in what has arrived,
\* for any bodies and any way to cut them into chunks (read_until_flush).
THEOREM PktTypeCorrect == Spec => []TypeOK
<1>1. PktInv => TypeOK
  BY BoundaryType, SentIsPart DEF PktInv, TypeOK, Lines
<1>2. QED
  BY <1>1, PktInvariance, PTL

\* For any body and any chunks, what was forwarded is a prefix of the body, and all of it
\* once the push is over (GitGuard.forward).
THEOREM BytesForwardedOnce == Spec => []ForwardedOnce
BY SentIsPart, PktInvariance, PTL

\* For any body and any chunks the head that is judged ends at the first flush of the whole
\* body, or with the body if it has none (read_until_flush).
THEOREM BoundaryIsTheBodys == Spec => []ChunksDoNotMatter
<1>1. ASSUME PktInv, boundary # None
      PROVE  boundary = IF FindCommandEnd(body) = None THEN Len(body) ELSE FindCommandEnd(body)
  <2>1. CASE boundary = received /\ received = Len(body) /\ FindCommandEnd(body) = None
    BY <2>1
  <2>2. CASE boundary \in 0 .. received /\ FindCommandEnd(Text) = boundary
    <3>1. /\ body \in Bodies /\ body \in Seq(Unit) /\ Len(body) \in 0 .. Len(body)
          /\ received \in 0 .. Len(body)
      BY <1>1, BodyType DEF PktInv
    <3>2. FindCommandEnd(SubSeq(body, 1, Len(body))) = FindCommandEnd(Text)
      BY <1>1, <2>2, <3>1, EndGrows DEF Text
    <3>3. FindCommandEnd(body) = boundary
      BY <2>2, <3>1, <3>2, SubSeqFull
    <3>4. QED
      BY <1>1, <3>3
  <2>3. QED
    BY <1>1, <2>1, <2>2 DEF PktInv, Bounded
<1>2. PktInv => ChunksDoNotMatter
  BY <1>1 DEF ChunksDoNotMatter
<1>3. QED
  BY <1>2, PktInvariance, PTL

\* Where there is a flush, the body starts with a digit and is not taken for gzip.
LEMMA PlainHead ==
    ASSUME NEW text \in Seq(Unit), FindCommandEnd(text) # None
    PROVE  text # <<>> /\ text[1] \in Digit /\ text[1] # Magic
<1>1. Prefix \in Nat \ {0} /\ Len(text) \in Nat
  BY LenType, PktLineAssumption
<1>2. Plain(text, 0)
  <2>1. 0 \in 0 .. Len(text)
    BY <1>1
  <2>2. QED
    BY <2>1, CommandEndIs DEF FindCommandEnd
<1>3. 0 + Prefix <= Len(text) /\ text[0 + 1] \in Digit
  BY <1>1, <1>2 DEF Plain, IsNumber
<1>4. Len(text) # 0 /\ 0 + 1 = 1
  BY <1>1, <1>3
<1>5. text # <<>>
  BY <1>4
<1>6. QED
  BY <1>3, <1>4, <1>5, PktLineAssumption

\* Every command the forge reads out of what it was sent was parsed and judged before, in
\* that order, compressed or not, for any body and any chunks (parse_commands against
\* receive-pack's reader).
THEOREM JudgedBeforeExecuted == Spec => []ExecutedWasJudged
<1>1. ASSUME PktInv, phase \in {"rest", "done"}
      PROVE  IsPrefix(Executed, cmds)
  <2>1. /\ sent = Text /\ cmds = ParseCommands(Decompress(Head1)) /\ cmds \in Lines
        /\ Bounded /\ boundary # None /\ cmds # None
    BY <1>1, PktLineAssumption DEF PktInv, Lines
  <2>2. /\ body \in Bodies /\ body \in Seq(Unit) /\ received \in 0 .. Len(body)
        /\ boundary \in 0 .. received /\ received \in Nat
    BY <1>1, <2>1, BoundaryType, BodyType DEF PktInv
  <2>3. /\ Text \in Seq(Unit) /\ Len(Text) = received
        /\ \A k \in 1 .. received : Text[k] = body[k]
    BY <2>2, PartIs DEF Text
  <2>4. IsPrefix(<<>>, cmds)
    BY <2>1, EmptyIsPrefix DEF Lines
  <2>5. CASE FindCommandEnd(Text) = boundary
    <3>1. Text # <<>> /\ Text[1] # Magic
      BY <2>1, <2>3, <2>5, PlainHead
    <3>2. Head1 = SubSeq(Text, 1, boundary)
      <4>1. boundary \in 0 .. Len(Text) /\ boundary \in 0 .. Len(body) /\ 1 \in Nat \ {0}
        BY <2>2, <2>3, BodyType
      <4>2. \A j \in 1 .. boundary : Text[j] = body[j]
        BY <2>2, <2>3
      <4> HIDE DEF Text
      <4>3. SubSeq(Text, 1, boundary) = SubSeq(body, 1, boundary)
        BY <2>2, <2>3, <4>1, <4>2, SubSeqSame
      <4>4. QED
        BY <4>3 DEF Head1
    <3>3. ~Zipped(Text) /\ ~Zipped(Head1)
      <4>1. boundary \in Prefix .. received
        BY <2>1, <2>3, <2>5, FindType
      <4>2. boundary \in 0 .. Len(Text) /\ 1 \in 1 .. boundary
        BY <2>2, <2>3, <4>1, PktLineAssumption
      <4>3. Head1[1] = Text[1]
        BY <2>3, <3>2, <4>2, PartIs
      <4>4. QED
        BY <3>1, <4>3 DEF Zipped
    <3>4. cmds = ParseCommands(SubSeq(Text, 1, boundary))
      BY <2>1, <3>2, <3>3 DEF Decompress
    <3>5. boundary \in 0 .. Len(Text)
      BY <2>2, <2>3
    <3>6. IsPrefix(ForgeCommands(Text), cmds)
      BY <2>1, <2>3, <2>5, <3>4, <3>5, ForgeAgrees
    <3>7. Executed \in {<<>>, ForgeCommands(Text)}
      BY <2>1, <3>3 DEF Executed
    <3>8. QED
      BY <2>4, <3>6, <3>7
  <2>6. CASE boundary = received /\ received = Len(body)
    <3>1. Text = body /\ Head1 = body
      BY <2>2, <2>6, SubSeqFull DEF Text, Head1
    <3>2. ASSUME NEW buf \in Seq(Unit), cmds = ParseCommands(buf)
          PROVE  IsPrefix(ForgeCommands(buf), cmds)
      <4>1. SubSeq(buf, 1, Len(buf)) = buf /\ Len(buf) \in 0 .. Len(buf)
        BY SubSeqFull, LenType
      <4>2. QED
        BY <2>1, <3>2, <4>1, ForgeAgrees
    <3>3. CASE Zipped(body)
      <4>1. Tail(body) \in Seq(Unit)
        BY <2>2, <3>3, HeadTailProperties DEF Zipped
      <4>2. cmds = ParseCommands(Tail(body))
        BY <2>1, <3>1, <3>3 DEF Decompress
      <4>3. IsPrefix(ForgeCommands(Tail(body)), cmds)
        BY <3>2, <4>1, <4>2
      <4>4. ForgeCommands(body) = <<>>
        <5>1. body[1] = Magic /\ 0 \in 0 .. Len(body) /\ Prefix \in Nat \ {0}
          BY <2>2, <3>3, LenType, PktLineAssumption DEF Zipped
        <5>2. ~Plain(body, 0)
          <6>1. body[0 + 1] \notin Digit /\ 1 \in 1 .. Prefix
            BY <5>1, PktLineAssumption
          <6>2. QED
            BY <6>1 DEF Plain, IsNumber
        <5>3. Read(body)[0] = None
          BY <2>2, <5>1, <5>2, ReadIs
        <5>4. QED
          BY <5>3 DEF ForgeCommands
      <4>5. QED
        BY <2>1, <2>4, <3>1, <3>3, <4>3, <4>4 DEF Executed
    <3>4. CASE ~Zipped(body)
      <4>1. IsPrefix(ForgeCommands(body), cmds)
        BY <2>1, <2>2, <3>1, <3>2, <3>4 DEF Decompress
      <4>2. QED
        BY <2>1, <2>4, <3>1, <3>4, <4>1 DEF Executed
    <3>5. QED
      BY <3>3, <3>4
  <2>7. QED
    BY <2>1, <2>5, <2>6 DEF Bounded
<1>2. PktInv => ExecutedWasJudged
  BY <1>1 DEF ExecutedWasJudged
<1>3. QED
  BY <1>2, PktInvariance, PTL
=============================================================================
