--------------------------- MODULE OperatorProofs ---------------------------
(***************************************************************************)
(* The files at the command line: for any texts, any spellings of any      *)
(* hosts, any answers and any number of commands.                          *)
(*                                                                         *)
(* What a reader makes of a text holds of any text the Warden accepts;     *)
(* that there is always a text to read, and a host to write for, is an     *)
(* invariant of the edits, the type invariant.  The token files are        *)
(* rewritten line by line, which is followed from the first line on        *)
(* (FromTheStart).                                                         *)
(***************************************************************************)
EXTENDS Operator, FiniteSetTheorems, SequenceTheorems, WellFoundedInduction, TLAPS

-----------------------------------------------------------------------------
(* What a loaded file grants.                                              *)

\* A granted endpoint is the one endpoint table of its host.
LEMMA GrantedIs ==
    ASSUME NEW text, NEW files, GitParses(text), NEW k \in EndpointHeads(text)
    PROVE  LET e == EndpointAt(text, k)
               h == NormalOf(Value(text, k, "host")) IN
           /\ h \in Hosts(text)
           /\ Enforced(text, files)[h].mode = AccessMode(files, h)
           /\ Enforced(text, files)[h].actions = EffectiveActions(text, e)
           /\ Enforced(text, files)[h].rules = EffectiveRules(text, e)
<1> DEFINE h == NormalOf(Value(text, k, "host"))
           picked == CHOOSE j \in EndpointHeads(text) : NormalOf(Value(text, j, "host")) = h
<1>1. h \in Hosts(text)
  BY DEF Hosts
<1>2. picked = k
  BY Zenon DEF GitParses
<1> DEFINE grant(g) ==
             LET e == EndpointAt(text, CHOOSE j \in EndpointHeads(text) :
                                           NormalOf(Value(text, j, "host")) = g)
             IN [mode |-> AccessMode(files, g),
                 type |-> e.type,
                 projects |-> IF e.projects = Unset THEN {} ELSE e.projects \ {""},
                 actions |-> EffectiveActions(text, e),
                 rules |-> EffectiveRules(text, e)]
<1>3. Enforced(text, files) = [g \in Hosts(text) |-> grant(g)]
  BY DEF Enforced
<1> HIDE DEF h
<1>4. Enforced(text, files)[h] = grant(h)
  BY <1>1, <1>3, Zenon
<1>5. /\ grant(h).mode = AccessMode(files, h)
      /\ grant(h).actions = EffectiveActions(text, EndpointAt(text, picked))
      /\ grant(h).rules = EffectiveRules(text, EndpointAt(text, picked))
  OBVIOUS
<1> HIDE DEF grant, picked
<1>6. QED
  BY <1>1, <1>2, <1>4, <1>5 DEF h

\* Every limit the cascade arrives at is a valid one, although only what each table sets
\* is validated, and an explicit empty list of actions grants nothing (effective_rules
\* and effective_actions after from_env has returned).
THEOREM EnforcedRulesValid == Spec => []EnforcedIsValid
<1>1. ASSUME Loads(toml, tokens), NEW k \in EndpointHeads(toml)
      PROVE  LET e == EndpointAt(toml, k)
                 granted == Enforced(toml, tokens)[NormalOf(e.host)] IN
             /\ RulesValid(granted.rules)
             /\ Unset \notin {granted.rules.prefixes, granted.rules.quota}
             /\ granted.actions \subseteq ValidActions(e.type)
             /\ {} \in {e.actions, IF e.actions = Unset THEN GitActions(toml) ELSE Unset} =>
                    granted.actions = {}
  <2> DEFINE e == EndpointAt(toml, k)
             granted == Enforced(toml, tokens)[NormalOf(e.host)]
             domain == GitRules(toml)
  <2>1. /\ granted.actions = EffectiveActions(toml, e)
        /\ granted.rules = EffectiveRules(toml, e)
    BY <1>1, GrantedIs DEF EndpointAt, Loads
  <2>2. RulesValid(e.rules) /\ RulesValid(domain)
    BY <1>1 DEF Loads, Validate
  <2>3. e.actions # Unset => e.actions \subseteq ValidActions(e.type)
    BY <1>1 DEF Loads, GitParses, EndpointParses
  <2>4. Unset # {} /\ Unset # {"5"} /\ Unset # {"claude/"}
    BY TomlAssumption
  <2> HIDE DEF e, granted, domain
  <2>5. RulesValid(granted.rules) /\ Unset \notin {granted.rules.prefixes, granted.rules.quota}
    <3>1. /\ granted.rules.prefixes = Cascade(e.rules.prefixes, domain.prefixes, {"claude/"})
          /\ granted.rules.quota = Cascade(e.rules.quota, domain.quota, {"5"})
      BY <2>1 DEF EffectiveRules, domain
    <3>2. {"5"} # {"0"} /\ "" \notin {"claude/"}
      OBVIOUS
    <3>3. QED
      BY <2>2, <2>4, <3>1, <3>2 DEF RulesValid, Cascade
  <2>6. granted.actions \subseteq ValidActions(e.type)
    BY <2>1, <2>3 DEF EffectiveActions
  <2>7. {} \in {e.actions, IF e.actions = Unset THEN GitActions(toml) ELSE Unset} =>
            granted.actions = {}
    BY <2>1, <2>4 DEF EffectiveActions, Cascade
  <2>8. QED
    BY <2>5, <2>6, <2>7 DEF e, granted
<1>2. EnforcedIsValid
  BY <1>1 DEF EnforcedIsValid, Accepted
<1>3. QED
  BY <1>2, PTL
-----------------------------------------------------------------------------
(* First lines, and files line by line.                                    *)

LEMMA Least ==
    ASSUME NEW n \in Nat, NEW S \in SUBSET (0 .. n), S # {}
    PROVE  \E k \in S : \A j \in S : k <= j
<1> DEFINE T == {0 .. k : k \in S}
           R == StrictSubsetOrdering(0 .. n)
<1>1. IsFiniteSet(0 .. n)
  BY FS_Interval
<1>2. T \subseteq SUBSET (0 .. n) /\ T # {}
  <2>1. ASSUME NEW k \in S
        PROVE  0 .. k \subseteq 0 .. n
    OBVIOUS
  <2>2. PICK k \in S : TRUE
    OBVIOUS
  <2>3. 0 .. k \in T
    OBVIOUS
  <2>4. QED
    BY <2>1, <2>3
<1>3. IsWellFoundedOn(R, SUBSET (0 .. n))
  BY <1>1, FS_StrictSubsetOrderingWellFounded, FS_FiniteSubsetsOfFinite
<1>4. PICK x \in T : \A y \in T : <<y, x>> \notin R
  <2> HIDE DEF T, R
  <2>1. QED
    BY <1>2, <1>3, WFMin
<1>5. PICK k \in S : x = 0 .. k
  OBVIOUS
<1>6. ASSUME NEW j \in S, j < k
      PROVE  FALSE
  <2>1. 0 .. j \subseteq 0 .. k /\ k \in 0 .. k /\ k \notin 0 .. j /\ 0 .. k \in SUBSET (0 .. n)
    BY <1>6
  <2>2. <<0 .. j, 0 .. k>> \in R
    BY <2>1 DEF StrictSubsetOrdering
  <2>3. QED
    BY <1>4, <1>5, <2>2
<1>7. QED
  BY <1>6

LEMMA MinIs ==
    ASSUME NEW n \in Nat, NEW S \in SUBSET (0 .. n), S # {}
    PROVE  Min(S) \in S /\ \A j \in S : Min(S) <= j
<1>1. \E k \in S : \A j \in S : k <= j
  BY Least
<1>2. QED
  BY <1>1, Zenon DEF Min

\* Induction from the start of a file, for the set of the positions something holds at.
LEMMA FromTheStart ==
    ASSUME NEW n \in Nat, NEW G, 0 \in G, \A k \in 1 .. n : k - 1 \in G => k \in G
    PROVE  \A k \in 0 .. n : k \in G
<1> SUFFICES ASSUME (0 .. n) \ G # {}
             PROVE  FALSE
  OBVIOUS
<1>1. PICK k \in (0 .. n) \ G : \A j \in (0 .. n) \ G : k <= j
  <2> DEFINE S == (0 .. n) \ G
  <2>1. S \in SUBSET (0 .. n) /\ S # {}
    OBVIOUS
  <2> HIDE DEF S
  <2>2. \E k \in S : \A j \in S : k <= j
    BY <2>1, Least
  <2>3. QED
    BY <2>2 DEF S
<1>2. k \in 1 .. n /\ k - 1 \in 0 .. n /\ ~(k <= k - 1)
  BY <1>1
<1>3. k - 1 \in G
  BY <1>1, <1>2
<1>4. QED
  BY <1>1, <1>2, <1>3

\* What Without builds up, up to each line.
Builds(kept, file, h, n) ==
    /\ kept[0] = <<>>
    /\ \A k \in 1 .. n :
          kept[k] = IF IsFor(file[k], h) THEN kept[k - 1] ELSE Append(kept[k - 1], file[k])

LEMMA WithoutDefines ==
    ASSUME NEW file \in Seq(TokenLine), NEW h
    PROVE  \E kept \in [0 .. Len(file) -> Seq(TokenLine)] : Builds(kept, file, h, Len(file))
<1> DEFINE n == Len(file)
           G == {m \in 0 .. n : \E kept \in [0 .. m -> Seq(TokenLine)] : Builds(kept, file, h, m)}
<1>0. n \in Nat /\ \A k \in 1 .. n : file[k] \in TokenLine
  OBVIOUS
<1>1. 0 \in G
  <2> DEFINE kept == [k \in 0 .. 0 |-> <<>>]
  <2>1. kept \in [0 .. 0 -> Seq(TokenLine)] /\ kept[0] = <<>>
    OBVIOUS
  <2> HIDE DEF kept, n
  <2>2. Builds(kept, file, h, 0)
    BY <2>1 DEF Builds
  <2>3. QED
    BY <1>0, <2>1, <2>2
<1>2. ASSUME NEW m \in 1 .. n, m - 1 \in G
      PROVE  m \in G
  <2>1. PICK old \in [0 .. m - 1 -> Seq(TokenLine)] : Builds(old, file, h, m - 1)
    BY <1>2
  <2> DEFINE v == IF IsFor(file[m], h) THEN old[m - 1] ELSE Append(old[m - 1], file[m])
             kept == [k \in 0 .. m |-> IF k = m THEN v ELSE old[k]]
  <2> HIDE DEF n
  <2>2. m \in Nat /\ m \in 0 .. n /\ m - 1 \in 0 .. m - 1 /\ file[m] \in TokenLine
    BY <1>0
  <2>3. v \in Seq(TokenLine)
    BY <2>2
  <2> HIDE DEF v
  <2>4. /\ kept \in [0 .. m -> Seq(TokenLine)] /\ kept[m] = v
        /\ \A k \in 0 .. m - 1 : kept[k] = old[k]
    BY <2>2, <2>3
  <2> HIDE DEF kept
  <2>5. Builds(kept, file, h, m)
    <3>1. kept[0] = <<>>
      BY <2>1, <2>2, <2>4 DEF Builds
    <3>2. ASSUME NEW k \in 1 .. m - 1
          PROVE  kept[k] = IF IsFor(file[k], h) THEN kept[k - 1] ELSE Append(kept[k - 1], file[k])
      <4>1. k \in 0 .. m - 1 /\ k - 1 \in 0 .. m - 1
        BY <2>2
      <4>2. QED
        BY <2>1, <2>4, <4>1 DEF Builds
    <3>3. kept[m] = IF IsFor(file[m], h) THEN kept[m - 1] ELSE Append(kept[m - 1], file[m])
      BY <2>2, <2>4 DEF v
    <3>4. \A k \in 1 .. m : k = m \/ k \in 1 .. m - 1
      BY <2>2
    <3>5. QED
      BY <3>1, <3>2, <3>3, <3>4 DEF Builds
  <2>6. QED
    BY <2>2, <2>4, <2>5
<1>3. n \in G
  <2> HIDE DEF G, n
  <2>1. \A k \in 1 .. n : k - 1 \in G => k \in G
    BY <1>2
  <2>2. n \in 0 .. n
    BY <1>0
  <2>3. QED
    BY <1>0, <1>1, <2>1, <2>2, FromTheStart
<1>4. QED
  BY <1>3

LEMMA WithoutIs ==
    ASSUME NEW file \in Seq(TokenLine), NEW h
    PROVE  \E kept \in [0 .. Len(file) -> Seq(TokenLine)] :
               Builds(kept, file, h, Len(file)) /\ Without(file, h) = kept[Len(file)]
<1> DEFINE n == Len(file)
           Rec(g) == g = [k \in 0 .. n |->
                             IF k = 0 THEN <<>>
                             ELSE IF IsFor(file[k], h) THEN g[k - 1]
                             ELSE Append(g[k - 1], file[k])]
<1>0. n \in Nat
  OBVIOUS
<1>1. PICK kept \in [0 .. n -> Seq(TokenLine)] : Builds(kept, file, h, n)
  BY WithoutDefines
<1>2. Without(file, h) = (CHOOSE g : Rec(g))[n]
  BY DEF Without
<1> HIDE DEF n
<1>3. Rec(kept)
  <2>1. kept = [k \in 0 .. n |-> kept[k]]
    BY <1>1
  <2>2. \A k \in 0 .. n : kept[k] = IF k = 0 THEN <<>>
                                   ELSE IF IsFor(file[k], h) THEN kept[k - 1]
                                   ELSE Append(kept[k - 1], file[k])
    <3>1. \A k \in 0 .. n : k = 0 \/ k \in 1 .. n
      BY <1>0
    <3>2. QED
      BY <1>1, <3>1 DEF Builds
  <2>3. QED
    BY <2>1, <2>2
<1> DEFINE g == CHOOSE g : Rec(g)
<1>4. Rec(g)
  BY <1>3
<1>5. g = kept
  <2>1. g = [k \in 0 .. n |-> g[k]] /\ DOMAIN g = 0 .. n
    BY <1>4
  <2>2. \A k \in 0 .. n : g[k] = IF k = 0 THEN <<>>
                                ELSE IF IsFor(file[k], h) THEN g[k - 1]
                                ELSE Append(g[k - 1], file[k])
    BY <1>4
  <2> HIDE DEF g, Rec
  <2> DEFINE G == {k \in 0 .. n : g[k] = kept[k]}
  <2>3. 0 \in G
    BY <1>0, <1>1, <2>2 DEF Builds
  <2>4. ASSUME NEW k \in 1 .. n, k - 1 \in G
        PROVE  k \in G
    <3>1. k \in 0 .. n /\ k # 0
      BY <1>0
    <3>2. QED
      BY <1>1, <2>2, <2>4, <3>1 DEF Builds
  <2>5. \A k \in 0 .. n : k \in G
    <3> HIDE DEF G
    <3>1. \A k \in 1 .. n : k - 1 \in G => k \in G
      BY <2>4
    <3>2. QED
      BY <1>0, <2>3, <3>1, FromTheStart
  <2>6. QED
    BY <1>1, <2>1, <2>5
<1> HIDE DEF g, Rec
<1>6. QED
  BY <1>1, <1>2, <1>5 DEF n, g

\* A file without a host's lines has those lines of the first m that are not the host's,
\* and no other.
Keeps(kept, file, h, m) ==
    /\ kept \in Seq(TokenLine)
    /\ \A i \in 1 .. Len(kept) : \E k \in 1 .. m : kept[i] = file[k] /\ ~IsFor(file[k], h)
    /\ \A k \in 1 .. m : ~IsFor(file[k], h) => \E i \in 1 .. Len(kept) : kept[i] = file[k]
    /\ TokensParse(file) => TokensParse(kept)

LEMMA KeepsOne ==
    ASSUME NEW file \in Seq(TokenLine), NEW h, NEW m \in 1 .. Len(file), NEW old,
           Keeps(old, file, h, m - 1), ~IsFor(file[m], h)
    PROVE  Keeps(Append(old, file[m]), file, h, m)
<1> DEFINE new == Append(old, file[m])
           l == Len(old)
<1>1. /\ old \in Seq(TokenLine) /\ file[m] \in TokenLine /\ m \in Nat
      /\ m - 1 \in 0 .. m - 1 /\ m \in 1 .. m /\ m # 0
      /\ \A k \in 1 .. m : k = m \/ k \in 1 .. m - 1
      /\ \A k \in 1 .. m - 1 : k \in 1 .. m /\ k # m /\ k \in 1 .. Len(file)
      /\ \A k \in 1 .. m : k \in 1 .. Len(file)
  BY DEF Keeps
<1>2. /\ l \in Nat /\ new \in Seq(TokenLine) /\ Len(new) = l + 1 /\ new[l + 1] = file[m]
      /\ \A i \in 1 .. l : new[i] = old[i]
  BY <1>1
<1>3. /\ \A i \in 1 .. l + 1 : i = l + 1 \/ i \in 1 .. l
      /\ \A i \in 1 .. l : i \in 1 .. l + 1
      /\ l + 1 \in 1 .. l + 1
  BY <1>2
<1>4. \A i \in 1 .. l : \E k \in 1 .. m - 1 : new[i] = file[k] /\ ~IsFor(file[k], h)
  BY <1>2 DEF Keeps
<1>5. \A i \in 1 .. Len(new) : \E k \in 1 .. m : new[i] = file[k] /\ ~IsFor(file[k], h)
  <2> HIDE DEF new, l
  <2>1. QED
    BY <1>1, <1>2, <1>3, <1>4
<1>6. \A k \in 1 .. m : ~IsFor(file[k], h) => \E i \in 1 .. Len(new) : new[i] = file[k]
  <2>1. \A k \in 1 .. m - 1 : ~IsFor(file[k], h) => \E i \in 1 .. l : new[i] = file[k]
    BY <1>2 DEF Keeps
  <2> HIDE DEF new, l
  <2>2. QED
    BY <1>1, <1>2, <1>3, <2>1
<1>7. ASSUME TokensParse(file)
      PROVE  TokensParse(new)
  <2>1. TokensParse(old)
    BY <1>7 DEF Keeps
  <2>2. DOMAIN new = 1 .. l + 1 /\ DOMAIN old = 1 .. l /\ DOMAIN file = 1 .. Len(file)
    BY <1>1, <1>2
  <2>3. \A i \in HostLines(new) : i = l + 1 \/ i \in HostLines(old)
    <3> HIDE DEF new, l
    <3>1. QED
      BY <1>2, <1>3, <2>2 DEF HostLines
  <2>4. l + 1 \in HostLines(new) => m \in HostLines(file)
    <3> HIDE DEF new, l
    <3>1. QED
      BY <1>1, <1>2, <2>2 DEF HostLines
  <2>5. \A i \in HostLines(old) : i \in 1 .. l /\ new[i] = old[i]
    <3> HIDE DEF new, l
    <3>1. QED
      BY <1>2, <2>2 DEF HostLines
  <2>6. ASSUME NEW i \in HostLines(old), l + 1 \in HostLines(new),
               NormalizeHost[old[i].host] = NormalizeHost[file[m].host]
        PROVE  FALSE
    <3>1. PICK k \in 1 .. m - 1 : old[i] = file[k]
      <4> HIDE DEF new, l
      <4>1. QED
        BY <1>2, <1>4, <2>5
    <3>2. k \in HostLines(file) /\ k # m
      BY <1>1, <2>2, <3>1 DEF HostLines
    <3>3. QED
      BY <1>7, <2>4, <2>6, <3>1, <3>2 DEF TokensParse
  <2> HIDE DEF new, l
  <2>7. \A i \in HostLines(new) : new[i].token # Unset
    BY <1>2, <1>7, <2>1, <2>3, <2>4, <2>5 DEF TokensParse
  <2>8. ASSUME NEW i \in HostLines(new), NEW j \in HostLines(new),
               NormalizeHost[new[i].host] = NormalizeHost[new[j].host]
        PROVE  i = j
    BY <1>2, <2>1, <2>3, <2>5, <2>6, <2>8 DEF TokensParse
  <2>9. QED
    BY <2>7, <2>8 DEF TokensParse
<1>8. QED
  BY <1>2, <1>5, <1>6, <1>7 DEF Keeps

LEMMA WithoutKeeps ==
    ASSUME NEW file \in Seq(TokenLine), NEW h
    PROVE  Keeps(Without(file, h), file, h, Len(file))
<1> DEFINE n == Len(file)
<1>1. PICK kept \in [0 .. n -> Seq(TokenLine)] :
          Builds(kept, file, h, n) /\ Without(file, h) = kept[n]
  BY WithoutIs
<1>2. n \in Nat
  OBVIOUS
<1> DEFINE G == {m \in 0 .. n : Keeps(kept[m], file, h, m)}
<1>3. 0 \in G
  <2>1. kept[0] = <<>> /\ 0 \in 0 .. n
    BY <1>1, <1>2 DEF Builds
  <2>2. Keeps(<<>>, file, h, 0)
    BY DEF Keeps, TokensParse, HostLines
  <2> HIDE DEF n
  <2>3. QED
    BY <2>1, <2>2
<1>4. ASSUME NEW m \in 1 .. n, m - 1 \in G
      PROVE  m \in G
  <2>1. m \in 0 .. n /\ Keeps(kept[m - 1], file, h, m - 1)
    BY <1>2, <1>4
  <2>2. kept[m] = IF IsFor(file[m], h) THEN kept[m - 1] ELSE Append(kept[m - 1], file[m])
    BY <1>1 DEF Builds
  <2>3. CASE IsFor(file[m], h)
    <3>1. /\ m \in Nat /\ \A k \in 1 .. m : k = m \/ k \in 1 .. m - 1
          /\ \A k \in 1 .. m - 1 : k \in 1 .. m
      BY <1>2
    <3> HIDE DEF n
    <3>2. Keeps(kept[m], file, h, m)
      BY <2>1, <2>2, <2>3, <3>1, Zenon DEF Keeps
    <3>3. QED
      BY <2>1, <3>2
  <2>4. CASE ~IsFor(file[m], h)
    <3>1. Keeps(kept[m], file, h, m)
      BY <2>1, <2>2, <2>4, KeepsOne
    <3>2. QED
      BY <2>1, <3>1
  <2>5. QED
    BY <2>3, <2>4
<1>5. n \in G
  <2> HIDE DEF G, n
  <2>1. \A k \in 1 .. n : k - 1 \in G => k \in G
    BY <1>4
  <2>2. n \in 0 .. n
    BY <1>2
  <2>3. QED
    BY <1>2, <1>3, <2>1, <2>2, FromTheStart
<1>6. QED
  BY <1>1, <1>5

\* In a file the Warden reads, a host has one line or none.
LEMMA TokenOfLine ==
    ASSUME NEW file \in Seq(TokenLine), TokensParse(file), NEW k \in HostLines(file)
    PROVE  /\ TokenOf(file, NormalizeHost[file[k].host]) = file[k].token
           /\ file[k].token # Unset
<1> DEFINE h == NormalizeHost[file[k].host]
           at == {j \in HostLines(file) : NormalizeHost[file[j].host] = h}
<1>1. at = {k}
  BY DEF TokensParse
<1>2. k \in Nat /\ Len(file) \in Nat /\ k \in 0 .. Len(file)
  BY DEF HostLines
<1>3. Min(at) = k
  <2> HIDE DEF at
  <2>1. at \in SUBSET (0 .. Len(file)) /\ at # {}
    BY <1>1, <1>2
  <2>2. Min(at) \in at
    BY <1>2, <2>1, MinIs
  <2>3. QED
    BY <1>1, <2>2
<1>4. TokenOf(file, h) = file[k].token
  BY <1>1, <1>3 DEF TokenOf
<1>5. QED
  BY <1>4 DEF TokensParse

LEMMA TokenOfNone ==
    ASSUME NEW file, NEW h, \A k \in HostLines(file) : NormalizeHost[file[k].host] # h
    PROVE  TokenOf(file, h) = Unset
BY DEF TokenOf

LEMMA UpsertType ==
    ASSUME NEW file \in Seq(TokenLine), NEW h \in Host, NEW token \in STRING \cup {Unset}
    PROVE  Upserted(file, h, token) \in Seq(TokenLine)
<1>1. Without(file, h) \in Seq(TokenLine)
  BY WithoutKeeps DEF Keeps
<1>2. [host |-> h, token |-> token] \in TokenLine
  BY TomlAssumption DEF TokenLine
<1>3. QED
  BY <1>1, <1>2 DEF Upserted, UpsertGroupedToken

\* A new token is its host's alone, and the Warden can read the file if it could before.
LEMMA UpsertReadable ==
    ASSUME NEW file \in Seq(TokenLine), TokensParse(file), NEW h \in Host,
           NEW token \in STRING
    PROVE  LET new == UpsertGroupedToken(file, h, token) IN
           /\ TokensParse(new)
           /\ TokenOf(new, h) # Unset
           /\ \A g \in Host \ {h} : TokenOf(new, g) = TokenOf(file, g)
<1> DEFINE kept == Without(file, h)
           line == [host |-> h, token |-> token]
           new == Append(kept, line)
           l == Len(kept)
<1>0. token # Unset /\ h # Unset /\ NormalizeHost[h] = h /\ h \in Written
      /\ token \in STRING \cup {Unset}
  BY TomlAssumption
<1>1. Keeps(kept, file, h, Len(file))
  BY WithoutKeeps
<1>2. kept \in Seq(TokenLine) /\ TokensParse(kept) /\ line \in TokenLine
  BY <1>0, <1>1 DEF Keeps, TokenLine
<1>3. /\ l \in Nat /\ new \in Seq(TokenLine) /\ new[l + 1] = line /\ DOMAIN new = 1 .. l + 1
      /\ \A i \in 1 .. l : new[i] = kept[i]
      /\ DOMAIN kept = 1 .. l /\ DOMAIN file = 1 .. Len(file)
  BY <1>2
<1>4. /\ \A i \in 1 .. l + 1 : i = l + 1 \/ i \in 1 .. l
      /\ \A i \in 1 .. l : i \in 1 .. l + 1 /\ i # l + 1
      /\ l + 1 \in 1 .. l + 1
  BY <1>3
<1>5. line.host = h /\ line.token = token
  OBVIOUS
<1> HIDE DEF new, l, line, kept
<1>6. \A i \in HostLines(new) : i = l + 1 \/ i \in HostLines(kept)
  BY <1>3, <1>4 DEF HostLines
<1>7. \A i \in HostLines(kept) : i \in 1 .. l /\ i \in HostLines(new) /\ new[i] = kept[i]
  BY <1>3, <1>4 DEF HostLines
<1>8. \A i \in HostLines(kept) : NormalizeHost[kept[i].host] # h
  <2>1. TAKE i \in HostLines(kept)
  <2>2. PICK k \in 1 .. Len(file) : kept[i] = file[k] /\ ~IsFor(file[k], h)
    BY <1>1, <1>7 DEF Keeps, l
  <2>3. QED
    BY <2>2 DEF HostLines, IsFor
<1>9. l + 1 \in HostLines(new)
  BY <1>0, <1>3, <1>4, <1>5 DEF HostLines
<1>10. TokensParse(new)
  <2>1. \A i \in HostLines(new) : new[i].token # Unset
    BY <1>0, <1>2, <1>3, <1>5, <1>6, <1>7 DEF TokensParse
  <2>2. ASSUME NEW i \in HostLines(new), NEW j \in HostLines(new),
               NormalizeHost[new[i].host] = NormalizeHost[new[j].host]
        PROVE  i = j
    BY <1>0, <1>2, <1>3, <1>5, <1>6, <1>7, <1>8, <2>2 DEF TokensParse
  <2>3. QED
    BY <2>1, <2>2 DEF TokensParse
<1>11. TokenOf(new, h) # Unset
  <2>1. NormalizeHost[new[l + 1].host] = h
    BY <1>0, <1>3, <1>5
  <2>2. QED
    BY <1>3, <1>9, <1>10, <2>1, TokenOfLine
<1>12. ASSUME NEW g \in Host \ {h}
       PROVE  TokenOf(new, g) = TokenOf(file, g)
  <2>1. CASE \E k \in HostLines(file) : NormalizeHost[file[k].host] = g
    <3>1. PICK k \in HostLines(file) : NormalizeHost[file[k].host] = g
      BY <2>1
    <3>2. TokenOf(file, g) = file[k].token
      BY <3>1, TokenOfLine
    <3>3. k \in 1 .. Len(file) /\ ~IsFor(file[k], h) /\ file[k].host # Unset
      BY <1>3, <3>1 DEF HostLines, IsFor
    <3>4. PICK i \in 1 .. l : kept[i] = file[k]
      BY <1>1, <3>3 DEF Keeps, l
    <3>5. i \in HostLines(new) /\ new[i] = file[k]
      BY <1>3, <1>4, <3>3, <3>4 DEF HostLines
    <3>6. TokenOf(new, g) = file[k].token
      BY <1>3, <1>10, <3>1, <3>5, TokenOfLine
    <3>7. QED
      BY <3>2, <3>6
  <2>2. CASE ~\E k \in HostLines(file) : NormalizeHost[file[k].host] = g
    <3>1. TokenOf(file, g) = Unset
      BY <2>2, TokenOfNone
    <3>2. ASSUME NEW i \in HostLines(new), NormalizeHost[new[i].host] = g
          PROVE  FALSE
      <4>1. i \in HostLines(kept) /\ new[i] = kept[i]
        BY <1>0, <1>3, <1>5, <1>6, <1>7, <3>2
      <4>2. PICK k \in 1 .. Len(file) : kept[i] = file[k]
        BY <1>1, <1>7, <4>1 DEF Keeps, l
      <4>3. k \in HostLines(file)
        BY <1>3, <4>1, <4>2 DEF HostLines
      <4>4. QED
        BY <2>2, <3>2, <4>1, <4>2, <4>3
    <3>3. TokenOf(new, g) = Unset
      BY <3>2, TokenOfNone
    <3>4. QED
      BY <3>1, <3>3
  <2>3. QED
    BY <2>1, <2>2
<1>13. QED
  BY <1>10, <1>11, <1>12 DEF UpsertGroupedToken, new, line, kept
-----------------------------------------------------------------------------
(* The doctor.                                                             *)

\* The host of an endpoint the Warden accepts, as both of them read it.
LEMMA DoctorReads ==
    ASSUME NEW text, NEW files, Loads(text, files)
    PROVE  /\ DoctorHeads(text) \subseteq EndpointHeads(text)
           /\ \A k \in DoctorHeads(text) :
                 /\ NormalOf(Value(text, k, "host")) = NormalizeHost[SpelledHost(text, k)]
                 /\ DoctorActions(text, k) = EffectiveActions(text, EndpointAt(text, k))
           /\ \A j, k \in DoctorHeads(text) :
                 NormalizeHost[SpelledHost(text, j)] = NormalizeHost[SpelledHost(text, k)]
                     => j = k
<1>1. WellFormed(text) /\ GitParses(text)
  BY DEF Loads
<1>2. DoctorHeads(text) \subseteq EndpointHeads(text)
  BY <1>1 DEF DoctorHeads, ReadableEndpoints
<1>3. ASSUME NEW k \in DoctorHeads(text)
      PROVE  NormalOf(Value(text, k, "host")) = NormalizeHost[SpelledHost(text, k)]
  BY DEF NormalOf, SpelledHost
<1>4. ASSUME NEW k \in DoctorHeads(text)
      PROVE  DoctorActions(text, k) = EffectiveActions(text, EndpointAt(text, k))
  <2> DEFINE e == EndpointAt(text, k)
  <2>1. e.actions = Value(text, k, "actions") /\ e.type = Value(text, k, "type")
    BY DEF EndpointAt
  <2>2. e.actions # Wrong /\ GitActions(text) # Wrong
    BY <1>1, <1>2, <1>4 DEF GitParses, EndpointParses, ActionsParse
  <2> HIDE DEF e
  <2>3. DoctorActions(text, k) = EffectiveActions(text, e)
    BY <1>1, <2>1, <2>2 DEF DoctorActions, EffectiveActions, Cascade, OrElse
  <2>4. QED
    BY <2>3 DEF e
<1>5. ASSUME NEW j \in DoctorHeads(text), NEW k \in DoctorHeads(text),
             NormalizeHost[SpelledHost(text, j)] = NormalizeHost[SpelledHost(text, k)]
      PROVE  j = k
  BY <1>1, <1>2, <1>3, <1>5 DEF GitParses
<1>6. QED
  BY <1>2, <1>3, <1>4, <1>5

\* A host the doctor finds a token for has that token, however the line spells it.
LEMMA GroupedIs ==
    ASSUME NEW file \in Seq(TokenLine), TokensParse(file)
    PROVE  /\ \A w \in DOMAIN GroupedTokens(file) : TokenOf(file, NormalizeHost[w]) # Unset
           /\ \A h : TokenOf(file, h) # Unset =>
                  \E w \in DOMAIN GroupedTokens(file) : NormalizeHost[w] = h
<1>1. DOMAIN GroupedTokens(file) = {file[k].host : k \in HostLines(file)}
  <2>1. DOMAIN GroupedTokens(file) =
            {file[k].host : k \in {k \in HostLines(file) : file[k].token # Unset}}
    BY DEF GroupedTokens
  <2>2. {k \in HostLines(file) : file[k].token # Unset} = HostLines(file)
    BY DEF TokensParse
  <2>3. QED
    BY <2>1, <2>2
<1>2. ASSUME NEW w \in DOMAIN GroupedTokens(file)
      PROVE  TokenOf(file, NormalizeHost[w]) # Unset
  BY <1>1, TokenOfLine
<1>3. ASSUME NEW h, TokenOf(file, h) # Unset
      PROVE  \E w \in DOMAIN GroupedTokens(file) : NormalizeHost[w] = h
  BY <1>1, <1>3, TokenOfNone
<1>4. QED
  BY <1>2, <1>3

\* A report without complaints names the mode that is enforced.
LEMMA CleanMeansMode ==
    ASSUME NEW text, NEW files \in [{"read", "write"} -> Seq(TokenLine)],
           Loads(text, files), Clean(Findings(text, files)), NEW k \in DoctorHeads(text)
    PROVE  LET mode == AccessMode(files, NormalOf(Value(text, k, "host"))) IN
           /\ mode # "closed"
           /\ Finding("ok", mode, SpelledHost(text, k)) \in Findings(text, files)
<1> DEFINE w == SpelledHost(text, k)
           h == NormalOf(Value(text, k, "host"))
           read == DOMAIN GroupedTokens(files.read)
           write == DOMAIN GroupedTokens(files.write)
           spelled == {SpelledHost(text, j) : j \in DoctorHeads(text)}
           seen == Finding(IF w \in read THEN "ok" ELSE "warn",
                           IF w \notin read THEN "closed"
                           ELSE IF w \in write THEN "read-write" ELSE "read-only", w)
<1>1. /\ files.read \in Seq(TokenLine) /\ TokensParse(files.read)
      /\ files.write \in Seq(TokenLine) /\ TokensParse(files.write)
  BY DEF Loads
<1>2. h = NormalizeHost[w]
  BY DoctorReads
<1>3. CheckTokens(text, files) \subseteq Findings(text, files)
  BY DEF Findings
<1>4. seen \in CheckTokens(text, files)
  BY DEF CheckTokens
<1>5. ASSUME NEW v \in (read \cup write) \ spelled
      PROVE  FALSE
  <2>1. Finding("warn", "unmatched", v) \in CheckTokens(text, files)
    BY <1>5 DEF CheckTokens
  <2>2. Finding("warn", "unmatched", v).level = "warn"
    BY DEF Finding
  <2>3. QED
    BY <1>3, <2>1, <2>2 DEF Clean
<1>6. w \in read
  <2>1. seen.level = "ok"
    BY <1>3, <1>4 DEF Clean
  <2>2. QED
    BY <2>1 DEF Finding
<1>7. TokenOf(files.read, h) # Unset
  BY <1>1, <1>2, <1>6, GroupedIs
<1>8. w \in write <=> TokenOf(files.write, h) # Unset
  <2>1. ASSUME w \in write
        PROVE  TokenOf(files.write, h) # Unset
    BY <1>1, <1>2, <2>1, GroupedIs
  <2>2. ASSUME TokenOf(files.write, h) # Unset
        PROVE  w \in write
    <3>1. PICK v \in write : NormalizeHost[v] = h
      BY <1>1, <2>2, GroupedIs
    <3>2. v \in spelled
      BY <1>5
    <3>3. PICK j \in DoctorHeads(text) : v = SpelledHost(text, j)
      BY <3>2
    <3>4. j = k
      BY <1>2, <3>1, <3>3, DoctorReads
    <3>5. QED
      BY <3>1, <3>3, <3>4
  <2>3. QED
    BY <2>1, <2>2
<1> HIDE DEF w, h, read, write
<1>9. seen = Finding("ok", AccessMode(files, h), w) /\ AccessMode(files, h) # "closed"
  BY <1>6, <1>7, <1>8 DEF AccessMode
<1>10. QED
  BY <1>3, <1>4, <1>9 DEF w, h

\* What the doctor says of a file the Warden accepts is what the Warden does.
LEMMA DoctorAgreesOnTypes ==
    ASSUME tokens \in [{"read", "write"} -> Seq(TokenLine)]
    PROVE  DoctorAgrees
<1>1. ASSUME Loads(toml, tokens), NEW k \in DoctorHeads(toml)
      PROVE  LET h == NormalOf(Value(toml, k, "host"))
                 granted == Enforced(toml, tokens) IN
             /\ DoctorActions(toml, k) = granted[h].actions
             /\ Clean(Findings(toml, tokens)) =>
                   /\ granted[h].mode # "closed"
                   /\ Finding("ok", granted[h].mode, SpelledHost(toml, k))
                         \in Findings(toml, tokens)
  <2> DEFINE h == NormalOf(Value(toml, k, "host"))
  <2>1. GitParses(toml) /\ k \in EndpointHeads(toml)
    BY <1>1, DoctorReads DEF Loads
  <2>2. /\ Enforced(toml, tokens)[h].actions = EffectiveActions(toml, EndpointAt(toml, k))
        /\ Enforced(toml, tokens)[h].mode = AccessMode(tokens, h)
    BY <2>1, GrantedIs
  <2>3. DoctorActions(toml, k) = EffectiveActions(toml, EndpointAt(toml, k))
    BY <1>1, DoctorReads
  <2>4. Clean(Findings(toml, tokens)) =>
            /\ AccessMode(tokens, h) # "closed"
            /\ Finding("ok", AccessMode(tokens, h), SpelledHost(toml, k))
                  \in Findings(toml, tokens)
    BY <1>1, CleanMeansMode
  <2>5. QED
    BY <2>2, <2>3, <2>4
<1>2. QED
  BY <1>1 DEF DoctorAgrees, Accepted
-----------------------------------------------------------------------------
(* What the editors write.                                                 *)

\* What TOML reads is on a line of its own.
LEMMA ValueIs ==
    ASSUME NEW text \in Seq(TextLine), NEW head \in 0 .. Len(text), NEW key,
           Value(text, head, key) # Unset
    PROVE  \E k \in DOMAIN text : text[k].key = key /\ Value(text, head, key) = text[k].value
<1> DEFINE n == Len(text)
           ends == {k \in Heads(text) : k > head} \cup {n + 1}
           at == {k \in KeysOf(text, head) : text[k].key = key}
<1>1. n \in Nat /\ DOMAIN text = 1 .. n /\ head \in Nat
  OBVIOUS
<1>2. ends \in SUBSET (0 .. n + 1) /\ n + 1 \in ends
  BY <1>1 DEF Heads
<1>3. Min(ends) \in Nat /\ Min(ends) <= n + 1
  <2> DEFINE m == n + 1
  <2>1. m \in Nat /\ ends \in SUBSET (0 .. m) /\ m \in ends
    BY <1>1, <1>2
  <2> HIDE DEF ends, m
  <2>2. Min(ends) \in ends /\ Min(ends) <= m
    BY <2>1, MinIs
  <2>3. Min(ends) \in 0 .. m
    BY <2>1, <2>2
  <2>4. QED
    BY <2>1, <2>2, <2>3 DEF m
<1>4. KeysOf(text, head) = head + 1 .. Min(ends) - 1
  BY DEF KeysOf
<1>5. KeysOf(text, head) \subseteq 1 .. n
  <2> HIDE DEF ends, n
  <2>1. QED
    BY <1>1, <1>3, <1>4
<1>6. at # {} /\ Value(text, head, key) = text[Min(at)].value
  BY DEF Value
<1>7. Min(at) \in at
  <2>1. at \in SUBSET (0 .. n)
    BY <1>1, <1>5
  <2> HIDE DEF at, n
  <2>2. QED
    BY <1>1, <1>6, <2>1, MinIs
<1>8. QED
  BY <1>1, <1>5, <1>6, <1>7

LEMMA FirstHead ==
    ASSUME NEW text \in Seq(TextLine), NEW heads \in SUBSET DOMAIN text, heads # {}
    PROVE  Min(heads) \in heads /\ Min(heads) \in 0 .. Len(text)
<1>1. Len(text) \in Nat /\ heads \in SUBSET (0 .. Len(text))
  OBVIOUS
<1>2. QED
  BY <1>1, MinIs

LEMMA FirstHostType ==
    ASSUME NEW text \in Seq(TextLine)
    PROVE  FirstEndpointHost(text) \in Host \cup {Unset}
<1> DEFINE heads == {k \in ReadableEndpoints(text) : HasHost(text, k)}
<1>1. SUFFICES ASSUME heads # {}
               PROVE  NormalOf(Value(text, Min(heads), "host")) \in Host
  BY DEF FirstEndpointHost
<1>2. heads \in SUBSET DOMAIN text
  BY DEF ReadableEndpoints, EndpointHeads
<1>3. Min(heads) \in heads /\ Min(heads) \in 0 .. Len(text)
  <2> HIDE DEF heads
  <2>1. QED
    BY <1>1, <1>2, FirstHead
<1>4. Value(text, Min(heads), "host") \notin {Unset, Wrong}
  BY <1>3 DEF HasHost
<1> HIDE DEF heads
<1>5. PICK k \in DOMAIN text :
          text[k].key = "host" /\ Value(text, Min(heads), "host") = text[k].value
  BY <1>3, <1>4, ValueIs
<1>6. text[k] \in TextLine
  OBVIOUS
<1>7. PICK w \in Written : Value(text, Min(heads), "host") = {w}
  BY <1>4, <1>5, <1>6 DEF TextLine
<1>8. (CHOOSE v \in {w} : TRUE) = w
  OBVIOUS
<1>9. QED
  BY <1>7, <1>8, TomlAssumption DEF NormalOf

LEMMA ProjectsType ==
    ASSUME NEW text \in Seq(TextLine), NEW h
    PROVE  ReadAllowedProjects(text, h) \in SUBSET STRING
<1> DEFINE heads == HeadsFor(text, h)
           projects == Value(text, Min(heads), "projects")
<1>1. SUFFICES ASSUME heads # {}, projects \notin {Unset, Wrong}
               PROVE  projects \in SUBSET STRING
  BY DEF ReadAllowedProjects
<1>2. heads \in SUBSET DOMAIN text
  BY DEF HeadsFor, ReadableEndpoints, EndpointHeads
<1> HIDE DEF heads
<1>3. Min(heads) \in 0 .. Len(text)
  BY <1>1, <1>2, FirstHead
<1>4. PICK k \in DOMAIN text : projects = text[k].value
  BY <1>1, <1>3, ValueIs
<1>5. text[k] \in TextLine
  OBVIOUS
<1>6. QED
  BY <1>1, <1>4, <1>5 DEF TextLine

LEMMA LineType ==
    ASSUME NEW key \in STRING, NEW value \in SUBSET STRING, key # "host"
    PROVE  Line(key, value) \in TextLine
<1>1. [key |-> key, value |-> value, bare |-> TRUE]
          \in [key : STRING, value : {Wrong} \cup SUBSET STRING, bare : BOOLEAN]
  OBVIOUS
<1>2. QED
  BY <1>1 DEF Line, TextLine

LEMMA EnsureType ==
    ASSUME NEW text \in Seq(TextLine), NEW h \in Host
    PROVE  EnsureGitEndpoint(text, h) \in Seq(TextLine)
<1>1. Line("endpoint", {}) \in TextLine /\ Line("type", {"gitlab"}) \in TextLine
  <2>1. /\ "endpoint" \in STRING /\ "type" \in STRING /\ {} \in SUBSET STRING
        /\ {"gitlab"} \in SUBSET STRING /\ "endpoint" # "host" /\ "type" # "host"
    BY LiteralsAreStrings
  <2>2. QED
    BY <2>1, LineType, Zenon
<1>2. Line("host", {h}) \in TextLine
  <2>1. {h} \in {{w} : w \in Written} /\ {h} \in SUBSET STRING
    BY TomlAssumption
  <2>2. [key |-> "host", value |-> {h}, bare |-> TRUE]
            \in [key : STRING, value : {Wrong} \cup SUBSET STRING, bare : BOOLEAN]
    BY <2>1, LiteralsAreStrings
  <2>3. QED
    BY <2>1, <2>2 DEF Line, TextLine
<1>3. <<Line("endpoint", {}), Line("host", {h}), Line("type", {"gitlab"})>> \in Seq(TextLine)
  BY <1>1, <1>2
<1>4. QED
  BY <1>3, ConcatProperties DEF EnsureGitEndpoint

LEMMA BlockType ==
    ASSUME NEW text \in Seq(TextLine), NEW first, NEW last \in 0 .. Len(text),
           NEW key \in STRING, key # "host", NEW value \in SUBSET STRING
    PROVE  SetInBlock(text, first, last, key, value) \in Seq(TextLine)
<1> DEFINE set == [k \in DOMAIN text |->
                      IF k \in first .. last /\ Matches(text[k], key)
                      THEN [text[k] EXCEPT !.value = value] ELSE text[k]]
<1>1. set \in Seq(TextLine)
  <2>1. ASSUME NEW k \in DOMAIN text
        PROVE  set[k] \in TextLine
    <3>1. text[k] \in TextLine
      OBVIOUS
    <3>2. ASSUME Matches(text[k], key)
          PROVE  [text[k] EXCEPT !.value = value] \in TextLine
      BY <3>1, <3>2 DEF TextLine, Matches
    <3>3. QED
      BY <3>1, <3>2
  <2>2. DOMAIN text = 1 .. Len(text) /\ Len(text) \in Nat
    OBVIOUS
  <2>3. set = [k \in 1 .. Len(text) |-> set[k]]
    BY <2>2
  <2> HIDE DEF set
  <2>4. \A k \in 1 .. Len(text) : set[k] \in TextLine
    BY <2>1, <2>2
  <2>5. QED
    BY <2>2, <2>3, <2>4
<1>2. InsertAt(text, last + 1, Line(key, value)) \in Seq(TextLine)
  <2>1. <<Line(key, value)>> \in Seq(TextLine)
    BY LineType
  <2>2. /\ SubSeq(text, 1, (last + 1) - 1) \in Seq(TextLine)
        /\ SubSeq(text, last + 1, Len(text)) \in Seq(TextLine)
    <3>1. Len(text) \in Nat /\ last \in Nat /\ last <= Len(text)
      OBVIOUS
    <3>2. \A m, n \in Int : 1 <= m /\ n <= Len(text) => SubSeq(text, m, n) \in Seq(TextLine)
      OBVIOUS
    <3>3. QED
      BY <3>1, <3>2
  <2>3. QED
    BY <2>1, <2>2, ConcatProperties DEF InsertAt
<1>3. QED
  BY <1>1, <1>2 DEF SetInBlock

LEMMA BlockEndType ==
    ASSUME NEW text \in Seq(TextLine), NEW after \in SUBSET DOMAIN text
    PROVE  (IF after = {} THEN Len(text) ELSE Min(after) - 1) \in 0 .. Len(text)
<1>1. Len(text) \in Nat /\ DOMAIN text = 1 .. Len(text)
  OBVIOUS
<1>2. CASE after = {}
  BY <1>1, <1>2
<1>3. CASE after # {}
  <2>1. Min(after) \in 1 .. Len(text)
    BY <1>1, <1>3, FirstHead
  <2>2. QED
    BY <1>1, <1>3, <2>1
<1>4. QED
  BY <1>2, <1>3

LEMMA SetProjectsType ==
    ASSUME NEW text \in Seq(TextLine), NEW h, NEW projects \in SUBSET STRING
    PROVE  SetEndpointAllowedProjects(text, h, projects) \in Seq(TextLine)
<1> DEFINE head == Min(BlocksFor(text, h))
           after == {k \in BareHeads(text, "endpoint") : k > head}
<1>1. BlockEnd(text, head) \in 0 .. Len(text)
  <2>1. after \in SUBSET DOMAIN text
    BY DEF BareHeads
  <2>2. BlockEnd(text, head) = IF after = {} THEN Len(text) ELSE Min(after) - 1
    BY DEF BlockEnd
  <2> HIDE DEF after
  <2>3. QED
    BY <2>1, <2>2, BlockEndType
<1>2. SetInBlock(text, head + 1, BlockEnd(text, head), "projects", projects) \in Seq(TextLine)
  <2>1. "projects" \in STRING /\ "projects" # "host"
    BY LiteralsAreStrings
  <2> HIDE DEF head
  <2>2. QED
    BY <1>1, <2>1, BlockType, Zenon
<1>3. QED
  BY <1>2 DEF SetEndpointAllowedProjects

LEMMA SetPrefixesType ==
    ASSUME NEW text \in Seq(TextLine), NEW prefixes \in SUBSET STRING
    PROVE  SetGitRulesBranchPrefixes(text, prefixes) \in Seq(TextLine)
<1> DEFINE head == Min(BareHeads(text, "rules"))
           after == {k \in DOMAIN text : k > head /\ text[k].key \in Header}
           last == IF after = {} THEN Len(text) ELSE Min(after) - 1
<1>1. last \in 0 .. Len(text)
  <2>1. after \in SUBSET DOMAIN text
    OBVIOUS
  <2> HIDE DEF after
  <2>2. QED
    BY <2>1, BlockEndType
<1>2. SetInBlock(text, head + 1, last, "prefixes", prefixes) \in Seq(TextLine)
  <2>1. "prefixes" \in STRING /\ "prefixes" # "host"
    BY LiteralsAreStrings
  <2> HIDE DEF last, head
  <2>2. QED
    BY <1>1, <2>1, BlockType, Zenon
<1>3. text \o <<Line("rules", {}), Line("prefixes", prefixes)>> \in Seq(TextLine)
  <2>1. Line("rules", {}) \in TextLine /\ Line("prefixes", prefixes) \in TextLine
    <3>1. /\ "rules" \in STRING /\ "prefixes" \in STRING /\ {} \in SUBSET STRING
          /\ "rules" # "host" /\ "prefixes" # "host"
      BY LiteralsAreStrings
    <3>2. QED
      BY <3>1, LineType, Zenon
  <2>2. <<Line("rules", {}), Line("prefixes", prefixes)>> \in Seq(TextLine)
    BY <2>1
  <2>3. QED
    BY <2>2, ConcatProperties
<1>4. QED
  BY <1>2, <1>3 DEF SetGitRulesBranchPrefixes

LEMMA AllowType ==
    ASSUME NEW text \in Seq(TextLine), NEW projects
    PROVE  Allow(text, projects) \in Seq(TextLine)
<1> DEFINE h == FirstEndpointHost(text)
           merged == (ReadAllowedProjects(text, h) \ {""}) \cup (projects \cap Plausible)
<1>1. merged \in SUBSET STRING
  BY ProjectsType, PlausibleAssumption
<1> HIDE DEF merged
<1>2. SetEndpointAllowedProjects(text, h, merged) \in Seq(TextLine)
  BY <1>1, SetProjectsType
<1>3. QED
  BY <1>2 DEF Allow, merged

LEMMA CurrentTokenType ==
    ASSUME NEW file \in Seq(TokenLine), NEW h
    PROVE  ReadGroupedToken(file, h) \in STRING \cup {Unset}
<1> DEFINE at == {k \in HostLines(file) :
                     file[k].token # Unset /\ NormalizeHost[file[k].host] = h}
<1>1. CASE at = {}
  BY <1>1 DEF ReadGroupedToken
<1>2. CASE at # {}
  <2>1. Len(file) \in Nat /\ at \in SUBSET (0 .. Len(file)) /\ at \subseteq 1 .. Len(file)
    BY DEF HostLines
  <2>2. Min(at) \in at
    <3> HIDE DEF at
    <3>1. QED
      BY <1>2, <2>1, MinIs
  <2>3. file[Min(at)] \in TokenLine
    <3>1. \A k \in 1 .. Len(file) : file[k] \in TokenLine
      OBVIOUS
    <3> HIDE DEF at
    <3>2. QED
      BY <2>1, <2>2, <3>1
  <2>4. ReadGroupedToken(file, h) = file[Min(at)].token
    BY <1>2 DEF ReadGroupedToken
  <2>5. QED
    BY <2>3, <2>4 DEF TokenLine
<1>3. QED
  BY <1>1, <1>2
-----------------------------------------------------------------------------
(* Steps.                                                                  *)

TokenFiles == [{"read", "write"} -> Seq(TokenLine)]

LEMMA StagedType ==
    ASSUME TypeOK, NEW source \in Sources \cup {NoFile}, NEW yes
    PROVE  /\ Staged(source, yes) \in Seq(TextLine)
           /\ StagedTokens(source, yes) \in TokenFiles
<1>1. source # NoFile => /\ source.toml \in Seq(TextLine) \cup {NoFile}
                         /\ source.tokens \in TokenFiles
  BY OperatorAssumption DEF File, TokenFiles
<1>2. toml \in Seq(TextLine) \cup {NoFile} /\ tokens \in TokenFiles
  BY DEF TypeOK, TokenFiles
<1>3. Staged(source, yes) \in Seq(TextLine)
  BY <1>1, <1>2, OperatorAssumption DEF Staged
<1>4. StagedTokens(source, yes) \in TokenFiles
  BY <1>1, <1>2 DEF StagedTokens, TokenFiles
<1>5. QED
  BY <1>3, <1>4

\* At a prompt there is a file, and behind the first the host is known.
LEMMA AtPrompt ==
    ASSUME TypeOK, wizard.step # "none"
    PROVE  /\ toml \in Seq(TextLine)
           /\ wizard.step # "host" => wizard.host \in Host
BY DEF TypeOK, Away

LEMMA AnsweredType ==
    ASSUME NEW file \in Seq(TokenLine), NEW typed \in Typed
    PROVE  Answered(file, typed) \in STRING \cup {Unset}
BY CurrentTokenType, OperatorAssumption DEF Typed, Answered

WizardType == [step : {"none", "host", "read", "write", "projects", "prefix"},
               host : Host \cup {Unset}, force : BOOLEAN, write : BOOLEAN]

\* A step that leaves the wizard in a state it can be in, beside typed files.
LEMMA TypeWhen ==
    ASSUME TypeOK, toml' \in Seq(TextLine) \cup {NoFile}, tokens' \in TokenFiles,
           wizard' \in WizardType, wizard'.step \notin {"none", "host"} => wizard'.host \in Host,
           wizard' = Away \/ toml' # NoFile,
           UNCHANGED commands \/ Command, edited' \in Host \cup {Unset}
    PROVE  TypeOK'
<1>1. commands' \in 0 .. MaxCommands
  BY OperatorAssumption DEF TypeOK, Command
<1>2. QED
  BY <1>1 DEF TypeOK, TokenFiles, WizardType

LEMMA TextIsFile == ASSUME NEW text \in Seq(TextLine) PROVE text # NoFile
BY OperatorAssumption

LEMMA ProjectsPrompt ==
    ASSUME TypeOK, GoOnToProjects, wizard.step \in {"read", "write"}
    PROVE  /\ toml' \in Seq(TextLine)
           /\ wizard' \in WizardType /\ wizard'.host = wizard.host
<1>1. toml \in Seq(TextLine) /\ wizard.host \in Host
  BY AtPrompt
<1>2. wizard \in WizardType
  BY DEF TypeOK, WizardType
<1>3. toml' \in Seq(TextLine)
  BY <1>1, EnsureType DEF GoOnToProjects
<1>4. \E step \in {"prefix", "projects"} : wizard' = [wizard EXCEPT !.step = step]
  BY DEF GoOnToProjects
<1>5. QED
  BY <1>2, <1>3, <1>4 DEF WizardType

LEMMA TypeStep == TypeOK /\ [Next]_vars => TypeOK'
<1> SUFFICES ASSUME TypeOK, [Next]_vars
             PROVE  TypeOK'
  OBVIOUS
<1>t. /\ toml \in Seq(TextLine) \cup {NoFile} /\ tokens \in TokenFiles
      /\ tokens.read \in Seq(TokenLine) /\ tokens.write \in Seq(TokenLine)
      /\ wizard \in WizardType /\ edited \in Host \cup {Unset}
      /\ wizard.step \notin {"none", "host"} => wizard.host \in Host
      /\ wizard = Away \/ toml # NoFile
  BY DEF TypeOK, TokenFiles, WizardType
<1>1. ASSUME NEW s \in Sources \cup {NoFile}, NEW h \in Host \cup {Unset},
             NEW r \in Typed, NEW w \in Typed, InitYes(s, h, r, w)
      PROVE  TypeOK'
  <2>1. Staged(s, TRUE) \in Seq(TextLine) /\ StagedTokens(s, TRUE) \in TokenFiles
    BY StagedType
  <2>2. toml' \in Seq(TextLine)
    BY <1>1, <2>1, EnsureType DEF InitYes
  <2>3. tokens' \in TokenFiles
    <3> DEFINE staged == StagedTokens(s, TRUE)
    <3>1. staged.read \in Seq(TokenLine) /\ staged.write \in Seq(TokenLine)
      BY <2>1 DEF TokenFiles
    <3>2. r \in STRING \cup {Unset} /\ w \in STRING \cup {Unset}
      BY OperatorAssumption DEF Typed
    <3> HIDE DEF staged
    <3>3. \A file \in Seq(TokenLine), t \in STRING \cup {Unset} :
              (h = Unset => t = Unset) => Upserted(file, h, t) \in Seq(TokenLine)
      BY UpsertType DEF Upserted
    <3>4. /\ Upserted(staged.read, h, r) \in Seq(TokenLine)
          /\ Upserted(staged.write, h, w) \in Seq(TokenLine)
      BY <1>1, <3>1, <3>2, <3>3 DEF InitYes
    <3>5. tokens' = [read |-> Upserted(staged.read, h, r), write |-> Upserted(staged.write, h, w)]
      BY <1>1 DEF InitYes, staged
    <3>6. QED
      BY <3>4, <3>5 DEF TokenFiles
  <2>4. /\ UNCHANGED wizard /\ wizard = Away /\ Command
        /\ edited' \in Host \cup {Unset}
    BY <1>1 DEF InitYes
  <2>5. QED
    BY <1>t, <2>2, <2>3, <2>4, TypeWhen
<1>2. ASSUME NEW s \in Sources \cup {NoFile}, NEW force \in BOOLEAN, InitInteractive(s, force)
      PROVE  TypeOK'
  <2>1. toml' \in Seq(TextLine) /\ tokens' \in TokenFiles
    BY <1>2, StagedType DEF InitInteractive
  <2>2. wizard' \in WizardType /\ wizard'.step = "host"
    BY <1>2 DEF InitInteractive, Away, WizardType
  <2>3. Command /\ edited' = Unset
    BY <1>2 DEF InitInteractive
  <2>4. QED
    BY <2>1, <2>2, <2>3, TextIsFile, TypeWhen
<1>3. ASSUME NEW h \in Host, NEW write \in BOOLEAN, AnswerHost(h, write)
      PROVE  TypeOK'
  <2>1. wizard' \in WizardType /\ wizard'.host = h
    BY <1>3, <1>t DEF AnswerHost, WizardType
  <2>2. toml \in Seq(TextLine)
    BY <1>3, AtPrompt DEF AnswerHost
  <2>3. UNCHANGED <<toml, tokens, commands, edited>>
    BY <1>3 DEF AnswerHost
  <2>4. QED
    BY <1>t, <2>1, <2>2, <2>3, TextIsFile, TypeWhen
<1>4. ASSUME NEW t \in Typed, AnswerRead(t)
      PROVE  TypeOK'
  <2>1. toml \in Seq(TextLine) /\ wizard.host \in Host
    BY <1>4, AtPrompt DEF AnswerRead
  <2>2. tokens' \in TokenFiles
    <3>1. Upserted(tokens.read, wizard.host, Answered(tokens.read, t)) \in Seq(TokenLine)
      BY <1>t, <2>1, AnsweredType, UpsertType
    <3>2. QED
      BY <1>4, <1>t, <3>1 DEF AnswerRead, TokenFiles
  <2>3. /\ toml' \in Seq(TextLine) /\ wizard' \in WizardType
        /\ wizard'.host = wizard.host
    <3>1. CASE wizard.write
      BY <1>4, <1>t, <2>1, <3>1 DEF AnswerRead, WizardType
    <3>2. CASE ~wizard.write
      BY <1>4, <3>2, ProjectsPrompt DEF AnswerRead
    <3>3. QED
      BY <3>1, <3>2
  <2>4. UNCHANGED commands /\ edited' = wizard.host
    BY <1>4 DEF AnswerRead
  <2>5. QED
    BY <2>1, <2>2, <2>3, <2>4, TextIsFile, TypeWhen
<1>5. ASSUME NEW t \in Typed, AnswerWrite(t)
      PROVE  TypeOK'
  <2>1. toml \in Seq(TextLine) /\ wizard.host \in Host
    BY <1>5, AtPrompt DEF AnswerWrite
  <2>2. tokens' \in TokenFiles
    <3>1. Upserted(tokens.write, wizard.host, Answered(tokens.write, t)) \in Seq(TokenLine)
      BY <1>t, <2>1, AnsweredType, UpsertType
    <3>2. QED
      BY <1>5, <1>t, <3>1 DEF AnswerWrite, TokenFiles
  <2>3. /\ toml' \in Seq(TextLine) /\ wizard' \in WizardType
        /\ wizard'.host = wizard.host
    BY <1>5, ProjectsPrompt DEF AnswerWrite
  <2>4. UNCHANGED commands /\ edited' = wizard.host
    BY <1>5 DEF AnswerWrite
  <2>5. QED
    BY <2>1, <2>2, <2>3, <2>4, TextIsFile, TypeWhen
<1>6. ASSUME NEW ps \in Answers, AnswerProjects(ps)
      PROVE  TypeOK'
  <2>1. toml \in Seq(TextLine) /\ wizard.host \in Host
    BY <1>6, AtPrompt DEF AnswerProjects
  <2>2. ps \cap Plausible \in SUBSET STRING
    BY PlausibleAssumption
  <2>3. toml' \in Seq(TextLine)
    BY <1>6, <2>1, <2>2, SetProjectsType DEF AnswerProjects
  <2>4. /\ wizard' \in WizardType
        /\ wizard'.step \notin {"none", "host"} => wizard'.host \in Host
    <3>1. wizard' = Away \/ wizard' = [wizard EXCEPT !.step = "prefix"]
      BY <1>6 DEF AnswerProjects
    <3>2. Away \in WizardType /\ Away.step = "none"
      BY DEF Away, WizardType
    <3>3. /\ [wizard EXCEPT !.step = "prefix"] \in WizardType
          /\ [wizard EXCEPT !.step = "prefix"].host = wizard.host
      BY <1>t DEF WizardType
    <3>4. QED
      BY <2>1, <3>1, <3>2, <3>3
  <2>5. UNCHANGED <<tokens, commands>> /\ edited' = wizard.host
    BY <1>6 DEF AnswerProjects
  <2>6. QED
    BY <1>t, <2>1, <2>3, <2>4, <2>5, TextIsFile, TypeWhen
<1>7. ASSUME NEW ps \in Answers, AllowCommand(ps)
      PROVE  TypeOK'
  <2>1. toml \in Seq(TextLine)
    BY <1>7, <1>t DEF AllowCommand
  <2>2. toml' \in Seq(TextLine)
    BY <1>7, <2>1, AllowType DEF AllowCommand
  <2>3. edited' \in Host \cup {Unset}
    BY <1>7, <2>1, FirstHostType DEF AllowCommand
  <2>4. UNCHANGED <<tokens, wizard>> /\ Command
    BY <1>7 DEF AllowCommand
  <2>5. QED
    BY <1>t, <2>2, <2>3, <2>4, TextIsFile, TypeWhen
<1>8. ASSUME AnswerPrefix("bot/")
      PROVE  TypeOK'
  <2>1. toml \in Seq(TextLine)
    BY <1>8, AtPrompt DEF AnswerPrefix
  <2>2. toml' \in Seq(TextLine)
    <3>1. {"bot/"} \in SUBSET STRING
      BY LiteralsAreStrings
    <3>2. QED
      BY <1>8, <2>1, <3>1, SetPrefixesType, Zenon DEF AnswerPrefix
  <2>3. wizard' = Away /\ edited' = Unset /\ UNCHANGED <<tokens, commands>>
    BY <1>8 DEF AnswerPrefix
  <2>4. Away \in WizardType /\ Away.step = "none"
    BY DEF Away, WizardType
  <2>5. QED
    BY <1>t, <2>2, <2>3, <2>4, TypeWhen
<1>9. ASSUME Quit
      PROVE  TypeOK'
  <2>1. Away \in WizardType /\ Away.step = "none"
    BY DEF Away, WizardType
  <2>2. QED
    BY <1>9, <1>t, <2>1, TypeWhen DEF Quit
<1>10. CASE UNCHANGED vars
  BY <1>10 DEF vars, TypeOK
<1>11. QED
  BY <1>1, <1>2, <1>3, <1>4, <1>5, <1>6, <1>7, <1>8, <1>9, <1>10 DEF Next

\* Whatever is edited, and in whatever order, the files stay files, the wizard knows the
\* host it asks for behind its first prompt, and it never asks without a warden.toml
\* (init_workspace, cmd_allow).
THEOREM OperatorTypeCorrect == Spec => []TypeOK
<1>1. Init => TypeOK
  BY OperatorAssumption DEF Init, TypeOK, File, Away
<1>2. QED
  BY <1>1, TypeStep, PTL DEF Spec

\* For any file the Warden accepts, the doctor's own copy of the cascade comes to the
\* same actions, and a report without complaints names the mode that is enforced
\* (check_tokens, check_action_coherence).
THEOREM DoctorIsRight == Spec => []DoctorAgrees
<1>1. TypeOK => DoctorAgrees
  BY DoctorAgreesOnTypes DEF TypeOK
<1>2. QED
  BY <1>1, OperatorTypeCorrect, PTL

\* A token file changes by a token for the host that was named, or, with nothing said of
\* which, by inheritance.
LEMMA TokenSteps ==
    ASSUME TypeOK, Next, edited' # Unset, NEW f \in {"read", "write"}, tokens'[f] # tokens[f]
    PROVE  /\ edited' \in Host /\ tokens[f] \in Seq(TokenLine)
           /\ \E token \in STRING : tokens'[f] = UpsertGroupedToken(tokens[f], edited', token)
<1>t. /\ tokens \in TokenFiles
      /\ tokens[f] \in Seq(TokenLine)
      /\ \A g \in {"read", "write"} : tokens[g] \in Seq(TokenLine)
  BY DEF TypeOK, TokenFiles
<1>u. ASSUME NEW file \in Seq(TokenLine), NEW h, NEW t \in STRING \cup {Unset},
             Upserted(file, h, t) # file
      PROVE  t \in STRING /\ Upserted(file, h, t) = UpsertGroupedToken(file, h, t)
  BY <1>u DEF Upserted
<1>1. ASSUME NEW s \in Sources \cup {NoFile}, NEW h \in Host \cup {Unset},
             NEW r \in Typed, NEW w \in Typed, InitYes(s, h, r, w)
      PROVE  /\ edited' \in Host
             /\ \E token \in STRING : tokens'[f] = UpsertGroupedToken(tokens[f], edited', token)
  <2>1. s = NoFile /\ edited' = h /\ h # Unset
    BY <1>1 DEF InitYes
  <2>2. StagedTokens(s, TRUE) = [g \in {"read", "write"} |-> tokens[g]]
    BY <2>1 DEF StagedTokens
  <2>3. /\ tokens'["read"] = Upserted(tokens["read"], h, r)
        /\ tokens'["write"] = Upserted(tokens["write"], h, w)
    BY <1>1, <2>2 DEF InitYes
  <2>4. r \in STRING \cup {Unset} /\ w \in STRING \cup {Unset}
    BY OperatorAssumption DEF Typed
  <2>5. QED
    BY <1>t, <1>u, <2>1, <2>3, <2>4
<1>2. ASSUME NEW t \in Typed, AnswerRead(t)
      PROVE  /\ edited' \in Host
             /\ \E token \in STRING : tokens'[f] = UpsertGroupedToken(tokens[f], edited', token)
  <2>1. edited' = wizard.host /\ wizard.host \in Host
    BY <1>2, AtPrompt DEF AnswerRead
  <2>2. tokens' = [tokens EXCEPT !["read"] = Upserted(tokens["read"], wizard.host,
                                                      Answered(tokens["read"], t))]
    BY <1>2 DEF AnswerRead
  <2>3. /\ f = "read"
        /\ tokens'[f] = Upserted(tokens[f], wizard.host, Answered(tokens[f], t))
    BY <1>t, <2>2 DEF TokenFiles
  <2>4. Answered(tokens[f], t) \in STRING \cup {Unset}
    BY <1>t, AnsweredType
  <2>5. QED
    BY <1>t, <1>u, <2>1, <2>3, <2>4
<1>3. ASSUME NEW t \in Typed, AnswerWrite(t)
      PROVE  /\ edited' \in Host
             /\ \E token \in STRING : tokens'[f] = UpsertGroupedToken(tokens[f], edited', token)
  <2>1. edited' = wizard.host /\ wizard.host \in Host
    BY <1>3, AtPrompt DEF AnswerWrite
  <2>2. tokens' = [tokens EXCEPT !["write"] = Upserted(tokens["write"], wizard.host,
                                                       Answered(tokens["write"], t))]
    BY <1>3 DEF AnswerWrite
  <2>3. /\ f = "write"
        /\ tokens'[f] = Upserted(tokens[f], wizard.host, Answered(tokens[f], t))
    BY <1>t, <2>2 DEF TokenFiles
  <2>4. Answered(tokens[f], t) \in STRING \cup {Unset}
    BY <1>t, AnsweredType
  <2>5. QED
    BY <1>t, <1>u, <2>1, <2>3, <2>4
<1>4. ASSUME NEW s, NEW force, InitInteractive(s, force)
      PROVE  FALSE
  BY <1>4 DEF InitInteractive
<1>5. ASSUME \/ \E h \in Host, write \in BOOLEAN : AnswerHost(h, write)
             \/ \E ps \in Answers : AnswerProjects(ps) \/ AllowCommand(ps)
             \/ AnswerPrefix("bot/") \/ Quit
      PROVE  FALSE
  BY <1>5 DEF AnswerHost, AnswerProjects, AllowCommand, AnswerPrefix, Quit
<1>6. QED
  BY <1>t, <1>1, <1>2, <1>3, <1>4, <1>5 DEF Next

\* A token file the Warden can read stays so whatever spellings of hosts and broken lines
\* it holds and however often init is repeated, and a token is only ever replaced for the
\* host it was given for (_upsert_grouped_token against _parse_token_file).
THEOREM TokensStayReadable == Spec => TokenFilesStayReadable
<1>1. ASSUME TypeOK, [Next]_vars, NEW f \in {"read", "write"},
             edited' # Unset, tokens'[f] # tokens[f], TokensParse(tokens[f])
      PROVE  /\ TokensParse(tokens'[f])
             /\ TokenOf(tokens'[f], edited') # Unset
             /\ \A h \in Host \ {edited'} : TokenOf(tokens'[f], h) = TokenOf(tokens[f], h)
  <2>1. Next
    BY <1>1 DEF vars
  <2>2. /\ edited' \in Host /\ tokens[f] \in Seq(TokenLine)
        /\ \E token \in STRING : tokens'[f] = UpsertGroupedToken(tokens[f], edited', token)
    BY <1>1, <2>1, TokenSteps
  <2>3. QED
    BY <1>1, <2>2, UpsertReadable
<1>2. TypeOK /\ [Next]_vars =>
          [\A f \in {"read", "write"} :
              edited' # Unset /\ tokens'[f] # tokens[f] /\ TokensParse(tokens[f]) =>
                  /\ TokensParse(tokens'[f])
                  /\ TokenOf(tokens'[f], edited') # Unset
                  /\ \A h \in Host \ {edited'} :
                        TokenOf(tokens'[f], h) = TokenOf(tokens[f], h)]_vars
  BY <1>1
<1>3. QED
  BY <1>2, OperatorTypeCorrect, PTL DEF Spec, TokenFilesStayReadable
=============================================================================
