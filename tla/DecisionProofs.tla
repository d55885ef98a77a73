--------------------------- MODULE DecisionProofs ---------------------------
(***************************************************************************)
(* Proofs about what the user decides, for every value of the constants of *)
(* module MCTools: the rules and the patterns that decide without asking   *)
(* (modules PermissionRules and PatternMatch), and that an edit of several *)
(* files is taken back as a whole (module PatchSet).                       *)
(*                                                                         *)
(* Rules: the engine, the table and the file agree but for the rule that   *)
(* is being added or removed (RulesListed, RulesFiled), and of the rules   *)
(* that match one decides, since identifiers are unique.                   *)
(*                                                                         *)
(* Patterns: a row of the table is what the first characters may stand for *)
(* (RowIs); the loop that goes back has lost nothing if the rest from its  *)
(* last star fits exactly when the whole does (BackIs).                    *)
(*                                                                         *)
(* Edits: the previews can be ranked so that each was computed from texts  *)
(* of lower ones, and under the text a file has now lie the texts, each of *)
(* a lower preview, that undoing may bring back (ChainsFit).  A text in    *)
(* such a chain has a record that undoes it, or one that is lost; a record *)
(* that was not taken back is of a preview that is not said to be          *)
(* (RecordsFit), so what such a preview has left is lost.                  *)
(***************************************************************************)
EXTENDS MCTools, Integers, SequenceTheorems, FiniteSetTheorems, WellFoundedInduction,
        NaturalsInduction, TLAPS

-----------------------------------------------------------------------------
(* Lists and their members.                                                  *)

Members(list) == {list[i] : i \in 1..Len(list)}

(* No member comes twice.                                                    *)
Unlike(list) == \A i, j \in 1..Len(list) : list[i] = list[j] => i = j

(* A set of numbers has a least one.                                         *)
LEMMA LeastOfAll ==
  ASSUME NEW T, T \subseteq Nat, T # {}
  PROVE  \E x \in T : \A y \in T : x <= y
  <1>1. PICK x \in T : \A y \in T : ~ (<<y, x>> \in OpToRel(<, Nat))
    BY NatLessThanWellFounded, WFMin, Zenon
  <1>2. OpToRel(<, Nat) = {ss \in Nat \X Nat : ss[1] < ss[2]}
    BY Zenon DEF OpToRel
  <1>3. \A y \in T : ~ (<<y, x>> \in {ss \in Nat \X Nat : ss[1] < ss[2]})
    BY <1>1, <1>2, Zenon
  <1>4. \A y \in T : ~ (y < x)
    BY <1>3
  <1>5. QED
    BY <1>4

LEMMA ListExtended ==
  ASSUME NEW S, NEW s \in Seq(S), NEW x \in S
  PROVE  Append(s, x) \in Seq(S) /\ Members(Append(s, x)) = Members(s) \cup {x}
  <1>1. /\ Append(s, x) \in Seq(S)
        /\ Len(Append(s, x)) = Len(s) + 1
        /\ \A i \in 1..Len(s) : Append(s, x)[i] = s[i]
        /\ Append(s, x)[Len(s) + 1] = x
    BY AppendProperties
  <1>2. Len(s) \in Nat
    BY LenProperties
  <1>3. 1..(Len(s) + 1) = 1..Len(s) \cup {Len(s) + 1}
    BY <1>2
  <1> DEFINE longer == Append(s, x)
  <1> HIDE DEF longer
  <1>4. /\ Len(longer) = Len(s) + 1 /\ longer[Len(s) + 1] = x
        /\ \A i \in 1..Len(s) : longer[i] = s[i]
    BY <1>1 DEF longer
  <1>5. Members(longer) = Members(s) \cup {x}
    <2>1. \A i \in 1..Len(longer) : longer[i] \in Members(s) \cup {x}
      BY <1>2, <1>3, <1>4 DEF Members
    <2>2. \A i \in 1..Len(s) : s[i] \in Members(longer)
      BY <1>2, <1>3, <1>4 DEF Members
    <2>3. x \in Members(longer)
      BY <1>2, <1>3, <1>4 DEF Members
    <2>4. QED
      BY <2>1, <2>2, <2>3 DEF Members
  <1>6. QED
    BY <1>1, <1>5 DEF longer

(* What is kept of the first n members of a list: those at the places in K.   *)
KeepsOf(list, K, upto, held) ==
  held = [n \in 0..upto |->
            IF n = 0 THEN <<>>
            ELSE IF n \in K THEN Append(held[n - 1], list[n]) ELSE held[n - 1]]

LEMMA KeepsExist ==
  ASSUME NEW s, NEW K, NEW n \in Nat
  PROVE  \E held : KeepsOf(s, K, n, held)
  <1> DEFINE Bad == {k \in Nat : ~ \E held : KeepsOf(s, K, k, held)}
  <1>1. SUFFICES ASSUME Bad # {} PROVE FALSE
    OBVIOUS
  <1>2. PICK k \in Bad : \A j \in Bad : k <= j
    <2>1. Bad \subseteq Nat
      OBVIOUS
    <2> HIDE DEF Bad
    <2>2. QED
      BY <1>1, <2>1, LeastOfAll
  <1>3. k # 0
    <2>1. KeepsOf(s, K, 0, [i \in {0} |-> <<>>])
      BY DEF KeepsOf
    <2>2. QED
      BY <2>1
  <1>4. k - 1 \in Nat /\ k - 1 \notin Bad
    <2>1. k \in Nat
      BY <1>2
    <2>2. k - 1 \in Nat /\ ~ (k <= k - 1)
      BY <1>3, <2>1
    <2> HIDE DEF Bad
    <2>3. QED
      BY <1>2, <2>2
  <1>5. PICK less : KeepsOf(s, K, k - 1, less)
    BY <1>4
  <1> DEFINE last == IF k \in K THEN Append(less[k - 1], s[k]) ELSE less[k - 1]
             more == [i \in 0..k |-> IF i = k THEN last ELSE less[i]]
  <1>6. KeepsOf(s, K, k, more)
    <2>1. ASSUME NEW i \in 0..k
          PROVE  more[i] = IF i = 0 THEN <<>>
                           ELSE IF i \in K THEN Append(more[i - 1], s[i]) ELSE more[i - 1]
      <3>1. CASE i = k
        BY <1>3, <1>4, <3>1
      <3>2. CASE i # k
        <4>1. i \in 0..(k - 1) /\ (i # 0 => i - 1 \in 0..(k - 1))
          BY <1>4, <3>2
        <4>2. more[i] = less[i] /\ (i # 0 => more[i - 1] = less[i - 1])
          BY <3>2, <4>1
        <4>3. less[i] = IF i = 0 THEN <<>>
                        ELSE IF i \in K THEN Append(less[i - 1], s[i]) ELSE less[i - 1]
          BY <1>5, <4>1 DEF KeepsOf
        <4>4. QED
          BY <4>1, <4>2, <4>3
      <3>3. QED
        BY <3>1, <3>2
    <2>2. QED
      BY <2>1 DEF KeepsOf
  <1>7. QED
    BY <1>2, <1>6

PlacesIn(s, K) == {s[i] : i \in {j \in 1..Len(s) : j \in K}}

LEMMA KeepsAre ==
  ASSUME NEW S, NEW s \in Seq(S), NEW K, NEW held, KeepsOf(s, K, Len(s), held)
  PROVE  held[Len(s)] \in Seq(S) /\ Members(held[Len(s)]) = PlacesIn(s, K)
  <1>1. Len(s) \in Nat
    BY LenProperties
  <1>2. \A n \in 0..Len(s) :
          held[n] = IF n = 0 THEN <<>>
                    ELSE IF n \in K THEN Append(held[n - 1], s[n]) ELSE held[n - 1]
    BY DEF KeepsOf
  <1> DEFINE Right(n) ==
               /\ held[n] \in Seq(S)
               /\ Members(held[n]) = {s[i] : i \in {j \in 1..n : j \in K}}
             Bad == {n \in 0..Len(s) : ~Right(n)}
  <1>3. Bad = {}
    <2> SUFFICES ASSUME Bad # {} PROVE FALSE
      OBVIOUS
    <2>1. PICK n \in Bad : \A j \in Bad : n <= j
      <3>1. Bad \subseteq Nat
        BY <1>1
      <3> HIDE DEF Bad
      <3>2. QED
        BY <3>1, LeastOfAll
    <2>2. n \in 0..Len(s) /\ ~Right(n)
      BY <2>1
    <2>3. n # 0
      <3>1. held[0] = <<>>
        BY <1>1, <1>2
      <3>2. <<>> \in Seq(S) /\ Members(<<>>) = {}
        BY DEF Members
      <3>3. Right(0)
        BY <3>1, <3>2
      <3>4. QED
        BY <2>2, <3>3
    <2>4. n - 1 \in 0..Len(s) /\ ~ (n <= n - 1)
      BY <1>1, <2>2, <2>3
    <2>5. Right(n - 1)
      <3> HIDE DEF Right
      <3>1. QED
        BY <2>1, <2>4
    <2>6. n \in 1..Len(s) /\ s[n] \in S
      BY <1>1, <2>2, <2>3
    <2>7. 1..n = 1..(n - 1) \cup {n}
      BY <2>6
    <2>8. held[n] = IF n \in K THEN Append(held[n - 1], s[n]) ELSE held[n - 1]
      BY <1>2, <2>2, <2>3
    <2>9. CASE n \notin K
      BY <2>2, <2>5, <2>7, <2>8, <2>9
    <2>10. CASE n \in K
      <3>1. held[n] \in Seq(S) /\ Members(held[n]) = Members(held[n - 1]) \cup {s[n]}
        BY <2>5, <2>6, <2>8, <2>10, ListExtended
      <3>2. QED
        BY <2>2, <2>5, <2>7, <2>10, <3>1
    <2>11. QED
      BY <2>9, <2>10
  <1>4. Right(Len(s))
    <2> HIDE DEF Right
    <2>1. QED
      BY <1>1, <1>3
  <1>5. QED
    BY <1>4 DEF PlacesIn

-----------------------------------------------------------------------------
(* The user's rules.                                                         *)

(* An identifier is of one rule.                                             *)
Distinct(S) == \A r, s \in S : r.id = s.id => r = s

RulesTyped ==
  /\ engine \in Seq(Given) /\ table \in SUBSET Given /\ IsFiniteSet(table)
  /\ ruleFile \in (SUBSET Given) \cup {NoRule}
  /\ change \in [kind : {"add", "remove"}, rule : Given,
                 saved : {"no", "done", "failed"}] \cup {NoRule}
  /\ told \in SUBSET Given /\ astray \in BOOLEAN
  /\ saveFaults \in 0..MaxSaveFault /\ ruleKills \in 0..MaxRuleKill

(* What is being changed, and how far it has come.                           *)
Adding == change # NoRule /\ change.kind = "add"
Removing == change # NoRule /\ change.kind = "remove"
Written == change # NoRule /\ change.saved = "done"

(* The rule that is added is in force already, and the one that is removed   *)
(* still is; nobody is told that it stays.                                   *)
RulesListed ==
  /\ Adding => /\ \A r \in table : r.id # change.rule.id
               /\ Rules!ToSet(engine) = table \cup {change.rule}
  /\ ~Adding => Rules!ToSet(engine) = table
  /\ Removing => change.rule \in table /\ change.rule \notin told
  /\ Distinct(table)

(* The file is what the table is, or will be, unless it could not be put     *)
(* back.                                                                     *)
RulesFiled ==
  /\ Written => Rules!InFile = Rules!Candidate
  /\ ~Written => Rules!InFile \in {table, {}}
  /\ ~Written /\ saveFaults < 2 => Rules!InFile = table
  /\ ~astray /\ saveFaults < 2 => told \subseteq table

RulesInv == RulesTyped /\ RulesListed /\ RulesFiled

(* What is in the engine's list.                                             *)
LEMMA ListIs ==
  ASSUME NEW S, NEW s \in Seq(S)
  PROVE  /\ Rules!ToSet(s) = Members(s)
         /\ Rules!ToSet(s) = {s[i] : i \in 1..Len(s)}
         /\ Rules!ToSet(s) \subseteq S
         /\ \A x : x \in Rules!ToSet(s) <=> \E i \in 1..Len(s) : s[i] = x
  BY DEF Rules!ToSet, Members

LEMMA ListAppended ==
  ASSUME NEW S, NEW s \in Seq(S), NEW x \in S
  PROVE  Append(s, x) \in Seq(S) /\ Rules!ToSet(Append(s, x)) = Rules!ToSet(s) \cup {x}
  <1>1. Append(s, x) \in Seq(S) /\ Members(Append(s, x)) = Members(s) \cup {x}
    BY ListExtended
  <1>2. \A t \in Seq(S) : Rules!ToSet(t) = Members(t)
    BY ListIs
  <1>3. QED
    BY <1>1, <1>2

(* Every rule is kept but those of the identifier.                           *)
LEMMA WithoutIs ==
  ASSUME NEW S, NEW s \in Seq(S), NEW r
  PROVE  /\ Rules!Without(s, r) \in Seq(S)
         /\ \A x : x \in Rules!ToSet(Rules!Without(s, r)) <=>
                  x \in Rules!ToSet(s) /\ x.id # r.id
  <1> DEFINE Kept(held) == held = [n \in 0..Len(s) |->
               IF n = 0 THEN <<>>
               ELSE IF s[n].id = r.id THEN held[n - 1] ELSE Append(held[n - 1], s[n])]
             chosen == CHOOSE held : Kept(held)
             K == {n \in 1..Len(s) : s[n].id # r.id}
  <1>1. Rules!Without(s, r) = chosen[Len(s)]
    BY DEF Rules!Without
  <1>2. Len(s) \in Nat
    BY LenProperties
  <1>3. \A held : KeepsOf(s, K, Len(s), held) <=> Kept(held)
    <2>1. ASSUME NEW held, NEW n \in 0..Len(s)
          PROVE  (IF n = 0 THEN <<>>
                  ELSE IF n \in K THEN Append(held[n - 1], s[n]) ELSE held[n - 1])
                 = (IF n = 0 THEN <<>>
                    ELSE IF s[n].id = r.id THEN held[n - 1]
                         ELSE Append(held[n - 1], s[n]))
      BY <1>2
    <2> HIDE DEF K
    <2>2. QED
      BY <2>1 DEF KeepsOf
  <1>4. KeepsOf(s, K, Len(s), chosen)
    <2>1. \E held : Kept(held)
      BY <1>2, <1>3, KeepsExist
    <2> HIDE DEF Kept
    <2>2. Kept(chosen)
      BY <2>1
    <2> HIDE DEF chosen
    <2>3. QED
      BY <1>3, <2>2
  <1> HIDE DEF chosen, K
  <1>5. chosen[Len(s)] \in Seq(S) /\ Members(chosen[Len(s)]) = PlacesIn(s, K)
    BY <1>4, KeepsAre
  <1>6. \A x : x \in PlacesIn(s, K) <=> x \in Members(s) /\ x.id # r.id
    BY DEF Members, PlacesIn, K
  <1>7. QED
    BY <1>1, <1>5, <1>6, ListIs

LEMMA RulesCount == \A S : Rules!Cardinality(S) = Cardinality(S)
  BY Zenon DEF Rules!Cardinality, Cardinality

(* Identifiers are numbers.                                                  *)
LEMMA RulesGiven ==
  /\ Given \subseteq Rules!Rule /\ MaxRule \in Nat
  /\ \A r \in Given : /\ r.id \in Nat /\ r.length \in 1..2 /\ r.covers \in (SUBSET Path) \ {{}}
                      /\ r.effect \in {"allow", "ask", "deny"}
  /\ NoRule \notin Given /\ \A S \in SUBSET Given : S # NoRule
  /\ MaxSaveFault \in Nat /\ MaxRuleKill \in Nat
  <1>1. /\ Given \subseteq Rules!Rule /\ MaxRule \in Nat
        /\ NoRule \notin Rules!Rule /\ \A S \in SUBSET Given : S # NoRule
        /\ MaxSaveFault \in Nat /\ MaxRuleKill \in Nat
    BY InstanceAssumption
  <1>2. QED
    BY <1>1 DEF Rules!Rule, Rules!Effect

(* How many of S come before a rule, and the rule itself.                    *)
Rank(S, r) == Cardinality({s \in S : s.id <= r.id})

LEMMA RanksRise ==
  ASSUME NEW S \in SUBSET Given, IsFiniteSet(S), Distinct(S)
  PROVE  /\ Cardinality(S) \in Nat
         /\ \A r \in S : Rank(S, r) \in 1..Cardinality(S)
         /\ \A r, s \in S : r.id < s.id => Rank(S, r) < Rank(S, s)
  <1>1. Cardinality(S) \in Nat
    BY FS_CardinalityType
  <1>2. ASSUME NEW r \in S
        PROVE  Rank(S, r) \in 1..Cardinality(S)
    <2> DEFINE T == {s \in S : s.id <= r.id}
    <2>1. T \subseteq S /\ r \in T
      BY RulesGiven
    <2> HIDE DEF T
    <2>2. IsFiniteSet(T) /\ Cardinality(T) <= Cardinality(S) /\ Cardinality(T) \in Nat
      BY <2>1, FS_Subset, FS_CardinalityType
    <2>3. Cardinality(T) # 0
      BY <2>1, <2>2, FS_EmptySet
    <2>4. QED
      BY <1>1, <2>2, <2>3 DEF Rank, T
  <1>3. ASSUME NEW r \in S, NEW s \in S, r.id < s.id
        PROVE  Rank(S, r) < Rank(S, s)
    <2> DEFINE T == {x \in S : x.id <= r.id}
               U == {x \in S : x.id <= s.id}
    <2>1. U \subseteq S /\ T \subseteq U /\ s \in U /\ s \notin T
      BY <1>3, RulesGiven
    <2>2. Rank(S, r) = Cardinality(T) /\ Rank(S, s) = Cardinality(U)
      BY DEF Rank
    <2> HIDE DEF T, U
    <2>3. IsFiniteSet(U)
      BY <2>1, FS_Subset
    <2>4. Cardinality(T) < Cardinality(U)
      <3>1. /\ Cardinality(T) <= Cardinality(U)
            /\ Cardinality(T) = Cardinality(U) => T = U
            /\ IsFiniteSet(T)
        BY <2>1, <2>3, FS_Subset
      <3>2. Cardinality(T) \in Nat /\ Cardinality(U) \in Nat
        BY <2>3, <3>1, FS_CardinalityType
      <3>3. QED
        BY <2>1, <3>1, <3>2
    <2>5. QED
      BY <2>2, <2>4
  <1>4. QED
    BY <1>1, <1>2, <1>3

(* The rules of a set can be listed in the order of their identifiers, and   *)
(* the list has each of them.                                                *)
LEMMA ByIdIs ==
  ASSUME NEW S \in SUBSET Given, IsFiniteSet(S), Distinct(S)
  PROVE  Rules!ById(S) \in Seq(S) /\ Rules!ToSet(Rules!ById(S)) = S
  <1> DEFINE n == Cardinality(S)
             rank == [r \in S |-> Rank(S, r)]
             at == [i \in 1..n |-> CHOOSE r \in S : rank[r] = i]
             Sorted(s) == \A i, j \in DOMAIN s : i < j => s[i].id < s[j].id
             sorted == CHOOSE s \in [1..n -> S] : Sorted(s)
  <1>1. n \in Nat /\ \A r \in S : rank[r] \in 1..n
    BY RanksRise
  <1>2. \A r, s \in S : r.id < s.id => rank[r] < rank[s]
    BY RanksRise
  <1>3. \A r, s \in S : rank[r] = rank[s] => r = s
    <2>1. \A r, s \in S : r.id \in Nat /\ s.id \in Nat
      BY RulesGiven
    <2>2. \A r, s \in S : rank[r] \in Nat /\ rank[s] \in Nat
      BY <1>1
    <2> HIDE DEF rank
    <2>3. QED
      BY <1>2, <2>1, <2>2 DEF Distinct
  <1> HIDE DEF rank
  <1>4. rank \in [S -> 1..n]
    BY <1>1 DEF rank
  <1>5. \A i \in 1..n : \E r \in S : rank[r] = i
    <2>1. rank \in Injection(S, 1..n)
      BY <1>3, <1>4 DEF Injection, IsInjective
    <2>2. IsFiniteSet(1..n) /\ Cardinality(1..n) = n
      BY <1>1, FS_Interval
    <2>3. rank \in Surjection(S, 1..n)
      BY <2>1, <2>2, FS_Injection
    <2>4. QED
      BY <2>3 DEF Surjection
  <1>6. at \in [1..n -> S] /\ \A i \in 1..n : rank[at[i]] = i
    BY <1>5
  <1>7. Sorted(at)
    <2> HIDE DEF at
    <2>1. SUFFICES ASSUME NEW i \in 1..n, NEW j \in 1..n, i < j
                   PROVE  at[i].id < at[j].id
      BY <1>6
    <2>2. at[i] \in S /\ at[j] \in S /\ rank[at[i]] = i /\ rank[at[j]] = j
      BY <1>6
    <2>3. at[i].id \in Nat /\ at[j].id \in Nat
      BY <2>2, RulesGiven
    <2>4. at[i].id # at[j].id
      BY <2>1, <2>2, <1>1 DEF Distinct
    <2>5. ~ (at[j].id < at[i].id)
      BY <2>1, <2>2, <1>1, <1>2
    <2>6. QED
      BY <2>3, <2>4, <2>5
  <1>8. sorted \in [1..n -> S] /\ Sorted(sorted)
    <2>1. \E s \in [1..n -> S] : Sorted(s)
      BY <1>6, <1>7
    <2> HIDE DEF Sorted
    <2>2. QED
      BY <2>1
  <1>9. Rules!ById(S) = sorted
    BY RulesCount DEF Rules!ById
  <1> HIDE DEF sorted, at
  <1>10. sorted \in Seq(S) /\ Len(sorted) = n
    BY <1>1, <1>8, SeqDef
  <1>11. \A x \in S : \E i \in 1..n : sorted[i] = x
    <2>1. \A i, j \in 1..n : sorted[i] = sorted[j] => i = j
      <3>1. \A i \in 1..n : sorted[i] \in S /\ sorted[i].id \in Nat
        BY <1>8, RulesGiven
      <3>2. \A i, j \in 1..n : i < j => sorted[i].id < sorted[j].id
        BY <1>8
      <3>3. QED
        BY <3>1, <3>2, <1>1
    <2>2. sorted \in Injection(1..n, S)
      BY <1>8, <2>1 DEF Injection, IsInjective
    <2>3. IsFiniteSet(1..n) /\ Cardinality(1..n) = n
      BY <1>1, FS_Interval
    <2>4. sorted \in Surjection(1..n, S)
      BY <2>2, <2>3, FS_Injection
    <2>5. QED
      BY <2>4 DEF Surjection
  <1>12. Rules!ToSet(sorted) = S
    <2>1. Rules!ToSet(sorted) \subseteq S
      BY <1>10, ListIs
    <2>2. \A x : x \in Rules!ToSet(sorted) <=> \E i \in 1..n : sorted[i] = x
      BY <1>10, ListIs
    <2>3. QED
      BY <1>11, <2>1, <2>2
  <1>13. QED
    BY <1>9, <1>10, <1>12

LEMMA RulesStay == UNCHANGED ruleVars => (RulesInv => RulesInv')
  BY DEF ruleVars, RulesInv, RulesTyped, RulesListed, RulesFiled, Adding, Removing,
         Written, Rules!InFile, Rules!Candidate, Rules!ToSet

LEMMA RulesBegin == Rules!Init => RulesInv
  <1> SUFFICES ASSUME Rules!Init
               PROVE  RulesInv
    OBVIOUS
  <1>1. /\ engine = <<>> /\ table = {} /\ ruleFile = NoRule /\ change = NoRule
        /\ told = {} /\ astray = FALSE /\ saveFaults = 0 /\ ruleKills = 0
    BY DEF Rules!Init
  <1>2. RulesTyped
    <2>1. engine \in Seq(Given)
      BY <1>1, EmptySeq
    <2>2. /\ IsFiniteSet(table) /\ saveFaults \in 0..MaxSaveFault
          /\ ruleKills \in 0..MaxRuleKill
      BY <1>1, RulesGiven, FS_EmptySet
    <2>3. /\ table \in SUBSET Given /\ told \in SUBSET Given /\ astray \in BOOLEAN
          /\ ruleFile \in (SUBSET Given) \cup {NoRule}
          /\ \A C : change \in C \cup {NoRule}
      BY <1>1
    <2>4. QED
      BY <2>1, <2>2, <2>3 DEF RulesTyped
  <1>3. RulesListed
    BY <1>1 DEF RulesListed, Adding, Removing, Distinct, Rules!ToSet
  <1>4. RulesFiled
    BY <1>1 DEF RulesFiled, Written, Rules!InFile
  <1>5. QED
    BY <1>2, <1>3, <1>4 DEF RulesInv

(* A change that can be made.                                                *)
Making(k, r, s) == [kind |-> k, rule |-> r, saved |-> s]

LEMMA MakingIs ==
  ASSUME NEW k \in {"add", "remove"}, NEW r \in Given, NEW s \in {"no", "done", "failed"}
  PROVE  /\ Making(k, r, s) # NoRule
         /\ Making(k, r, s) \in [kind : {"add", "remove"}, rule : Given,
                                 saved : {"no", "done", "failed"}]
  <1>1. Making(k, r, s) \in Rules!Change
    BY RulesGiven DEF Making, Rules!Change
  <1>2. QED
    BY <1>1, InstanceAssumption DEF Making

LEMMA AddRuleKeeps ==
  ASSUME RulesInv, NEW r \in Given, Rules!AddRule(r)
  PROVE  RulesInv'
  <1>1. /\ change = NoRule /\ \A s \in table : s.id # r.id
        /\ engine' = Append(engine, r)
        /\ change' = Making("add", r, "no")
        /\ UNCHANGED <<table, ruleFile, told, astray, saveFaults, ruleKills>>
    BY DEF Rules!AddRule, Making
  <1>2. /\ change' # NoRule
        /\ change' \in [kind : {"add", "remove"}, rule : Given,
                        saved : {"no", "done", "failed"}]
        /\ change'.kind = "add" /\ change'.rule = r /\ change'.saved = "no"
    BY <1>1, MakingIs DEF Making
  <1>3. engine' \in Seq(Given) /\ Rules!ToSet(engine') = Rules!ToSet(engine) \cup {r}
    BY <1>1, ListAppended DEF RulesInv, RulesTyped
  <1>4. RulesTyped'
    BY <1>1, <1>2, <1>3 DEF RulesInv, RulesTyped
  <1>5. RulesListed'
    BY <1>1, <1>2, <1>3 DEF RulesInv, RulesListed, Adding, Removing, Rules!ToSet
  <1>6. RulesFiled'
    BY <1>1, <1>2 DEF RulesInv, RulesFiled, Written, Rules!InFile
  <1>7. QED
    BY <1>4, <1>5, <1>6 DEF RulesInv

LEMMA RemoveRuleKeeps ==
  ASSUME RulesInv, NEW r \in table, Rules!RemoveRule(r)
  PROVE  RulesInv'
  <1>1. /\ change = NoRule
        /\ change' = Making("remove", r, "no") /\ told' = told \ {r}
        /\ UNCHANGED <<engine, table, ruleFile, astray, saveFaults, ruleKills>>
    BY DEF Rules!RemoveRule, Making
  <1>2. r \in Given
    BY DEF RulesInv, RulesTyped
  <1>3. /\ change' # NoRule
        /\ change' \in [kind : {"add", "remove"}, rule : Given,
                        saved : {"no", "done", "failed"}]
        /\ change'.kind = "remove" /\ change'.rule = r /\ change'.saved = "no"
    BY <1>1, <1>2, MakingIs DEF Making
  <1>4. RulesTyped'
    BY <1>1, <1>3 DEF RulesInv, RulesTyped
  <1>5. RulesListed'
    BY <1>1, <1>3 DEF RulesInv, RulesListed, Adding, Removing, Rules!ToSet
  <1>6. RulesFiled'
    BY <1>1, <1>3 DEF RulesInv, RulesFiled, Written, Rules!InFile
  <1>7. QED
    BY <1>4, <1>5, <1>6 DEF RulesInv

(* What the file will be is a set of rules, each with its own identifier.    *)
LEMMA CandidateIs ==
  ASSUME RulesInv, change # NoRule
  PROVE  /\ change.rule \in Given /\ change.kind \in {"add", "remove"}
         /\ change.saved \in {"no", "done", "failed"}
         /\ Rules!Candidate = IF change.kind = "add" THEN table \cup {change.rule}
                              ELSE table \ {change.rule}
         /\ Rules!Candidate \in SUBSET Given /\ IsFiniteSet(Rules!Candidate)
         /\ Distinct(Rules!Candidate) /\ Rules!Candidate # NoRule
  <1>1. /\ change.rule \in Given /\ change.kind \in {"add", "remove"}
        /\ change.saved \in {"no", "done", "failed"}
    BY DEF RulesInv, RulesTyped
  <1>2. Rules!Candidate = IF change.kind = "add" THEN table \cup {change.rule}
                          ELSE table \ {change.rule}
    BY DEF Rules!Candidate
  <1>3. table \in SUBSET Given /\ IsFiniteSet(table) /\ Distinct(table)
    BY DEF RulesInv, RulesTyped, RulesListed
  <1>4. change.kind = "add" => \A r \in table : r.id # change.rule.id
    BY DEF RulesInv, RulesListed, Adding
  <1>5. IsFiniteSet(table \cup {change.rule}) /\ IsFiniteSet(table \ {change.rule})
    BY <1>3, FS_AddElement, FS_Subset
  <1>6. Rules!Candidate \in SUBSET Given
    BY <1>1, <1>2, <1>3
  <1>7. Rules!Candidate # NoRule
    BY <1>6, RulesGiven
  <1>8. Distinct(Rules!Candidate)
    BY <1>1, <1>2, <1>3, <1>4 DEF Distinct
  <1>9. QED
    BY <1>1, <1>2, <1>5, <1>6, <1>7, <1>8

LEMMA SaveKeeps ==
  ASSUME RulesInv, Rules!Save
  PROVE  RulesInv'
  <1>1. /\ change # NoRule /\ change.saved = "no"
        /\ UNCHANGED <<engine, table, told, astray, ruleKills>>
        /\ \/ /\ change' = [change EXCEPT !.saved = "done"]
              /\ ruleFile' = Rules!Candidate /\ UNCHANGED saveFaults
           \/ /\ saveFaults < MaxSaveFault /\ saveFaults' = saveFaults + 1
              /\ change' = [change EXCEPT !.saved = "failed"] /\ UNCHANGED ruleFile
           \/ /\ saveFaults + 1 < MaxSaveFault /\ saveFaults' = saveFaults + 2
              /\ ruleFile' = NoRule
              /\ change' = [change EXCEPT !.saved = "failed"]
    BY DEF Rules!Save
  <1>2. /\ change.rule \in Given /\ change.kind \in {"add", "remove"}
        /\ Rules!Candidate \in SUBSET Given /\ Rules!Candidate # NoRule
    BY <1>1, CandidateIs
  <1>3. /\ change' # NoRule
        /\ change' \in [kind : {"add", "remove"}, rule : Given,
                        saved : {"no", "done", "failed"}]
        /\ change'.kind = change.kind /\ change'.rule = change.rule
        /\ change'.saved \in {"done", "failed"}
    <2>1. change \in [kind : {"add", "remove"}, rule : Given,
                      saved : {"no", "done", "failed"}]
      BY <1>1 DEF RulesInv, RulesTyped
    <2>2. PICK s \in {"done", "failed"} : change' = [change EXCEPT !.saved = s]
      BY <1>1
    <2>3. change' = Making(change.kind, change.rule, s)
      BY <2>1, <2>2 DEF Making
    <2>4. QED
      BY <1>2, <2>3, MakingIs DEF Making
  <1>4. saveFaults \in 0..MaxSaveFault /\ saveFaults' \in 0..MaxSaveFault
    BY <1>1, RulesGiven DEF RulesInv, RulesTyped
  <1>5. RulesTyped'
    <2>1. ruleFile' \in (SUBSET Given) \cup {NoRule}
      <3>1. ruleFile' \in {ruleFile, Rules!Candidate, NoRule}
        BY <1>1
      <3>2. ruleFile \in (SUBSET Given) \cup {NoRule}
        BY DEF RulesInv, RulesTyped
      <3>3. QED
        BY <1>2, <3>1, <3>2
    <2>2. /\ engine' \in Seq(Given) /\ table' \in SUBSET Given /\ IsFiniteSet(table')
          /\ told' \in SUBSET Given /\ astray' \in BOOLEAN /\ ruleKills' \in 0..MaxRuleKill
      BY <1>1 DEF RulesInv, RulesTyped
    <2>3. QED
      BY <1>3, <1>4, <2>1, <2>2 DEF RulesTyped
  <1>6. RulesListed'
    BY <1>1, <1>3 DEF RulesInv, RulesListed, Adding, Removing, Rules!ToSet
  <1>7. Rules!Candidate' = Rules!Candidate
    BY <1>1, <1>3 DEF Rules!Candidate
  <1>8. RulesFiled'
    <2>1. CASE /\ change' = [change EXCEPT !.saved = "done"]
               /\ ruleFile' = Rules!Candidate /\ UNCHANGED saveFaults
      <3>1. change'.saved = "done"
        BY <1>3, <2>1 DEF RulesInv, RulesTyped
      <3>2. Written' /\ Rules!InFile' = Rules!Candidate'
        BY <1>2, <1>3, <1>7, <2>1, <3>1 DEF Written, Rules!InFile
      <3>3. QED
        BY <1>1, <2>1, <3>2 DEF RulesInv, RulesFiled
    <2>2. CASE /\ saveFaults' = saveFaults + 1
               /\ change' = [change EXCEPT !.saved = "failed"] /\ UNCHANGED ruleFile
      <3>1. change'.saved = "failed"
        BY <1>3, <2>2 DEF RulesInv, RulesTyped
      <3>2. ~Written /\ ~Written' /\ Rules!InFile' = Rules!InFile
        BY <1>1, <2>2, <3>1 DEF Written, Rules!InFile
      <3>3. QED
        BY <1>1, <1>4, <2>2, <3>2 DEF RulesInv, RulesFiled
    <2>3. CASE /\ saveFaults' = saveFaults + 2
               /\ ruleFile' = NoRule
               /\ change' = [change EXCEPT !.saved = "failed"]
      <3>1. change'.saved = "failed"
        BY <1>3, <2>3 DEF RulesInv, RulesTyped
      <3>2. ~Written' /\ Rules!InFile' = {} /\ ~ (saveFaults' < 2)
        BY <1>1, <1>4, <2>3, <3>1 DEF Written, Rules!InFile
      <3>3. QED
        BY <1>1, <2>3, <3>2 DEF RulesFiled
    <2>4. QED
      BY <1>1, <2>1, <2>2, <2>3
  <1>9. QED
    BY <1>5, <1>6, <1>8 DEF RulesInv

LEMMA FinishAddKeeps ==
  ASSUME RulesInv, Rules!FinishAdd
  PROVE  RulesInv'
  <1>1. /\ change # NoRule /\ change.kind = "add" /\ change.saved # "no"
        /\ change' = NoRule
        /\ IF change.saved = "done"
           THEN table' = Rules!Candidate /\ told' = told \cup {change.rule}
                /\ UNCHANGED engine
           ELSE engine' = Rules!Without(engine, change.rule) /\ UNCHANGED <<table, told>>
        /\ UNCHANGED <<ruleFile, astray, saveFaults, ruleKills>>
    BY DEF Rules!FinishAdd, Rules!TakenBack
  <1>2. /\ change.rule \in Given /\ Rules!Candidate = table \cup {change.rule}
        /\ Rules!Candidate \in SUBSET Given /\ IsFiniteSet(Rules!Candidate)
        /\ Distinct(Rules!Candidate)
    BY <1>1, CandidateIs
  <1>3. /\ engine \in Seq(Given) /\ Rules!ToSet(engine) = table \cup {change.rule}
        /\ \A r \in table : r.id # change.rule.id
    BY <1>1 DEF RulesInv, RulesTyped, RulesListed, Adding
  <1>4. engine' \in Seq(Given) /\ Rules!ToSet(engine') = table'
    <2>1. CASE change.saved = "done"
      BY <1>1, <1>2, <1>3, <2>1
    <2>2. CASE change.saved # "done"
      <3> DEFINE rules == Rules!Without(engine, change.rule)
      <3>3. /\ rules \in Seq(Given)
            /\ \A x : x \in Rules!ToSet(rules) <=>
                     x \in Rules!ToSet(engine) /\ x.id # change.rule.id
        BY <1>3, WithoutIs
      <3>4. engine' = rules
        BY <1>1, <2>2
      <3> HIDE DEF rules
      <3>1. /\ engine' \in Seq(Given)
            /\ \A x : x \in Rules!ToSet(engine') <=>
                     x \in Rules!ToSet(engine) /\ x.id # change.rule.id
        BY <3>3, <3>4
      <3>2. QED
        BY <1>1, <1>3, <2>2, <3>1
    <2>3. QED
      BY <2>1, <2>2
  <1>5. /\ table' \in SUBSET Given /\ IsFiniteSet(table') /\ Distinct(table')
        /\ told' \in SUBSET Given
    BY <1>1, <1>2 DEF RulesInv, RulesTyped, RulesListed
  <1>6. RulesTyped'
    <2>1. /\ ruleFile' \in (SUBSET Given) \cup {NoRule} /\ astray' \in BOOLEAN
          /\ ruleKills' \in 0..MaxRuleKill /\ saveFaults' \in 0..MaxSaveFault
      BY <1>1 DEF RulesInv, RulesTyped
    <2>2. QED
      BY <1>1, <1>4, <1>5, <2>1 DEF RulesTyped
  <1>7. RulesListed'
    BY <1>1, <1>4, <1>5 DEF RulesListed, Adding, Removing
  <1>8. RulesFiled'
    <2>1. Rules!InFile' = Rules!InFile /\ ~Written'
      BY <1>1 DEF Rules!InFile, Written
    <2>2. CASE change.saved = "done"
      BY <1>1, <1>2, <2>1, <2>2 DEF RulesInv, RulesFiled, Written
    <2>3. CASE change.saved # "done"
      BY <1>1, <2>1, <2>3 DEF RulesInv, RulesFiled, Written
    <2>4. QED
      BY <2>2, <2>3
  <1>9. QED
    BY <1>6, <1>7, <1>8 DEF RulesInv

LEMMA FinishRemoveKeeps ==
  ASSUME RulesInv, Rules!FinishRemove
  PROVE  RulesInv'
  <1>1. /\ change # NoRule /\ change.kind = "remove" /\ change.saved # "no"
        /\ change' = NoRule
        /\ IF change.saved = "done"
           THEN engine' = Rules!Without(engine, change.rule) /\ table' = Rules!Candidate
                /\ UNCHANGED told
           ELSE told' = told \cup {change.rule} /\ UNCHANGED <<engine, table>>
        /\ UNCHANGED <<ruleFile, astray, saveFaults, ruleKills>>
    BY DEF Rules!FinishRemove
  <1>2. /\ change.rule \in Given /\ Rules!Candidate = table \ {change.rule}
        /\ Rules!Candidate \in SUBSET Given /\ IsFiniteSet(Rules!Candidate)
        /\ Distinct(Rules!Candidate)
    BY <1>1, CandidateIs
  <1>3. /\ engine \in Seq(Given) /\ Rules!ToSet(engine) = table
        /\ change.rule \in table /\ change.rule \notin told /\ Distinct(table)
    BY <1>1 DEF RulesInv, RulesTyped, RulesListed, Adding, Removing
  <1>4. engine' \in Seq(Given) /\ Rules!ToSet(engine') = table'
    <2>1. CASE change.saved = "done"
      <3> DEFINE rules == Rules!Without(engine, change.rule)
      <3>3. /\ rules \in Seq(Given)
            /\ \A x : x \in Rules!ToSet(rules) <=>
                     x \in Rules!ToSet(engine) /\ x.id # change.rule.id
        BY <1>3, WithoutIs
      <3>4. engine' = rules
        BY <1>1, <2>1
      <3> HIDE DEF rules
      <3>1. /\ engine' \in Seq(Given)
            /\ \A x : x \in Rules!ToSet(engine') <=>
                     x \in Rules!ToSet(engine) /\ x.id # change.rule.id
        BY <3>3, <3>4
      <3>2. QED
        BY <1>1, <1>2, <1>3, <2>1, <3>1 DEF Distinct
    <2>2. CASE change.saved # "done"
      BY <1>1, <1>3, <2>2
    <2>3. QED
      BY <2>1, <2>2
  <1>5. /\ table' \in SUBSET Given /\ IsFiniteSet(table') /\ Distinct(table')
        /\ told' \in SUBSET Given
    BY <1>1, <1>2 DEF RulesInv, RulesTyped, RulesListed
  <1>6. RulesTyped'
    <2>1. /\ ruleFile' \in (SUBSET Given) \cup {NoRule} /\ astray' \in BOOLEAN
          /\ ruleKills' \in 0..MaxRuleKill /\ saveFaults' \in 0..MaxSaveFault
      BY <1>1 DEF RulesInv, RulesTyped
    <2>2. QED
      BY <1>1, <1>4, <1>5, <2>1 DEF RulesTyped
  <1>7. RulesListed'
    BY <1>1, <1>4, <1>5 DEF RulesListed, Adding, Removing
  <1>8. RulesFiled'
    <2>1. Rules!InFile' = Rules!InFile /\ ~Written'
      BY <1>1 DEF Rules!InFile, Written
    <2>2. CASE change.saved = "done"
      <3>1. Rules!InFile = Rules!Candidate
        BY <1>1, <2>2 DEF RulesInv, RulesFiled, Written
      <3>2. table' = Rules!Candidate /\ told' = told
        BY <1>1, <2>2
      <3>3. ~astray /\ saveFaults < 2 => told \subseteq table
        BY DEF RulesInv, RulesFiled
      <3>4. Rules!InFile' = table' /\ (~astray' /\ saveFaults' < 2 => told' \subseteq table')
        BY <1>1, <1>2, <1>3, <2>1, <3>1, <3>2, <3>3
      <3>5. QED
        BY <2>1, <3>4 DEF RulesFiled
    <2>3. CASE change.saved # "done"
      BY <1>1, <1>3, <2>1, <2>3 DEF RulesInv, RulesFiled, Written
    <2>4. QED
      BY <2>2, <2>3
  <1>9. QED
    BY <1>6, <1>7, <1>8 DEF RulesInv

(* The program reads its rules from whatever the file has become.            *)
LEMMA RulesRestart ==
  ASSUME RulesInv, Rules!Restart
  PROVE  RulesInv'
  <1>1. /\ ruleKills < MaxRuleKill /\ ruleKills' = ruleKills + 1
        /\ \/ UNCHANGED <<ruleFile, astray>>
           \/ /\ change # NoRule /\ change.saved = "no"
              /\ ruleFile' = Rules!Candidate /\ UNCHANGED astray
           \/ ruleFile' = NoRule /\ astray' = TRUE
        /\ table' = Rules!InFile'
        /\ engine' = Rules!ById(table')
        /\ change' = NoRule /\ UNCHANGED <<told, saveFaults>>
    BY DEF Rules!Restart, Rules!InFile
  <1>2. change # NoRule => /\ Rules!Candidate \in SUBSET Given
                           /\ IsFiniteSet(Rules!Candidate)
                           /\ Distinct(Rules!Candidate)
                           /\ Rules!Candidate # NoRule
    BY CandidateIs
  <1>3. Rules!InFile \in SUBSET Given /\ IsFiniteSet(Rules!InFile) /\ Distinct(Rules!InFile)
    <2>1. Written => change # NoRule
      BY DEF Written
    <2>2. \/ Rules!InFile = Rules!Candidate /\ Written
          \/ Rules!InFile = table \/ Rules!InFile = {}
      BY DEF RulesInv, RulesFiled
    <2>3. table \in SUBSET Given /\ IsFiniteSet(table) /\ Distinct(table)
      BY DEF RulesInv, RulesTyped, RulesListed
    <2>4. IsFiniteSet({}) /\ Distinct({})
      BY FS_EmptySet DEF Distinct
    <2>5. QED
      BY <1>2, <2>1, <2>2, <2>3, <2>4
  <1>4. /\ ruleFile' \in (SUBSET Given) \cup {NoRule}
        /\ \/ Rules!InFile' = Rules!InFile /\ UNCHANGED astray
           \/ /\ change # NoRule /\ change.saved = "no" /\ UNCHANGED astray
              /\ Rules!InFile' = Rules!Candidate
           \/ Rules!InFile' = {} /\ astray' = TRUE
    <2>1. CASE UNCHANGED <<ruleFile, astray>>
      BY <2>1 DEF RulesInv, RulesTyped, Rules!InFile
    <2>2. CASE /\ change # NoRule /\ change.saved = "no"
               /\ ruleFile' = Rules!Candidate /\ UNCHANGED astray
      BY <1>2, <2>2 DEF Rules!InFile
    <2>3. CASE ruleFile' = NoRule /\ astray' = TRUE
      <3>1. Rules!InFile' = {} /\ ruleFile' \in (SUBSET Given) \cup {NoRule}
        BY <2>3 DEF Rules!InFile
      <3>2. QED
        BY <2>3, <3>1
    <2>4. QED
      BY <1>1, <2>1, <2>2, <2>3
  <1>5. table' \in SUBSET Given /\ IsFiniteSet(table') /\ Distinct(table')
    <2>1. IsFiniteSet({}) /\ Distinct({})
      BY FS_EmptySet DEF Distinct
    <2>2. QED
      BY <1>1, <1>2, <1>3, <1>4, <2>1
  <1>6. engine' \in Seq(Given) /\ Rules!ToSet(engine') = table'
    <2>1. engine' \in Seq(table') /\ Rules!ToSet(engine') = table'
      BY <1>1, <1>5, ByIdIs
    <2>2. QED
      BY <1>5, <2>1, SeqMonotonic
  <1>7. RulesTyped'
    <2>1. told' \in SUBSET Given /\ saveFaults' \in 0..MaxSaveFault
      BY <1>1 DEF RulesInv, RulesTyped
    <2>2. astray' \in BOOLEAN
      BY <1>4 DEF RulesInv, RulesTyped
    <2>3. ruleKills' \in 0..MaxRuleKill
      <3>1. ruleKills \in 0..MaxRuleKill
        BY DEF RulesInv, RulesTyped
      <3>2. ruleKills < MaxRuleKill /\ ruleKills' = ruleKills + 1
        BY <1>1
      <3>3. QED
        BY <3>1, <3>2, RulesGiven
    <2>4. QED
      BY <1>1, <1>4, <1>5, <1>6, <2>1, <2>2, <2>3 DEF RulesTyped
  <1>8. RulesListed'
    BY <1>1, <1>5, <1>6 DEF RulesListed, Adding, Removing
  <1>9. RulesFiled'
    <2>1. ~Written'
      BY <1>1 DEF Written
    <2>2. ASSUME ~astray', saveFaults' < 2
          PROVE  told' \subseteq table'
      <3>1. told \subseteq table /\ ~astray /\ saveFaults < 2
        <4>1. ~astray
          BY <1>4, <2>2
        <4>2. QED
          BY <1>1, <2>2, <4>1 DEF RulesInv, RulesFiled
      <3>2. change # NoRule =>
              told \subseteq Rules!Candidate
        <4>1. ASSUME change # NoRule
              PROVE  told \subseteq Rules!Candidate
          <5>1. Rules!Candidate = IF change.kind = "add" THEN table \cup {change.rule}
                                  ELSE table \ {change.rule}
            BY <4>1, CandidateIs
          <5>2. change.kind \in {"add", "remove"}
            BY <4>1, CandidateIs
          <5>3. change.kind = "remove" => change.rule \notin told
            BY <4>1 DEF RulesInv, RulesListed, Removing
          <5>4. QED
            BY <3>1, <5>1, <5>2, <5>3
        <4>2. QED
          BY <4>1
      <3>3. told \subseteq Rules!InFile
        <4>1. Written => change # NoRule
          BY DEF Written
        <4>2. QED
          BY <3>1, <3>2, <4>1 DEF RulesInv, RulesFiled
      <3>4. QED
        BY <1>1, <1>4, <2>2, <3>2, <3>3
    <2>3. QED
      BY <1>1, <2>1, <2>2 DEF RulesFiled
  <1>10. QED
    BY <1>7, <1>8, <1>9 DEF RulesInv

LEMMA RulesStep ==
  ASSUME RulesInv, Rules!Next
  PROVE  RulesInv'
  BY AddRuleKeeps, RemoveRuleKeeps, SaveKeeps, FinishAddKeeps, FinishRemoveKeeps,
     RulesRestart DEF Rules!Next

(* The verdict.                                                              *)
Beats(r, s) ==
  \/ Rules!Weight(r) > Rules!Weight(s)
  \/ Rules!Weight(r) = Rules!Weight(s) /\ r.length > s.length
  \/ Rules!Weight(r) = Rules!Weight(s) /\ r.length = s.length /\ r.id <= s.id

(* Of those that cover the paths, the one that beats all.                    *)
BestRule(T, paths, r) ==
  /\ r \in T /\ Rules!Covers(r, paths)
  /\ \A s \in T : Rules!Covers(s, paths) => Beats(r, s)

LEMMA WeightIs ==
  \A r \in Given :
    /\ Rules!Weight(r) \in 1..3
    /\ Rules!Weight(r) = 1 <=> r.effect = "allow"
    /\ Rules!Weight(r) = 3 <=> r.effect = "deny"
    /\ r.length \in 1..2 /\ r.id \in Nat
  <1> SUFFICES ASSUME NEW r \in Given
               PROVE  /\ Rules!Weight(r) \in 1..3
                      /\ Rules!Weight(r) = 1 <=> r.effect = "allow"
                      /\ Rules!Weight(r) = 3 <=> r.effect = "deny"
                      /\ r.length \in 1..2 /\ r.id \in Nat
    OBVIOUS
  <1>1. r.effect \in {"allow", "ask", "deny"} /\ r.length \in 1..2 /\ r.id \in Nat
    BY RulesGiven
  <1>2. CASE r.effect = "allow"
    BY <1>1, <1>2 DEF Rules!Weight
  <1>3. CASE r.effect = "ask"
    BY <1>1, <1>3 DEF Rules!Weight
  <1>4. CASE r.effect = "deny"
    BY <1>1, <1>4 DEF Rules!Weight
  <1>5. QED
    BY <1>1, <1>2, <1>3, <1>4

(* One of some has the least measure.                                        *)
LEMMA LeastMeasured ==
  ASSUME NEW T, T # {}, NEW m \in [T -> Nat]
  PROVE  \E r \in T : \A s \in T : m[r] <= m[s]
  <1> DEFINE M == {m[r] : r \in T}
  <1>1. M \subseteq Nat /\ M # {}
    OBVIOUS
  <1> HIDE DEF M
  <1>2. PICK x \in M : \A y \in M : x <= y
    BY <1>1, LeastOfAll
  <1>3. QED
    BY <1>2 DEF M

(* Of some rules one beats all: the strictest, the longest of them, of these *)
(* the first.                                                                *)
LEMMA OneBeatsAll ==
  ASSUME NEW T \in SUBSET Given, T # {}
  PROVE  \E r \in T : \A s \in T : Beats(r, s)
  <1>1. \A r \in T : Rules!Weight(r) \in 1..3 /\ r.length \in 1..2 /\ r.id \in Nat
    BY WeightIs
  <1> DEFINE lax == [r \in T |-> 3 - Rules!Weight(r)]
  <1>2. lax \in [T -> Nat]
    BY <1>1
  <1>3. PICK a \in T : \A s \in T : lax[a] <= lax[s]
    <2> HIDE DEF lax
    <2>1. QED
      BY <1>2, LeastMeasured
  <1> DEFINE U == {r \in T : Rules!Weight(r) = Rules!Weight(a)}
             short == [r \in U |-> 2 - r.length]
  <1>4. U # {} /\ short \in [U -> Nat]
    BY <1>1
  <1>5. PICK b \in U : \A s \in U : short[b] <= short[s]
    <2> HIDE DEF U, short
    <2>1. QED
      BY <1>4, LeastMeasured
  <1> DEFINE V == {r \in U : r.length = b.length}
             number == [r \in V |-> r.id]
  <1>6. V # {} /\ number \in [V -> Nat]
    BY <1>1
  <1>7. PICK c \in V : \A s \in V : number[c] <= number[s]
    <2> HIDE DEF V, number
    <2>1. QED
      BY <1>6, LeastMeasured
  <1>8. ASSUME NEW s \in T
        PROVE  Beats(c, s)
    <2>1. /\ c \in T /\ Rules!Weight(c) = Rules!Weight(a) /\ c.length = b.length
          /\ Rules!Weight(a) \in 1..3 /\ Rules!Weight(s) \in 1..3
          /\ b \in U /\ b.length \in 1..2 /\ s.length \in 1..2
      BY <1>1
    <2>2. Rules!Weight(s) <= Rules!Weight(a)
      <3>1. lax[a] <= lax[s]
        BY <1>3
      <3>2. QED
        BY <2>1, <3>1
    <2>3. CASE Rules!Weight(s) < Rules!Weight(a)
      BY <2>1, <2>3 DEF Beats
    <2>4. CASE Rules!Weight(s) = Rules!Weight(a) /\ s.length # b.length
      <3>1. short[b] <= short[s]
        BY <1>5, <2>4
      <3>2. s.length < b.length
        BY <2>1, <2>4, <3>1
      <3>3. QED
        BY <2>1, <2>4, <3>2 DEF Beats
    <2>5. CASE Rules!Weight(s) = Rules!Weight(a) /\ s.length = b.length
      <3>1. number[c] <= number[s]
        BY <1>7, <2>5
      <3>2. c.id <= s.id
        BY <2>5, <3>1
      <3>3. QED
        BY <2>1, <2>5, <3>2 DEF Beats
    <2>6. QED
      BY <2>1, <2>2, <2>3, <2>4, <2>5
  <1>9. QED
    BY <1>8

(* The verdict is that of the best rule, wherever it is in the list.         *)
LEMMA DecisiveIs ==
  ASSUME NEW list \in Seq(Given), NEW paths
  PROVE  /\ (\E s \in Rules!ToSet(list) : Rules!Covers(s, paths)) =>
              BestRule(Rules!ToSet(list), paths, Rules!Decisive(list, paths))
         /\ ~ (\E s \in Rules!ToSet(list) : Rules!Covers(s, paths)) =>
              Rules!Decisive(list, paths) = NoRule
  <1> DEFINE T == Rules!ToSet(list)
             hits == {i \in DOMAIN list : Rules!Covers(list[i], paths)}
             Right(i) == \A j \in hits : Beats(list[i], list[j])
  <1>1. /\ \A x : x \in T <=> \E i \in 1..Len(list) : list[i] = x
        /\ T \subseteq Given /\ DOMAIN list = 1..Len(list)
    BY ListIs, LenProperties
  <1>2. Rules!Decisive(list, paths) =
          IF hits = {} THEN NoRule ELSE list[CHOOSE i \in hits : Right(i)]
    BY DEF Rules!Decisive, Rules!BestMatch, Beats
  <1>3. hits # {} <=> \E s \in T : Rules!Covers(s, paths)
    BY <1>1
  <1>4. ASSUME hits # {}
        PROVE  \E i \in hits : Right(i)
    <2> DEFINE U == {s \in T : Rules!Covers(s, paths)}
    <2>1. U \in SUBSET Given /\ U # {}
      BY <1>1, <1>3, <1>4
    <2>2. PICK r \in U : \A s \in U : Beats(r, s)
      <3> HIDE DEF U
      <3>1. QED
        BY <2>1, OneBeatsAll
    <2>3. PICK i \in hits : list[i] = r
      BY <1>1, <2>2
    <2>4. \A j \in hits : list[j] \in U
      BY <1>1
    <2>5. QED
      BY <2>2, <2>3, <2>4
  <1>5. ASSUME hits # {}
        PROVE  BestRule(T, paths, Rules!Decisive(list, paths))
    <2> DEFINE i == CHOOSE i \in hits : Right(i)
    <2>1. i \in hits /\ Right(i)
      <3> HIDE DEF hits, Right
      <3>1. QED
        BY <1>4, <1>5
    <2>2. Rules!Decisive(list, paths) = list[i]
      BY <1>2, <1>5
    <2> HIDE DEF i
    <2>3. list[i] \in T /\ Rules!Covers(list[i], paths)
      BY <1>1, <2>1
    <2>4. ASSUME NEW s \in T, Rules!Covers(s, paths)
          PROVE  Beats(list[i], s)
      <3>1. PICK j \in hits : list[j] = s
        BY <1>1, <2>4
      <3>2. QED
        BY <2>1, <3>1
    <2>5. QED
      BY <2>2, <2>3, <2>4 DEF BestRule
  <1>6. QED
    BY <1>2, <1>3, <1>5

LEMMA BestIsOne ==
  ASSUME NEW T \in SUBSET Given, Distinct(T), NEW paths, NEW r, NEW s,
         BestRule(T, paths, r), BestRule(T, paths, s)
  PROVE  r = s
  <1>1. r \in T /\ s \in T /\ Beats(r, s) /\ Beats(s, r)
    BY DEF BestRule
  <1>2. \A x \in T : Rules!Weight(x) \in 1..3 /\ x.length \in 1..2 /\ x.id \in Nat
    BY WeightIs
  <1>3. r.id = s.id
    BY <1>1, <1>2 DEF Beats
  <1>4. QED
    BY <1>1, <1>3 DEF Distinct

(* A rule for some paths against the rules for one of them.                  *)
LEMMA CoversIs ==
  ASSUME NEW paths \in (SUBSET Path) \ {{}}, NEW x \in paths, NEW r \in Given
  PROVE  /\ r.effect = "allow" /\ Rules!Covers(r, paths) => Rules!Covers(r, {x})
         /\ r.effect # "allow" /\ Rules!Covers(r, {x}) => Rules!Covers(r, paths)
  BY DEF Rules!Covers

LEMMA VerdictIs ==
  ASSUME NEW list \in Seq(Given), NEW paths
  PROVE  \/ /\ BestRule(Rules!ToSet(list), paths, Rules!Decisive(list, paths))
            /\ Rules!Verdict(list, paths) = Rules!Decisive(list, paths).effect
         \/ /\ ~ \E s \in Rules!ToSet(list) : Rules!Covers(s, paths)
            /\ Rules!Verdict(list, paths) = "none"
  <1>1. CASE \E s \in Rules!ToSet(list) : Rules!Covers(s, paths)
    <2>1. BestRule(Rules!ToSet(list), paths, Rules!Decisive(list, paths))
      BY <1>1, DecisiveIs
    <2>2. Rules!Decisive(list, paths) \in Given
      BY <2>1, ListIs DEF BestRule
    <2>3. Rules!Decisive(list, paths) # NoRule
      BY <2>2, RulesGiven
    <2>4. QED
      BY <2>1, <2>3 DEF Rules!Verdict
  <1>2. CASE ~ \E s \in Rules!ToSet(list) : Rules!Covers(s, paths)
    <2>1. Rules!Decisive(list, paths) = NoRule
      BY <1>2, DecisiveIs
    <2>2. QED
      BY <1>2, <2>1 DEF Rules!Verdict
  <1>3. QED
    BY <1>1, <1>2

LEMMA RulesShow ==
  ASSUME RulesInv
  PROVE  Rules!RulesAreOne /\ Rules!VerdictHolds
  <1>1. /\ engine \in Seq(Given) /\ table \in SUBSET Given /\ IsFiniteSet(table)
        /\ Distinct(table)
        /\ change = NoRule => Rules!ToSet(engine) = table
    BY DEF RulesInv, RulesTyped, RulesListed, Adding
  <1>2. Rules!RulesAreOne
    BY <1>1 DEF RulesInv, RulesFiled, Written, Rules!RulesAreOne
  <1> DEFINE T == Rules!ToSet(engine)
  <1>3. T \subseteq Given
    BY <1>1, ListIs
  <1> HIDE DEF T
  <1>4. ASSUME NEW paths \in (SUBSET Path) \ {{}}, NEW x \in paths
        PROVE  /\ Rules!Verdict(engine, paths) = "allow" =>
                    Rules!Verdict(engine, {x}) = "allow"
               /\ Rules!Verdict(engine, {x}) = "deny" =>
                    Rules!Verdict(engine, paths) = "deny"
    <2> DEFINE r == Rules!Decisive(engine, paths)
               s == Rules!Decisive(engine, {x})
    <2>1. \/ BestRule(T, paths, r) /\ Rules!Verdict(engine, paths) = r.effect
          \/ /\ ~ \E t \in T : Rules!Covers(t, paths)
             /\ Rules!Verdict(engine, paths) = "none"
      BY <1>1, VerdictIs DEF T
    <2>2. \/ BestRule(T, {x}, s) /\ Rules!Verdict(engine, {x}) = s.effect
          \/ /\ ~ \E t \in T : Rules!Covers(t, {x})
             /\ Rules!Verdict(engine, {x}) = "none"
      BY <1>1, VerdictIs DEF T
    <2> HIDE DEF r, s
    <2>3. ASSUME Rules!Verdict(engine, paths) = "allow"
          PROVE  Rules!Verdict(engine, {x}) = "allow"
      <3>1. BestRule(T, paths, r) /\ r.effect = "allow" /\ r \in Given
        BY <1>3, <2>1, <2>3 DEF BestRule
      <3>2. Rules!Covers(r, {x})
        BY <3>1, CoversIs DEF BestRule
      <3>3. BestRule(T, {x}, s) /\ Rules!Verdict(engine, {x}) = s.effect /\ s \in Given
        BY <1>3, <2>2, <3>1, <3>2 DEF BestRule
      <3>4. ASSUME s.effect # "allow"
            PROVE  FALSE
        <4>1. Rules!Covers(s, paths)
          BY <3>3, <3>4, CoversIs DEF BestRule
        <4>2. Beats(r, s)
          BY <3>1, <3>3, <4>1 DEF BestRule
        <4>3. /\ Rules!Weight(r) = 1 /\ Rules!Weight(s) # 1
              /\ Rules!Weight(r) \in 1..3 /\ Rules!Weight(s) \in 1..3
          BY <3>1, <3>3, <3>4, WeightIs
        <4>4. QED
          BY <4>2, <4>3 DEF Beats
      <3>5. QED
        BY <3>3, <3>4
    <2>4. ASSUME Rules!Verdict(engine, {x}) = "deny"
          PROVE  Rules!Verdict(engine, paths) = "deny"
      <3>1. BestRule(T, {x}, s) /\ s.effect = "deny" /\ s \in Given
        BY <1>3, <2>2, <2>4 DEF BestRule
      <3>2. Rules!Covers(s, paths)
        BY <3>1, CoversIs DEF BestRule
      <3>3. BestRule(T, paths, r) /\ Rules!Verdict(engine, paths) = r.effect /\ r \in Given
        BY <1>3, <2>1, <3>1, <3>2 DEF BestRule
      <3>4. Beats(r, s)
        BY <3>1, <3>2, <3>3 DEF BestRule
      <3>5. Rules!Weight(s) = 3 /\ Rules!Weight(r) \in 1..3
        BY <3>1, <3>3, WeightIs
      <3>6. Rules!Weight(r) = 3
        BY <3>4, <3>5 DEF Beats
      <3>7. QED
        BY <3>3, <3>6, WeightIs
    <2>5. QED
      BY <2>3, <2>4
  <1>5. ASSUME change = NoRule, NEW paths
        PROVE  Rules!Decisive(engine, paths) = Rules!Decisive(Rules!ById(table), paths)
    <2> DEFINE list == Rules!ById(table)
    <2>1. list \in Seq(table) /\ Rules!ToSet(list) = table
      BY <1>1, ByIdIs
    <2>2. list \in Seq(Given) /\ T = table
      BY <1>1, <1>5, <2>1, SeqMonotonic DEF T
    <2> HIDE DEF list
    <2>3. CASE \E s \in table : Rules!Covers(s, paths)
      <3>1. /\ BestRule(table, paths, Rules!Decisive(engine, paths))
            /\ BestRule(table, paths, Rules!Decisive(list, paths))
        BY <1>1, <2>1, <2>2, <2>3, DecisiveIs DEF T
      <3>2. QED
        BY <1>1, <3>1, BestIsOne DEF list
    <2>4. CASE ~ \E s \in table : Rules!Covers(s, paths)
      <3>1. Rules!Decisive(engine, paths) = NoRule /\ Rules!Decisive(list, paths) = NoRule
        BY <1>1, <2>1, <2>2, <2>4, DecisiveIs DEF T
      <3>2. QED
        BY <3>1 DEF list
    <2>5. QED
      BY <2>3, <2>4
  <1>6. Rules!VerdictHolds
    BY <1>4, <1>5 DEF Rules!VerdictHolds
  <1>7. QED
    BY <1>2, <1>6

-----------------------------------------------------------------------------
(* The matching loops.                                                       *)

(* What a star may stand for without minding the slash.                      *)
Free(i) ==
  \/ of = "wildcard"
  \/ \E j \in {i - 1, i + 1} \cap (1..Len(pattern)) : pattern[j] = "*"

(* The i-th character of the pattern stands for the value from a to b.       *)
Stands(i, a, b) ==
  /\ a <= b
  /\ pattern[i] = "*" => Free(i) \/ \A j \in (a + 1)..b : value[j] # Matching!Slash
  /\ pattern[i] # "*" => /\ b = a + 1
                         /\ IF pattern[i] = "?" THEN value[b] # Matching!Slash
                            ELSE value[b] = pattern[i]

(* The characters of the pattern from m to n stand for the value from a to b.*)
Segment(m, n, a, b) ==
  \E cut \in [m..n -> 0..Len(value)] :
    /\ cut[m] = a /\ cut[n] = b
    /\ \A i \in (m + 1)..n : Stands(i, cut[i - 1], cut[i])

MatchTyped ==
  /\ of \in {"wildcard", "rule"} /\ loop \in {"match", "trail", "ended"}
  /\ pattern \in Seq(Letter \cup {"*", "?"}) /\ value \in Seq(Letter)
  /\ of = "wildcard" => \A i \in 1..Len(pattern) : pattern[i] # "?"
  /\ of = "rule" => loop # "trail"
  /\ vi \in 0..Len(value) /\ pi \in 0..Len(pattern)
  /\ verdict \in BOOLEAN

(* Row pi of the table is what the first pi characters may stand for, and    *)
(* goes on to the end where a second star follows the first.                 *)
RowIs ==
  of = "rule" /\ loop = "match" =>
    /\ \A x \in matches : x[1] \in 0..pi
    /\ \A v \in 0..Len(value) : <<pi, v>> \in matches <=> Segment(0, pi, 0, v)
    /\ pi \in 1..(Len(pattern) - 1) /\ pattern[pi] = "*" /\ pattern[pi + 1] = "*" =>
         \A u, v \in 0..Len(value) :
           u <= v /\ <<pi, u>> \in matches => <<pi, v>> \in matches

(* The pattern from p on fits the value from a on.                           *)
Rest(p, a) == Segment(p, Len(pattern), a, Len(value))

(* No star was met: the pattern fits if its rest fits the rest of the value. *)
(* Otherwise it fits if the rest from the last star on fits the value from   *)
(* the checkpoint on, and what follows the star can begin at a character     *)
(* only if the rest fits as far behind it as the loop has come since.        *)
BackIs ==
  of = "wildcard" /\ loop = "match" =>
    \/ star = -1 /\ (Rest(0, 0) <=> Rest(pi, vi))
    \/ /\ star \in 0..(Len(pattern) - 1) /\ pattern[star + 1] = "*" /\ star + 1 <= pi
       /\ checkpoint \in 0..vi
       /\ Rest(0, 0) <=> Rest(star, checkpoint)
       /\ Rest(pi, vi) => Rest(star + 1, checkpoint)
       /\ \A a \in checkpoint..Len(value) :
            Rest(star + 1, a) => Rest(pi, a + (vi - checkpoint))

TrailIs == loop = "trail" => vi = Len(value) /\ (Rest(0, 0) <=> Rest(pi, Len(value)))

EndIs == loop = "ended" => (verdict <=> Rest(0, 0))

MatchInv == MatchTyped /\ RowIs /\ BackIs /\ TrailIs /\ EndIs

(* The segments of the pattern: none stands for nothing; a longer one is a   *)
(* first or a last character and the rest.                                   *)
LEMMA SegmentWithin ==
  ASSUME NEW m \in Nat, NEW n \in Nat, m <= n, NEW a, NEW b, Segment(m, n, a, b)
  PROVE  a \in 0..Len(value) /\ b \in 0..Len(value)
  BY DEF Segment

LEMMA SegmentEmpty ==
  ASSUME NEW m \in Nat, NEW a, NEW b
  PROVE  Segment(m, m, a, b) <=> a = b /\ a \in 0..Len(value)
  <1>1. ASSUME a = b, a \in 0..Len(value)
        PROVE  Segment(m, m, a, b)
    <2> DEFINE cut == [i \in m..m |-> a]
    <2>1. /\ cut \in [m..m -> 0..Len(value)] /\ cut[m] = a /\ cut[m] = b
          /\ \A i \in (m + 1)..m : Stands(i, cut[i - 1], cut[i])
      BY <1>1
    <2> HIDE DEF cut
    <2>2. QED
      BY <2>1 DEF Segment
  <1>2. ASSUME Segment(m, m, a, b)
        PROVE  a = b /\ a \in 0..Len(value)
    <2>1. PICK cut \in [m..m -> 0..Len(value)] : cut[m] = a /\ cut[m] = b
      BY <1>2 DEF Segment
    <2>2. QED
      BY <2>1
  <1>3. QED
    BY <1>1, <1>2

LEMMA SegmentFront ==
  ASSUME NEW m \in Nat, NEW n \in Nat, m < n, NEW a, NEW b
  PROVE  Segment(m, n, a, b) <=>
           /\ a \in 0..Len(value)
           /\ \E c \in 0..Len(value) : Stands(m + 1, a, c) /\ Segment(m + 1, n, c, b)
  <1>1. ASSUME Segment(m, n, a, b)
        PROVE  /\ a \in 0..Len(value)
               /\ \E c \in 0..Len(value) : Stands(m + 1, a, c) /\ Segment(m + 1, n, c, b)
    <2>1. PICK cut \in [m..n -> 0..Len(value)] :
            /\ cut[m] = a /\ cut[n] = b
            /\ \A i \in (m + 1)..n : Stands(i, cut[i - 1], cut[i])
      BY <1>1 DEF Segment
    <2> DEFINE rest == [i \in (m + 1)..n |-> cut[i]]
    <2>2. m + 1 \in m..n /\ (m + 1) - 1 = m /\ m + 1 \in (m + 1)..n
      OBVIOUS
    <2>3. cut[m + 1] \in 0..Len(value) /\ a \in 0..Len(value)
      BY <2>1, <2>2
    <2>4. Stands(m + 1, a, cut[m + 1])
      <3>1. Stands(m + 1, cut[(m + 1) - 1], cut[m + 1])
        BY <2>1, <2>2
      <3>2. QED
        BY <2>1, <2>2, <3>1
    <2>5. rest \in [(m + 1)..n -> 0..Len(value)] /\ rest[m + 1] = cut[m + 1] /\ rest[n] = b
      BY <2>1
    <2>6. ASSUME NEW i \in ((m + 1) + 1)..n
          PROVE  Stands(i, rest[i - 1], rest[i])
      <3>1. i \in (m + 1)..n /\ i - 1 \in (m + 1)..n
        OBVIOUS
      <3>2. rest[i] = cut[i] /\ rest[i - 1] = cut[i - 1]
        BY <3>1
      <3>3. Stands(i, cut[i - 1], cut[i])
        BY <2>1, <3>1
      <3>4. QED
        BY <3>2, <3>3
    <2> HIDE DEF rest
    <2>7. Segment(m + 1, n, cut[m + 1], b)
      BY <2>5, <2>6 DEF Segment
    <2>8. QED
      BY <2>3, <2>4, <2>7
  <1>2. ASSUME a \in 0..Len(value), NEW c \in 0..Len(value), Stands(m + 1, a, c),
               Segment(m + 1, n, c, b)
        PROVE  Segment(m, n, a, b)
    <2>1. PICK cut \in [(m + 1)..n -> 0..Len(value)] :
            /\ cut[m + 1] = c /\ cut[n] = b
            /\ \A i \in ((m + 1) + 1)..n : Stands(i, cut[i - 1], cut[i])
      BY <1>2 DEF Segment
    <2> DEFINE more == [i \in m..n |-> IF i = m THEN a ELSE cut[i]]
    <2>2. /\ more \in [m..n -> 0..Len(value)] /\ more[m] = a /\ more[n] = b
          /\ more[m + 1] = c
      <3>1. \A i \in m..n : i # m => i \in (m + 1)..n
        OBVIOUS
      <3>2. m \in m..n /\ n \in m..n /\ m + 1 \in m..n /\ n # m /\ m + 1 # m
        OBVIOUS
      <3>3. QED
        BY <1>2, <2>1, <3>1, <3>2
    <2>3. ASSUME NEW i \in (m + 1)..n
          PROVE  Stands(i, more[i - 1], more[i])
      <3>1. CASE i = m + 1
        <4>1. i - 1 = m
          BY <3>1
        <4>2. more[i - 1] = a /\ more[i] = c
          BY <2>2, <3>1, <4>1
        <4>3. QED
          BY <1>2, <3>1, <4>2
      <3>2. CASE i # m + 1
        <4>1. i \in ((m + 1) + 1)..n /\ i \in m..n /\ i - 1 \in m..n /\ i # m /\ i - 1 # m
          BY <3>2
        <4>2. more[i] = cut[i] /\ more[i - 1] = cut[i - 1]
          BY <4>1
        <4>3. Stands(i, cut[i - 1], cut[i])
          BY <2>1, <4>1
        <4>4. QED
          BY <4>2, <4>3
      <3>3. QED
        BY <3>1, <3>2
    <2> HIDE DEF more
    <2>4. QED
      BY <2>2, <2>3 DEF Segment
  <1>3. QED
    BY <1>1, <1>2

LEMMA SegmentBack ==
  ASSUME NEW m \in Nat, NEW n \in Nat, m <= n, NEW a, NEW b
  PROVE  Segment(m, n + 1, a, b) <=>
           /\ b \in 0..Len(value)
           /\ \E c \in 0..Len(value) : Segment(m, n, a, c) /\ Stands(n + 1, c, b)
  <1>1. ASSUME Segment(m, n + 1, a, b)
        PROVE  /\ b \in 0..Len(value)
               /\ \E c \in 0..Len(value) : Segment(m, n, a, c) /\ Stands(n + 1, c, b)
    <2>1. PICK cut \in [m..(n + 1) -> 0..Len(value)] :
            /\ cut[m] = a /\ cut[n + 1] = b
            /\ \A i \in (m + 1)..(n + 1) : Stands(i, cut[i - 1], cut[i])
      BY <1>1 DEF Segment
    <2> DEFINE rest == [i \in m..n |-> cut[i]]
    <2>2. n \in m..(n + 1) /\ (n + 1) - 1 = n /\ n + 1 \in (m + 1)..(n + 1)
          /\ n + 1 \in m..(n + 1)
      OBVIOUS
    <2>3. cut[n] \in 0..Len(value) /\ b \in 0..Len(value)
      BY <2>1, <2>2
    <2>4. Stands(n + 1, cut[n], b)
      <3>1. Stands(n + 1, cut[(n + 1) - 1], cut[n + 1])
        BY <2>1, <2>2
      <3>2. QED
        BY <2>1, <2>2, <3>1
    <2>5. rest \in [m..n -> 0..Len(value)] /\ rest[m] = a /\ rest[n] = cut[n]
      BY <2>1
    <2>6. ASSUME NEW i \in (m + 1)..n
          PROVE  Stands(i, rest[i - 1], rest[i])
      <3>1. i \in (m + 1)..(n + 1) /\ i - 1 \in m..n /\ i \in m..n
        OBVIOUS
      <3>2. rest[i] = cut[i] /\ rest[i - 1] = cut[i - 1]
        BY <3>1
      <3>3. Stands(i, cut[i - 1], cut[i])
        BY <2>1, <3>1
      <3>4. QED
        BY <3>2, <3>3
    <2> HIDE DEF rest
    <2>7. Segment(m, n, a, cut[n])
      BY <2>5, <2>6 DEF Segment
    <2>8. QED
      BY <2>3, <2>4, <2>7
  <1>2. ASSUME b \in 0..Len(value), NEW c \in 0..Len(value), Stands(n + 1, c, b),
               Segment(m, n, a, c)
        PROVE  Segment(m, n + 1, a, b)
    <2>1. PICK cut \in [m..n -> 0..Len(value)] :
            /\ cut[m] = a /\ cut[n] = c
            /\ \A i \in (m + 1)..n : Stands(i, cut[i - 1], cut[i])
      BY <1>2 DEF Segment
    <2> DEFINE more == [i \in m..(n + 1) |-> IF i = n + 1 THEN b ELSE cut[i]]
    <2>2. /\ more \in [m..(n + 1) -> 0..Len(value)] /\ more[m] = a /\ more[n] = c
          /\ more[n + 1] = b
      <3>1. \A i \in m..(n + 1) : i # n + 1 => i \in m..n
        OBVIOUS
      <3>2. m \in m..(n + 1) /\ n \in m..(n + 1) /\ n + 1 \in m..(n + 1) /\ m # n + 1
            /\ n # n + 1
        OBVIOUS
      <3>3. QED
        BY <1>2, <2>1, <3>1, <3>2
    <2>3. ASSUME NEW i \in (m + 1)..(n + 1)
          PROVE  Stands(i, more[i - 1], more[i])
      <3>1. CASE i = n + 1
        <4>1. i - 1 = n
          BY <3>1
        <4>2. more[i - 1] = c /\ more[i] = b
          BY <2>2, <3>1, <4>1
        <4>3. QED
          BY <1>2, <3>1, <4>2
      <3>2. CASE i # n + 1
        <4>1. i \in (m + 1)..n /\ i \in m..(n + 1) /\ i - 1 \in m..(n + 1) /\ i - 1 # n + 1
          BY <3>2
        <4>2. more[i] = cut[i] /\ more[i - 1] = cut[i - 1]
          BY <3>2, <4>1
        <4>3. Stands(i, cut[i - 1], cut[i])
          BY <2>1, <4>1
        <4>4. QED
          BY <4>2, <4>3
      <3>3. QED
        BY <3>1, <3>2
    <2> HIDE DEF more
    <2>4. QED
      BY <2>2, <2>3 DEF Segment
  <1>3. QED
    BY <1>1, <1>2

LEMMA LettersAre == "*" \notin Letter
  BY InstanceAssumption

LEMMA LengthsAre ==
  ASSUME MatchTyped
  PROVE  /\ Len(pattern) \in Nat /\ Len(value) \in Nat
         /\ \A i \in 1..Len(pattern) : pattern[i] \in Letter \cup {"*", "?"}
         /\ \A i \in 1..Len(value) : value[i] \in Letter
         /\ DOMAIN pattern = 1..Len(pattern) /\ DOMAIN value = 1..Len(value)
  BY LenProperties, ElementOfSeq DEF MatchTyped

(* The loops change neither pattern nor value.                               *)
LEMMA SegmentStays ==
  ASSUME UNCHANGED <<of, pattern, value>>
  PROVE  \A m, n, a, b : Segment(m, n, a, b)' <=> Segment(m, n, a, b)
  <1>1. \A i : Free(i)' <=> Free(i)
    BY DEF Free
  <1>2. \A i, a, b : Stands(i, a, b)' <=> Stands(i, a, b)
    BY <1>1 DEF Stands
  <1>3. QED
    BY <1>2 DEF Segment

LEMMA RestStays ==
  ASSUME UNCHANGED <<of, pattern, value>>
  PROVE  \A p, a : Rest(p, a)' <=> Rest(p, a)
  BY SegmentStays DEF Rest

LEMMA MatchStay ==
  UNCHANGED <<of, loop, pattern, value, vi, pi, star, checkpoint, matches, verdict>> =>
    (MatchInv => MatchInv')
  <1> SUFFICES ASSUME UNCHANGED <<of, loop, pattern, value, vi, pi, star, checkpoint,
                                  matches, verdict>>, MatchInv
               PROVE  MatchInv'
    OBVIOUS
  <1>1. \A m, n, a, b : Segment(m, n, a, b)' <=> Segment(m, n, a, b)
    BY SegmentStays
  <1>7. \A p, a : Rest(p, a)' <=> Rest(p, a)
    BY RestStays
  <1>2. MatchTyped'
    BY DEF MatchInv, MatchTyped
  <1>3. RowIs'
    BY <1>1 DEF MatchInv, RowIs
  <1>4. BackIs'
    BY <1>7 DEF MatchInv, BackIs
  <1>5. TrailIs'
    BY <1>7 DEF MatchInv, TrailIs
  <1>6. EndIs'
    BY <1>7 DEF MatchInv, EndIs
  <1>8. QED
    BY <1>2, <1>3, <1>4, <1>5, <1>6 DEF MatchInv

(* The words of up to n characters.                                          *)
LEMMA WordsAre ==
  ASSUME NEW S, NEW n, NEW s \in Matching!UpTo(S, n)
  PROVE  s \in Seq(S)
  <1>1. PICK k \in 0..n : s \in [1..k -> S]
    BY DEF Matching!UpTo
  <1>2. k \in Nat
    BY <1>1
  <1>3. QED
    BY <1>1, <1>2, SeqDef

LEMMA MatchBegin == Matching!Init => MatchInv
  <1> SUFFICES ASSUME Matching!Init
               PROVE  MatchInv
    OBVIOUS
  <1>1. /\ of \in {"wildcard", "rule"} /\ loop = "match"
        /\ of = "rule" \/ \A i \in DOMAIN pattern : pattern[i] # "?"
        /\ vi = 0 /\ pi = 0 /\ star = -1
        /\ matches = {<<0, 0>>} /\ verdict = FALSE
    BY DEF Matching!Init
  <1>2. pattern \in Seq(Letter \cup {"*", "?"}) /\ value \in Seq(Letter)
    BY WordsAre DEF Matching!Init
  <1>3. /\ Len(pattern) \in Nat /\ Len(value) \in Nat
        /\ DOMAIN pattern = 1..Len(pattern)
    BY <1>2, LenProperties
  <1>4. MatchTyped
    <2>1. vi \in 0..Len(value) /\ pi \in 0..Len(pattern)
      BY <1>1, <1>3
    <2>4. verdict \in BOOLEAN
      BY <1>1
    <2>2. of = "wildcard" => \A i \in 1..Len(pattern) : pattern[i] # "?"
      BY <1>1, <1>3
    <2>3. QED
      BY <1>1, <1>2, <2>1, <2>2, <2>4 DEF MatchTyped
  <1>5. RowIs
    <2>1. \A v \in 0..Len(value) : <<0, v>> \in matches <=> Segment(0, 0, 0, v)
      <3>1. \A v : Segment(0, 0, 0, v) <=> v = 0
        BY <1>3, SegmentEmpty
      <3>2. QED
        BY <1>1, <3>1
    <2>2. \A x \in matches : x[1] <= pi
      BY <1>1
    <2>3. pi \notin 1..(Len(pattern) - 1)
      BY <1>1
    <2>4. QED
      BY <1>1, <2>1, <2>2, <2>3 DEF RowIs
  <1>6. BackIs
    BY <1>1 DEF BackIs
  <1>7. QED
    BY <1>1, <1>4, <1>5, <1>6 DEF MatchInv, TrailIs, EndIs

(* A letter or a question mark: one character more.                          *)
LEMMA SteppedIs ==
  ASSUME MatchInv, of = "rule", loop = "match", pi < Len(pattern),
         pattern[pi + 1] # "*", NEW v \in 0..Len(value)
  PROVE  v \in Matching!Stepped(pattern[pi + 1]) <=> Segment(0, pi + 1, 0, v)
  <1>1. /\ pi \in Nat /\ Len(value) \in Nat
        /\ \A u \in 0..Len(value) : <<pi, u>> \in matches <=> Segment(0, pi, 0, u)
    BY LengthsAre DEF MatchInv, MatchTyped, RowIs
  <1> DEFINE Fit(u) == IF pattern[pi + 1] = "?" THEN value[u] # Matching!Slash
                       ELSE value[u] = pattern[pi + 1]
  <1>2. v \in Matching!Stepped(pattern[pi + 1]) <=>
          v \in 1..Len(value) /\ <<pi, v - 1>> \in matches /\ Fit(v)
    BY DEF Matching!Stepped
  <1>3. \A u \in 0..Len(value) : Stands(pi + 1, u, v) <=> v = u + 1 /\ Fit(v)
    BY <1>1 DEF Stands
  <1> HIDE DEF Fit
  <1>4. Segment(0, pi + 1, 0, v) <=>
          \E u \in 0..Len(value) : Segment(0, pi, 0, u) /\ Stands(pi + 1, u, v)
    BY <1>1, SegmentBack
  <1>5. Segment(0, pi + 1, 0, v) <=>
          v \in 1..Len(value) /\ Segment(0, pi, 0, v - 1) /\ Fit(v)
    <2>1. ASSUME NEW u \in 0..Len(value), Segment(0, pi, 0, u), Stands(pi + 1, u, v)
          PROVE  v \in 1..Len(value) /\ Segment(0, pi, 0, v - 1) /\ Fit(v)
      <3>1. v = u + 1 /\ Fit(v)
        BY <1>3, <2>1
      <3>2. v - 1 = u /\ v \in 1..Len(value)
        BY <1>1, <3>1
      <3>3. QED
        BY <2>1, <3>1, <3>2
    <2>2. ASSUME v \in 1..Len(value), Segment(0, pi, 0, v - 1), Fit(v)
          PROVE  Segment(0, pi + 1, 0, v)
      <3>1. v - 1 \in 0..Len(value) /\ v = (v - 1) + 1
        BY <1>1, <2>2
      <3>2. Stands(pi + 1, v - 1, v)
        BY <1>3, <2>2, <3>1
      <3>3. QED
        BY <1>4, <2>2, <3>1, <3>2
    <2>3. QED
      BY <1>4, <2>1, <2>2
  <1>6. v \in 1..Len(value) => v - 1 \in 0..Len(value)
    BY <1>1
  <1>7. QED
    BY <1>1, <1>2, <1>5, <1>6

(* Two stars: anything more.                                                 *)
LEMMA DoubledIs ==
  ASSUME MatchInv, of = "rule", loop = "match", Matching!Double, NEW v \in 0..Len(value)
  PROVE  v \in Matching!Starred <=> Segment(0, pi + 2, 0, v)
  <1>1. /\ pi \in Nat /\ Len(value) \in Nat /\ Len(pattern) \in Nat
        /\ pi + 1 < Len(pattern) /\ pattern[pi + 1] = "*" /\ pattern[pi + 2] = "*"
        /\ \A u \in 0..Len(value) : <<pi, u>> \in matches <=> Segment(0, pi, 0, u)
    BY LengthsAre DEF MatchInv, MatchTyped, RowIs, Matching!Double
  <1>2. Free(pi + 1) /\ Free(pi + 2)
    <2>1. /\ pi + 2 \in {(pi + 1) - 1, (pi + 1) + 1} \cap (1..Len(pattern))
          /\ pi + 1 \in {(pi + 2) - 1, (pi + 2) + 1} \cap (1..Len(pattern))
      BY <1>1
    <2>2. QED
      BY <1>1, <2>1 DEF Free
  <1>3. \A a, b \in 0..Len(value) : /\ Stands(pi + 1, a, b) <=> a <= b
                                    /\ Stands(pi + 2, a, b) <=> a <= b
    BY <1>1, <1>2 DEF Stands
  <1>4. v \in Matching!Starred <=> \E u \in 0..v : <<pi, u>> \in matches
    BY <1>1 DEF Matching!Starred, Matching!Takes
  <1>5. /\ Segment(0, pi + 2, 0, v) <=>
             \E c \in 0..Len(value) : Segment(0, pi + 1, 0, c) /\ Stands(pi + 2, c, v)
        /\ \A c : Segment(0, pi + 1, 0, c) <=>
             /\ c \in 0..Len(value)
             /\ \E u \in 0..Len(value) : Segment(0, pi, 0, u) /\ Stands(pi + 1, u, c)
    <2>1. pi + 1 \in Nat /\ (pi + 1) + 1 = pi + 2
      BY <1>1
    <2>2. Segment(0, (pi + 1) + 1, 0, v) <=>
             /\ v \in 0..Len(value)
             /\ \E c \in 0..Len(value) : Segment(0, pi + 1, 0, c) /\ Stands((pi + 1) + 1, c, v)
      BY <2>1, SegmentBack
    <2>3. \A c : Segment(0, pi + 1, 0, c) <=>
             /\ c \in 0..Len(value)
             /\ \E u \in 0..Len(value) : Segment(0, pi, 0, u) /\ Stands(pi + 1, u, c)
      BY <1>1, SegmentBack
    <2>4. QED
      BY <2>1, <2>2, <2>3
  <1>6. Segment(0, pi + 2, 0, v) <=> \E u \in 0..v : Segment(0, pi, 0, u)
    <2>1. ASSUME NEW u \in 0..v, Segment(0, pi, 0, u)
          PROVE  Segment(0, pi + 2, 0, v)
      <3>1. u \in 0..Len(value) /\ u <= u /\ u <= v
        BY <1>1
      <3>2. Segment(0, pi + 1, 0, u)
        BY <1>3, <1>5, <2>1, <3>1
      <3>3. QED
        BY <1>3, <1>5, <3>1, <3>2
    <2>2. ASSUME NEW c \in 0..Len(value), Stands(pi + 2, c, v),
                 NEW u \in 0..Len(value), Segment(0, pi, 0, u), Stands(pi + 1, u, c)
          PROVE  \E x \in 0..v : Segment(0, pi, 0, x)
      <3>1. u <= c /\ c <= v
        BY <1>3, <2>2
      <3>2. u \in 0..v
        BY <1>1, <3>1
      <3>3. QED
        BY <2>2, <3>2
    <2>3. QED
      BY <1>5, <2>1, <2>2
  <1>7. \A u \in 0..v : u \in 0..Len(value)
    BY <1>1
  <1>8. QED
    BY <1>1, <1>4, <1>6, <1>7

(* One star: what may be taken, or anything after another star.              *)
LEMMA StarredIs ==
  ASSUME MatchInv, of = "rule", loop = "match", pi < Len(pattern),
         pattern[pi + 1] = "*", ~Matching!Double, NEW v \in 0..Len(value)
  PROVE  v \in Matching!Starred <=> Segment(0, pi + 1, 0, v)
  <1>1. /\ pi \in Nat /\ Len(value) \in Nat /\ Len(pattern) \in Nat
        /\ \A u \in 0..Len(value) : <<pi, u>> \in matches <=> Segment(0, pi, 0, u)
    BY LengthsAre DEF MatchInv, MatchTyped, RowIs
  <1>2. Segment(0, pi + 1, 0, v) <=>
          \E u \in 0..Len(value) : Segment(0, pi, 0, u) /\ Stands(pi + 1, u, v)
    BY <1>1, SegmentBack
  <1>3. v \in Matching!Starred <=>
          \E u \in 0..v : <<pi, u>> \in matches /\ \A w \in u..(v - 1) : Matching!Takes(w)
    BY DEF Matching!Starred
  <1>4. \A u \in 0..v : u \in 0..Len(value)
    BY <1>1
  <1>5. Free(pi + 1) <=> pi \in 1..Len(pattern) /\ pattern[pi] = "*"
    <2>1. ~ (pi + 2 \in 1..Len(pattern) /\ pattern[pi + 2] = "*")
      BY <1>1 DEF Matching!Double
    <2>2. (pi + 1) - 1 = pi /\ (pi + 1) + 1 = pi + 2
      BY <1>1
    <2>3. QED
      BY <2>1, <2>2 DEF Free
  <1>6. CASE Free(pi + 1)
    <2>1. \A x, y \in 0..Len(value) : x <= y /\ <<pi, x>> \in matches => <<pi, y>> \in matches
      <3>1. pi \in 1..(Len(pattern) - 1) /\ pattern[pi] = "*"
        BY <1>1, <1>5, <1>6
      <3>2. QED
        BY <3>1 DEF MatchInv, RowIs
    <2>2. \A u \in 0..Len(value) : Stands(pi + 1, u, v) <=> u <= v
      BY <1>6 DEF Stands
    <2>3. Segment(0, pi + 1, 0, v) <=> <<pi, v>> \in matches
      <3>1. v <= v
        BY <1>1
      <3>2. QED
        BY <1>1, <1>2, <2>1, <2>2, <3>1
    <2>4. v \in Matching!Starred <=> <<pi, v>> \in matches
      <3>1. v \in 0..v /\ \A w \in v..(v - 1) : Matching!Takes(w)
        BY <1>1
      <3>2. \A u \in 0..v : u <= v
        BY <1>1
      <3>3. QED
        BY <1>3, <1>4, <2>1, <3>1, <3>2
    <2>5. QED
      BY <2>3, <2>4
  <1>7. CASE ~Free(pi + 1)
    <2>1. \A u \in 0..Len(value) : Stands(pi + 1, u, v) <=>
            u \in 0..v /\ \A w \in u..(v - 1) : Matching!Takes(w)
      <3>1. ASSUME NEW u \in 0..Len(value)
            PROVE  Stands(pi + 1, u, v) <=>
                     u \in 0..v /\ \A w \in u..(v - 1) : Matching!Takes(w)
        <4>1. Stands(pi + 1, u, v) <=>
                u <= v /\ \A j \in (u + 1)..v : value[j] # Matching!Slash
          BY <1>7 DEF Stands
        <4>2. \A w : Matching!Takes(w) <=>
                       w < Len(value) /\ value[w + 1] # Matching!Slash
          BY DEF Matching!Takes
        <4>3. ASSUME \A j \in (u + 1)..v : value[j] # Matching!Slash, NEW w \in u..(v - 1)
              PROVE  w < Len(value) /\ value[w + 1] # Matching!Slash
          <5>1. w + 1 \in (u + 1)..v /\ w < Len(value)
            BY <1>1
          <5>2. QED
            BY <4>3, <5>1
        <4>4. ASSUME \A w \in u..(v - 1) : value[w + 1] # Matching!Slash,
                     NEW j \in (u + 1)..v
              PROVE  value[j] # Matching!Slash
          <5>1. j - 1 \in u..(v - 1) /\ (j - 1) + 1 = j
            BY <1>1
          <5>2. QED
            BY <4>4, <5>1
        <4>5. u <= v <=> u \in 0..v
          BY <1>1
        <4>6. QED
          BY <4>1, <4>2, <4>3, <4>4, <4>5
      <3>2. QED
        BY <3>1
    <2>2. QED
      BY <1>1, <1>2, <1>3, <1>4, <2>1
  <1>8. QED
    BY <1>6, <1>7

(* The row that is filled is the next one, and the ones before stay.         *)
LEMMA RowAdded ==
  ASSUME MatchInv, of = "rule", loop = "match", NEW next \in Nat, pi < next, NEW Added,
         matches' = matches \cup {<<next, v>> : v \in Added}
  PROVE  /\ \A v : <<next, v>> \in matches' <=> v \in Added
         /\ \A x \in matches' : x[1] \in 0..next
  <1>1. pi \in Nat /\ \A x \in matches : x[1] \in 0..pi
    BY LengthsAre DEF MatchInv, MatchTyped, RowIs
  <1>2. ASSUME NEW v, <<next, v>> \in matches
        PROVE  FALSE
    <2>1. next \in 0..pi
      BY <1>1, <1>2
    <2>2. QED
      BY <1>1, <2>1
  <1>3. \A v : <<next, v>> \in {<<next, u>> : u \in Added} <=> v \in Added
    OBVIOUS
  <1>4. ASSUME NEW x \in matches
        PROVE  x[1] \in 0..next
    BY <1>1, <1>4
  <1>5. \A v : (<<next, v>>)[1] = next
    OBVIOUS
  <1>6. ASSUME NEW x \in {<<next, v>> : v \in Added}
        PROVE  x[1] \in 0..next
    BY <1>6
  <1>7. QED
    BY <1>2, <1>3, <1>4, <1>6

LEMMA RowKeeps ==
  ASSUME MatchInv, Matching!Row
  PROVE  MatchInv'
  <1> DEFINE N == Len(pattern)
             L == Len(value)
  <1>1. /\ of = "rule" /\ loop = "match"
        /\ UNCHANGED <<of, pattern, value, vi, star, checkpoint>>
    BY DEF Matching!Row
  <1>2. /\ N \in Nat /\ L \in Nat /\ pi \in 0..N /\ vi \in 0..L /\ verdict \in BOOLEAN
        /\ \A v \in 0..L : <<pi, v>> \in matches <=> Segment(0, pi, 0, v)
    BY <1>1, LengthsAre DEF MatchInv, MatchTyped, RowIs
  <1>3. \A m, n, a, b : Segment(m, n, a, b)' <=> Segment(m, n, a, b)
    BY <1>1, SegmentStays
  <1>4. CASE ~Matching!More
    <2>1. /\ loop' = "ended" /\ UNCHANGED pi /\ pi = N
          /\ verdict' = (<<N, L>> \in matches)
      BY <1>2, <1>4 DEF Matching!Row, Matching!More
    <2>2. (<<N, L>> \in matches) <=> Segment(0, N, 0, L)
      BY <1>2, <2>1
    <2>3. verdict' \in BOOLEAN /\ (verdict' <=> Segment(0, N, 0, L)')
      <3>1. (<<N, L>> \in matches) \in BOOLEAN
        OBVIOUS
      <3>2. verdict' \in BOOLEAN
        BY ONLY <2>1, <3>1, Zenon
      <3>3. verdict' <=> <<N, L>> \in matches
        BY ONLY <2>1, Zenon
      <3>4. (Segment(0, N, 0, L))' <=> Segment(0, N, 0, L)
        BY <1>1, <1>3
      <3>5. QED
        BY ONLY <2>2, <3>2, <3>3, <3>4
    <2>4. MatchTyped'
      BY <1>1, <2>1, <2>3 DEF MatchInv, MatchTyped
    <2>5. EndIs'
      <3>1. pattern' = pattern /\ value' = value
        BY <1>1
      <3>2. QED
        BY ONLY <2>3, <3>1, <1>3, Zenon DEF EndIs, Rest
    <2>6. QED
      BY <1>1, <2>1, <2>4, <2>5 DEF MatchInv, RowIs, BackIs, TrailIs
  <1>5. CASE Matching!More
    <2> DEFINE c == pattern[pi + 1]
               next == pi + IF Matching!Double THEN 2 ELSE 1
               Added == IF c = "*" THEN Matching!Starred ELSE Matching!Stepped(c)
    <2>1. /\ UNCHANGED <<loop, verdict>> /\ pi' = next
          /\ matches' = matches \cup {<<next, v>> : v \in Added}
      BY <1>5 DEF Matching!Row
    <2>2. pi < N
      BY <1>5 DEF Matching!More
    <2>3. next \in 0..N /\ pi < next /\ next \in Nat
      BY <1>2, <2>2 DEF Matching!Double
    <2>4. \A v \in 0..L : v \in Added <=> Segment(0, next, 0, v)
      <3>1. CASE c # "*"
        <4>1. next = pi + 1
          BY <3>1 DEF Matching!Double
        <4>2. QED
          BY <1>1, <2>2, <3>1, <4>1, SteppedIs
      <3>2. CASE c = "*" /\ Matching!Double
        BY <1>1, <3>2, DoubledIs
      <3>3. CASE c = "*" /\ ~Matching!Double
        BY <1>1, <2>2, <3>3, StarredIs
      <3>4. QED
        BY <3>1, <3>2, <3>3
    <2>5. next \in 1..(N - 1) /\ pattern[next] = "*" /\ pattern[next + 1] = "*" =>
            \A u, v \in 0..L : u <= v /\ u \in Added => v \in Added
      <3>1. CASE Matching!Double
        <4>1. c = "*"
          BY <3>1 DEF Matching!Double
        <4>2. \A v : v \in Added <=> v \in 0..L /\ \E u \in 0..v : <<pi, u>> \in matches
          BY <1>2, <3>1, <4>1 DEF Matching!Starred, Matching!Takes
        <4>3. \A u, v \in 0..L : u <= v => \A w \in 0..u : w \in 0..v
          BY <1>2
        <4>4. QED
          BY <4>2, <4>3
      <3>2. CASE ~Matching!Double
        <4>1. next = pi + 1 /\ next + 1 = pi + 2
          BY <1>2, <3>2
        <4>2. QED
          BY <1>2, <3>2, <4>1 DEF Matching!Double
      <3>3. QED
        BY <3>1, <3>2
    <2> HIDE DEF next, Added, c
    <2>6. /\ \A v : <<next, v>> \in matches' <=> v \in Added
          /\ \A x \in matches' : x[1] \in 0..next
      BY <1>1, <2>1, <2>3, RowAdded
    <2>7. RowIs'
      BY <1>1, <1>3, <2>1, <2>4, <2>5, <2>6 DEF RowIs
    <2>8. MatchTyped'
      BY <1>1, <2>1, <2>3 DEF MatchInv, MatchTyped
    <2>9. QED
      BY <1>1, <2>1, <2>7, <2>8 DEF MatchInv, BackIs, TrailIs, EndIs
  <1>6. QED
    BY <1>4, <1>5

(* The rest of the pattern, for the first function.                          *)
LEMMA RestIs ==
  ASSUME MatchTyped, of = "wildcard"
  PROVE  /\ \A p, a : Rest(p, a) /\ p \in 0..Len(pattern) => a \in 0..Len(value)
         /\ \A a : Rest(Len(pattern), a) <=> a = Len(value)
         /\ \A p \in 0..(Len(pattern) - 1), a \in 0..Len(value) :
              /\ pattern[p + 1] = "*" =>
                   (Rest(p, a) <=> \E c \in a..Len(value) : Rest(p + 1, c))
              /\ pattern[p + 1] # "*" =>
                   (Rest(p, a) <=> /\ a < Len(value) /\ pattern[p + 1] = value[a + 1]
                                   /\ Rest(p + 1, a + 1))
  <1> DEFINE N == Len(pattern)
             L == Len(value)
  <1>1. /\ N \in Nat /\ L \in Nat
        /\ \A i \in 1..N : pattern[i] # "?"
    BY LengthsAre DEF MatchTyped
  <1>2. ASSUME NEW p \in 0..N, NEW a, Rest(p, a)
        PROVE  a \in 0..L
    <2>1. p \in Nat /\ p <= N
      BY <1>1
    <2>2. QED
      BY <1>1, <1>2, <2>1, SegmentWithin DEF Rest
  <1>3. ASSUME NEW a
        PROVE  Rest(N, a) <=> a = L
    <2>1. Segment(N, N, a, L) <=> a = L /\ a \in 0..L
      BY <1>1, SegmentEmpty
    <2>2. QED
      BY <1>1, <2>1 DEF Rest
  <1>4. ASSUME NEW p \in 0..(N - 1), NEW a \in 0..L
        PROVE  /\ pattern[p + 1] = "*" =>
                    (Rest(p, a) <=> \E c \in a..L : Rest(p + 1, c))
               /\ pattern[p + 1] # "*" =>
                    (Rest(p, a) <=> /\ a < L /\ pattern[p + 1] = value[a + 1]
                                    /\ Rest(p + 1, a + 1))
    <2>1. p \in Nat /\ p < N /\ p + 1 \in 1..N
      BY <1>1
    <2>2. Rest(p, a) <=> \E c \in 0..L : Stands(p + 1, a, c) /\ Rest(p + 1, c)
      BY <1>1, <2>1, SegmentFront DEF Rest
    <2>3. CASE pattern[p + 1] = "*"
      <3>1. \A c : Stands(p + 1, a, c) <=> a <= c
        BY <2>3 DEF Stands, Free
      <3>2. \A c : c \in 0..L /\ a <= c <=> c \in a..L
        BY <1>1
      <3>3. QED
        BY <2>2, <2>3, <3>1, <3>2
    <2>4. CASE pattern[p + 1] # "*"
      <3>1. pattern[p + 1] # "?"
        BY <1>1, <2>1
      <3>2. \A c \in 0..L : Stands(p + 1, a, c) <=> c = a + 1 /\ value[c] = pattern[p + 1]
        BY <1>1, <2>4, <3>1 DEF Stands
      <3>3. a + 1 \in 0..L <=> a < L
        BY <1>1
      <3>4. QED
        BY <2>2, <2>4, <3>2, <3>3
    <2>5. QED
      BY <2>3, <2>4
  <1>5. QED
    BY <1>2, <1>3, <1>4

LEMMA WildcardKeeps ==
  ASSUME MatchInv, Matching!Wildcard
  PROVE  MatchInv'
  <1> DEFINE N == Len(pattern)
             L == Len(value)
  <1>1. /\ of = "wildcard" /\ loop = "match"
        /\ UNCHANGED <<of, pattern, value, matches>>
    BY DEF Matching!Wildcard
  <1>2. /\ N \in Nat /\ L \in Nat /\ pi \in 0..N /\ vi \in 0..L /\ verdict \in BOOLEAN
        /\ \A i \in 1..L : value[i] # "*"
    BY LengthsAre, LettersAre DEF MatchInv, MatchTyped
  <1>3. /\ \A a : Rest(pi, a) => a \in 0..L
        /\ \A a : Rest(N, a) <=> a = L
        /\ \A p \in 0..(N - 1), a \in 0..L :
             /\ pattern[p + 1] = "*" => (Rest(p, a) <=> \E c \in a..L : Rest(p + 1, c))
             /\ pattern[p + 1] # "*" =>
                  (Rest(p, a) <=> /\ a < L /\ pattern[p + 1] = value[a + 1]
                                  /\ Rest(p + 1, a + 1))
    BY <1>1, <1>2, RestIs DEF MatchInv
  <1>4. \A p, a : Rest(p, a)' <=> Rest(p, a)
    BY <1>1, RestStays
  <1>5. /\ MatchTyped
        /\ \/ star = -1 /\ (Rest(0, 0) <=> Rest(pi, vi))
           \/ /\ star \in 0..(N - 1) /\ pattern[star + 1] = "*" /\ star + 1 <= pi
              /\ checkpoint \in 0..vi
              /\ Rest(0, 0) <=> Rest(star, checkpoint)
              /\ Rest(pi, vi) => Rest(star + 1, checkpoint)
              /\ \A a \in checkpoint..L : Rest(star + 1, a) => Rest(pi, a + (vi - checkpoint))
    BY <1>1 DEF MatchInv, BackIs
  <1>6. Matching!More <=> pi < N
    BY DEF Matching!More
  <1>7. Matching!Same <=> pi < N /\ pattern[pi + 1] = value[vi + 1]
    BY <1>6 DEF Matching!Same
  (* A step of the loop, by what it does to star and to what may follow it.  *)
  <1>8. ASSUME UNCHANGED <<loop, verdict>>, pi' \in 0..N, vi' \in 0..L,
               \/ star' = -1 /\ (Rest(0, 0) <=> Rest(pi', vi'))
               \/ /\ star' \in 0..(N - 1) /\ pattern[star' + 1] = "*" /\ star' + 1 <= pi'
                  /\ checkpoint' \in 0..vi'
                  /\ Rest(0, 0) <=> Rest(star', checkpoint')
                  /\ Rest(pi', vi') => Rest(star' + 1, checkpoint')
                  /\ \A a \in checkpoint'..L :
                       Rest(star' + 1, a) => Rest(pi', a + (vi' - checkpoint'))
        PROVE  MatchInv'
    <2>1. MatchTyped'
      BY <1>1, <1>5, <1>8 DEF MatchTyped
    <2>2. BackIs'
      <3>1. /\ Rest(0, 0)' <=> Rest(0, 0)
            /\ Rest(pi, vi)' <=> Rest(pi', vi')
            /\ Rest(star, checkpoint)' <=> Rest(star', checkpoint')
            /\ Rest(star + 1, checkpoint)' <=> Rest(star' + 1, checkpoint')
            /\ \A a : Rest(star + 1, a)' <=> Rest(star' + 1, a)
            /\ \A a : Rest(pi, a)' <=> Rest(pi', a)
        BY <1>1, SegmentStays DEF Rest
      <3>2. QED
        BY <1>1, <1>8, <3>1 DEF BackIs
    <2>3. QED
      BY <1>1, <1>8, <2>1, <2>2 DEF MatchInv, RowIs, TrailIs, EndIs
  <1>9. CASE vi < L /\ Matching!Advance
    <2>1. /\ UNCHANGED <<loop, verdict, star, checkpoint>> /\ vi' = vi + 1 /\ pi' = pi + 1
          /\ pi < N /\ pattern[pi + 1] = value[vi + 1]
      BY <1>7, <1>9 DEF Matching!Advance
    <2>2. pattern[pi + 1] # "*" /\ pi \in 0..(N - 1)
      BY <1>2, <1>9, <2>1
    <2>3. Rest(pi, vi) <=> Rest(pi', vi')
      BY <1>2, <1>3, <1>9, <2>1, <2>2
    <2>4. \A a \in 0..L : Rest(pi, a) => Rest(pi', a + 1)
      BY <1>3, <2>1, <2>2
    <2>5. CASE star = -1
      BY <1>2, <1>5, <1>8, <1>9, <2>1, <2>3, <2>5
    <2>6. CASE star # -1
      <3>1. ASSUME NEW a \in checkpoint..L, Rest(star + 1, a)
            PROVE  Rest(pi', a + (vi' - checkpoint))
        <4>1. Rest(pi, a + (vi - checkpoint))
          BY <1>5, <2>6, <3>1
        <4>2. a + (vi' - checkpoint) = (a + (vi - checkpoint)) + 1
          BY <1>2, <1>5, <2>1, <2>6
        <4>3. QED
          BY <1>3, <2>4, <4>1, <4>2
      <3>2. star + 1 <= pi' /\ checkpoint \in 0..vi' /\ pi' \in 0..N /\ vi' \in 0..L
        BY <1>2, <1>5, <1>9, <2>1, <2>6
      <3>3. QED
        BY <1>5, <1>8, <2>1, <2>3, <2>6, <3>1, <3>2
    <2>7. QED
      BY <2>5, <2>6
  <1>10. CASE vi < L /\ Matching!AtStar
    <2>1. /\ UNCHANGED <<loop, verdict, vi>> /\ star' = pi /\ pi' = pi + 1 /\ checkpoint' = vi
          /\ pi < N /\ pattern[pi + 1] = "*"
      BY <1>6, <1>10 DEF Matching!AtStar
    <2>2. pi \in 0..(N - 1) /\ pi' \in 0..N /\ vi' \in 0..L /\ checkpoint' \in 0..vi'
          /\ star' + 1 <= pi' /\ star' \in 0..(N - 1)
      BY <1>2, <2>1
    <2>3. Rest(0, 0) <=> Rest(pi, vi)
      <3>1. CASE star # -1
        <4>1. /\ star \in 0..(N - 1) /\ checkpoint \in 0..L /\ checkpoint <= vi
              /\ checkpoint \in checkpoint..L
          BY <1>2, <1>5, <3>1
        <4>2. Rest(star, checkpoint) <=> \E c \in checkpoint..L : Rest(star + 1, c)
          BY <1>3, <1>5, <3>1, <4>1
        <4>3. ASSUME NEW c \in checkpoint..L, Rest(star + 1, c)
              PROVE  Rest(pi, vi)
          <5>1. Rest(pi, c + (vi - checkpoint))
            BY <1>5, <3>1, <4>3
          <5>2. c + (vi - checkpoint) \in vi..L
            BY <1>2, <1>3, <4>1, <5>1
          <5>3. PICK x \in (c + (vi - checkpoint))..L : Rest(pi + 1, x)
            BY <1>2, <1>3, <2>1, <2>2, <5>1, <5>2
          <5>4. x \in vi..L
            BY <1>2, <4>1, <5>2
          <5>5. QED
            BY <1>2, <1>3, <2>1, <2>2, <5>3, <5>4
        <4>4. QED
          BY <1>5, <3>1, <4>1, <4>2, <4>3
      <3>2. QED
        BY <1>5, <3>1
    <2>4. ASSUME NEW a \in checkpoint'..L, Rest(star' + 1, a)
          PROVE  Rest(pi', a + (vi' - checkpoint'))
      BY <1>2, <2>1, <2>4
    <2>5. QED
      BY <1>8, <2>1, <2>2, <2>3, <2>4
  (* The letter does not match: the rest does not fit from here.             *)
  <1>11. ASSUME vi < L, ~Matching!Same, ~(Matching!More /\ pattern[pi + 1] = "*")
         PROVE  ~Rest(pi, vi)
    <2>1. CASE pi = N
      BY <1>2, <1>3, <1>11, <2>1
    <2>2. CASE pi < N
      BY <1>2, <1>3, <1>6, <1>7, <1>11, <2>2
    <2>3. QED
      BY <1>2, <2>1, <2>2
  <1>12. CASE vi < L /\ Matching!Retry
    <2>1. /\ UNCHANGED <<loop, verdict, star>> /\ pi' = star + 1
          /\ checkpoint' = checkpoint + 1 /\ vi' = checkpoint + 1 /\ star # -1
          /\ ~Rest(pi, vi)
      BY <1>11, <1>12 DEF Matching!Retry, Matching!Back
    <2>2. /\ star \in 0..(N - 1) /\ pattern[star + 1] = "*"
          /\ checkpoint \in 0..vi /\ checkpoint \in 0..L /\ checkpoint + 1 \in 0..L
          /\ pi' \in 0..N /\ checkpoint' \in 0..vi' /\ star + 1 <= pi'
      BY <1>2, <1>5, <1>12, <2>1
    <2>3. Rest(star, checkpoint) <=> Rest(star, checkpoint + 1)
      <3>1. ASSUME NEW c \in checkpoint..L, Rest(star + 1, c)
            PROVE  c \in (checkpoint + 1)..L
        <4>1. Rest(pi, c + (vi - checkpoint))
          BY <1>5, <2>1, <3>1
        <4>2. c # checkpoint
          BY <1>2, <2>1, <2>2, <4>1
        <4>3. QED
          BY <2>2, <4>2
      <3>2. \A c \in (checkpoint + 1)..L : c \in checkpoint..L
        BY <2>2
      <3>3. QED
        BY <1>3, <2>2, <3>1, <3>2
    <2>4. ASSUME NEW a \in checkpoint'..L, Rest(star' + 1, a)
          PROVE  Rest(pi', a + (vi' - checkpoint'))
      BY <1>2, <2>1, <2>2, <2>4
    <2>5. QED
      BY <1>5, <1>8, <2>1, <2>2, <2>3, <2>4
  <1>13. CASE vi < L /\ Matching!Fail
    <2>1. /\ loop' = "ended" /\ verdict' = FALSE /\ UNCHANGED <<vi, pi>> /\ star = -1
          /\ ~Rest(pi, vi)
      BY <1>11, <1>13 DEF Matching!Fail
    <2>2. ~Rest(0, 0)'
      BY <1>4, <1>5, <2>1
    <2>3. MatchTyped'
      BY <1>1, <1>2, <1>5, <2>1 DEF MatchTyped
    <2>4. EndIs'
      BY <2>1, <2>2 DEF EndIs
    <2>5. QED
      BY <1>1, <2>1, <2>3, <2>4 DEF MatchInv, RowIs, BackIs, TrailIs
  <1>14. CASE ~(vi < L)
    <2>1. loop' = "trail" /\ UNCHANGED <<vi, pi, star, checkpoint, verdict>>
      BY <1>14 DEF Matching!Wildcard
    <2>2. vi = L
      BY <1>2, <1>14
    <2>3. Rest(0, 0) <=> Rest(pi, L)
      <3>1. CASE star # -1
        <4>1. /\ star \in 0..(N - 1) /\ checkpoint \in 0..L /\ checkpoint \in checkpoint..L
          BY <1>2, <1>5, <3>1
        <4>2. Rest(star, checkpoint) <=> \E c \in checkpoint..L : Rest(star + 1, c)
          BY <1>3, <1>5, <3>1, <4>1
        <4>3. ASSUME NEW c \in checkpoint..L, Rest(star + 1, c)
              PROVE  Rest(pi, L)
          <5>1. Rest(pi, c + (L - checkpoint))
            BY <1>5, <2>2, <3>1, <4>3
          <5>2. c + (L - checkpoint) = L
            <6>1. c + (L - checkpoint) \in 0..L
              BY <1>3, <5>1
            <6>2. QED
              BY ONLY <1>2, <4>1, <6>1
          <5>3. QED
            BY <5>1, <5>2
        <4>4. QED
          BY <1>5, <2>2, <3>1, <4>1, <4>2, <4>3
      <3>2. QED
        BY <1>5, <2>2, <3>1
    <2>4. MatchTyped'
      BY <1>1, <1>2, <1>5, <2>1 DEF MatchTyped
    <2>5. TrailIs'
      <3>1. Rest(0, 0)' <=> Rest(0, 0)
        BY <1>4
      <3>2. Rest(pi, Len(value))' <=> Rest(pi, L)
        BY <1>1, <2>1, SegmentStays DEF Rest
      <3>3. QED
        BY <1>1, <2>1, <2>2, <2>3, <3>1, <3>2 DEF TrailIs
    <2>6. QED
      BY <1>1, <2>1, <2>4, <2>5 DEF MatchInv, RowIs, BackIs, EndIs
  <1>15. QED
    BY <1>9, <1>10, <1>12, <1>13, <1>14 DEF Matching!Wildcard

LEMMA TrailKeeps ==
  ASSUME MatchInv, Matching!Trail
  PROVE  MatchInv'
  <1> DEFINE N == Len(pattern)
             L == Len(value)
  <1>1. loop = "trail" /\ UNCHANGED <<of, pattern, value, vi, star, checkpoint, matches>>
    BY DEF Matching!Trail
  <1>2. /\ N \in Nat /\ L \in Nat /\ pi \in 0..N /\ of = "wildcard"
        /\ vi = L /\ (Rest(0, 0) <=> Rest(pi, L))
    BY <1>1, LengthsAre DEF MatchInv, MatchTyped, TrailIs
  <1>3. /\ Rest(N, L)
        /\ pi < N /\ pattern[pi + 1] = "*" =>
             (Rest(pi, L) <=> \E c \in L..L : Rest(pi + 1, c))
        /\ pi < N /\ pattern[pi + 1] # "*" => ~Rest(pi, L)
    <2>1. pi < N => pi \in 0..(N - 1) /\ L \in 0..L
      BY <1>2
    <2>2. QED
      BY <1>2, <2>1, RestIs DEF MatchInv
  <1>4. Rest(0, 0)' <=> Rest(0, 0)
    BY <1>1, RestStays
  <1>5. CASE Matching!More /\ pattern[pi + 1] = "*"
    <2>1. pi' = pi + 1 /\ UNCHANGED <<loop, verdict>> /\ pi < N
      BY <1>5 DEF Matching!Trail, Matching!More
    <2>2. Rest(pi, L) <=> Rest(pi + 1, L)
      BY <1>2, <1>3, <1>5, <2>1
    <2>3. MatchTyped'
      BY <1>1, <1>2, <2>1 DEF MatchInv, MatchTyped
    <2>4. Rest(pi, Len(value))' <=> Rest(pi + 1, L)
      BY <1>1, <2>1, SegmentStays DEF Rest
    <2>5. TrailIs'
      BY <1>1, <1>2, <1>4, <2>1, <2>2, <2>4 DEF TrailIs
    <2>6. QED
      BY <1>1, <2>1, <2>3, <2>5 DEF MatchInv, RowIs, BackIs, EndIs
  <1>6. CASE ~(Matching!More /\ pattern[pi + 1] = "*")
    <2>1. loop' = "ended" /\ UNCHANGED pi /\ verdict' = (pi = N)
      BY <1>6 DEF Matching!Trail
    <2>2. Rest(0, 0) <=> pi = N
      BY <1>2, <1>3, <1>6 DEF Matching!More
    <2>3. verdict' \in BOOLEAN /\ (verdict' <=> pi = N)
      <3>1. (pi = N) \in BOOLEAN
        OBVIOUS
      <3>2. QED
        BY ONLY <2>1, <3>1, Zenon
    <2>4. MatchTyped'
      BY <1>1, <1>2, <2>1, <2>3 DEF MatchInv, MatchTyped
    <2>5. EndIs'
      BY ONLY <1>4, <2>2, <2>3 DEF EndIs
    <2>6. QED
      BY <1>1, <2>1, <2>4, <2>5 DEF MatchInv, RowIs, BackIs, TrailIs
  <1>7. QED
    BY <1>5, <1>6

LEMMA MatchStep == MatchInv /\ Matching!Next => MatchInv'
  BY RowKeeps, WildcardKeeps, TrailKeeps DEF Matching!Next

(* The whole pattern: what Fits asks of a cut, a segment has.                *)
LEMMA FitsIs ==
  ASSUME MatchTyped
  PROVE  Matching!Fits(pattern, value) <=> Rest(0, 0)
  <1> DEFINE N == Len(pattern)
             L == Len(value)
  <1>1. N \in Nat /\ L \in Nat
    BY LengthsAre
  <1>2. ASSUME NEW cut \in [0..N -> 0..L], NEW i \in 1..N
        PROVE  Stands(i, cut[i - 1], cut[i]) <=>
                 /\ cut[i - 1] <= cut[i]
                 /\ pattern[i] = "*" =>
                      Free(i) \/ \A j \in (cut[i - 1] + 1)..cut[i] : value[j] # Matching!Slash
                 /\ pattern[i] # "*" =>
                      /\ cut[i] = cut[i - 1] + 1
                      /\ IF pattern[i] = "?" THEN value[cut[i]] # Matching!Slash
                         ELSE value[cut[i]] = pattern[i]
    BY DEF Stands
  <1>3. Rest(0, 0) <=>
          \E cut \in [0..N -> 0..L] :
            /\ cut[0] = 0 /\ cut[N] = L
            /\ \A i \in 1..N :
                 /\ cut[i - 1] <= cut[i]
                 /\ pattern[i] = "*" =>
                      Free(i) \/ \A j \in (cut[i - 1] + 1)..cut[i] : value[j] # Matching!Slash
                 /\ pattern[i] # "*" =>
                      /\ cut[i] = cut[i - 1] + 1
                      /\ IF pattern[i] = "?" THEN value[cut[i]] # Matching!Slash
                         ELSE value[cut[i]] = pattern[i]
    <2>1. Rest(0, 0) <=>
            \E cut \in [0..N -> 0..L] :
              /\ cut[0] = 0 /\ cut[N] = L
              /\ \A i \in 1..N : Stands(i, cut[i - 1], cut[i])
      BY <1>1 DEF Rest, Segment
    <2>2. QED
      BY <1>2, <2>1
  <1>4. QED
    BY <1>3 DEF Matching!Fits, Free

LEMMA MatchShow == MatchInv => Matching!MatchIsRight
  <1> SUFFICES ASSUME MatchInv, loop = "ended"
               PROVE  verdict = Matching!Fits(pattern, value)
    BY DEF Matching!MatchIsRight
  <1>1. verdict \in BOOLEAN /\ (verdict <=> Rest(0, 0))
    BY DEF MatchInv, MatchTyped, EndIs
  <1>2. Matching!Fits(pattern, value) <=> Rest(0, 0)
    BY FitsIs DEF MatchInv
  <1>3. Matching!Fits(pattern, value) \in BOOLEAN
    BY Zenon DEF Matching!Fits
  <1>4. QED
    <2> DEFINE fit == Matching!Fits(pattern, value)
    <2>1. verdict \in {TRUE, FALSE} /\ fit \in {TRUE, FALSE} /\ (verdict <=> fit)
      BY ONLY <1>1, <1>2, <1>3
    <2> HIDE DEF fit
    <2>2. verdict = fit
      <3>1. ASSUME fit
            PROVE  verdict = fit
        <4>1. verdict # FALSE
          BY ONLY <2>1, <3>1, Zenon
        <4>2. fit # FALSE
          BY ONLY <3>1, Zenon
        <4>3. QED
          BY ONLY <2>1, <4>1, <4>2, Zenon
      <3>2. ASSUME ~fit
            PROVE  verdict = fit
        <4>1. verdict # TRUE
          BY ONLY <2>1, <3>2, Zenon
        <4>2. fit # TRUE
          BY ONLY <3>2, Zenon
        <4>3. QED
          BY ONLY <2>1, <4>1, <4>2, Zenon
      <3>3. QED
        BY <3>1, <3>2
    <2>3. QED
      BY ONLY <2>2 DEF fit

-----------------------------------------------------------------------------
(* Edits of several files.                                                   *)

Applying == {"prepare", "swap", "mark", "back", "back-record"}
Undoing == {"undo", "undo-record"}
Settling == {"settle", "settle-record"}

PatchTyped ==
  /\ content \in [File -> Patch!Text]
  /\ record \in [Patch!Id -> Patch!Record \cup {Patch!NoRecord}]
  /\ patches \in Seq(Patch!Id)
  /\ preview \in [Preview -> [status : Patch!PreviewStatus, before : [File -> Patch!Text],
                              by : Invocation \cup {NoInvocation}]]
  /\ alive \in BOOLEAN /\ gone \subseteq Patch!Id

(* The operation under way: its files, and what its step says of the record  *)
(* it is at and of the preview.                                              *)
WorkTyped ==
  \/ work = Patch!Idle
  \/ /\ work = [step |-> "latest-record", of |-> work.of, todo |-> <<>>, did |-> {},
                ok |-> TRUE]
     /\ work.of \in Patch!Id /\ alive
     /\ record[work.of].status = "applied"
  \/ /\ work = [step |-> work.step, of |-> work.of, todo |-> work.todo, did |-> work.did,
                ok |-> work.ok]
     /\ work.step \in Applying \cup Undoing \cup Settling
     /\ work.of \in Preview /\ work.ok \in BOOLEAN
     /\ work.todo \in Seq(File) /\ Members(work.todo) \subseteq Members(FilesOf[work.of])
     /\ work.todo = <<>> => work.step = "back" /\ work.ok

Ended == {"ready", "rolled-back", "undone"}
Open == {"applying", "undoing", "uncertain"}

WorkFits ==
  /\ work.step \in Applying => alive /\ preview[work.of].status = "applying"
  /\ work.step \in Undoing => alive /\ preview[work.of].status = "undoing"
  /\ work.step \in Settling =>
       /\ ~alive /\ preview[work.of].status \in Open
       /\ work.did \subseteq Preview /\ work.of \notin work.did
       /\ \A p \in work.did : preview[p].status \in Open
       /\ \A id \in Patch!Id : record[id].status # "prepared"
  /\ work.step = "prepare" =>
       /\ Unlike(work.todo)
       /\ \A x \in Members(work.todo) :
            content[x] \in Preview => content[x] = preview[work.of].before[x]
  /\ work.step = "mark" => record[Patch!CurrentId].status = "prepared"
  /\ work.step \in {"back-record", "undo-record", "settle-record"} =>
       record[Patch!CurrentId].status = "applied"

(* Previews are told apart by their invocations; one that was not computed   *)
(* is known to none.                                                         *)
PreviewsFit ==
  \A p \in Preview :
    /\ preview[p].status = "none" => preview[p] = Patch!NoPreview
    /\ preview[p].status \in {"none", "ready"} \/ preview[p].by \in Invocation
    /\ \A q \in Preview : preview[p].by = preview[q].by /\ preview[p].by \in Invocation => p = q
    /\ \A x \in File : preview[p].before[x] \in Preview =>
                         preview[preview[p].before[x]].status # "none"

(* A record that was not taken back.                                         *)
Live(id) == record[id].status \in {"prepared", "applied", "uncertain"}

(* It is of a preview that is in use, and of the file, and remembers what    *)
(* the preview does unless the user came between; the operation still has    *)
(* to come to it, or will end in doubt.                                      *)
RecordsFit ==
  \A id \in Patch!Id : Live(id) =>
    LET p == record[id].after IN
    /\ preview[p].by = id[1] /\ id[2] \in Members(FilesOf[p])
    /\ record[id].before \in Preview => record[id].before = preview[p].before[id[2]]
    /\ preview[p].status \notin Ended \cup {"none"}
    /\ work.of = p /\ work.step = "prepare" => id[2] \notin Members(work.todo)
    /\ work.of = p /\ work.step \in {"back", "back-record"} \cup Undoing \cup Settling =>
         id[2] \in Members(work.todo) \/ ~work.ok

(* A file that has the text of a prepared patch is about to be marked.       *)
PreparedFits ==
  alive => \A id \in Patch!Id :
    record[id].status = "prepared" /\ content[id[2]] = record[id].after =>
      work.step = "mark" /\ id = Patch!CurrentId

(* A preview is later than those whose text it was computed from.            *)
Ranked(rank) ==
  \A p \in Preview, x \in File :
    preview[p].before[x] \in Preview => rank[preview[p].before[x]] < rank[p]

(* What x holds, or may come to hold again, by undoing: the preview's record *)
(* is there to undo it, or is lost.                                          *)
Backed(p, x) ==
  LET id == <<preview[p].by, x>> IN
  /\ id \in Patch!Id /\ x \in Members(FilesOf[p])
  /\ \/ record[id].status = "none" /\ id \in gone
     \/ record[id].status = "applied"
     \/ record[id].status = "prepared" /\ content[x] = p

(* The previews whose texts a file has under the one it has now.             *)
Chained(rank, chain) ==
  \A x \in File :
    /\ content[x] \in Preview => content[x] \in chain[x]
    /\ \A p \in chain[x] :
         /\ content[x] \in Preview /\ rank[p] <= rank[content[x]]
         /\ Backed(p, x)
         /\ LET id == <<preview[p].by, x>> IN
            Live(id) /\ record[id].before \in Preview => record[id].before \in chain[x]
    /\ work.step \in {"back-record", "undo-record", "settle-record"} /\ x = Patch!Current =>
         work.of \notin chain[x]
    /\ work.step = "latest-record" /\ x = work.of[2] => record[work.of].after \notin chain[x]

ChainsFit ==
  \E n \in Nat : \E rank \in [Preview -> 0..n], chain \in [File -> SUBSET Preview] :
    Ranked(rank) /\ Chained(rank, chain)

PatchInv ==
  /\ PatchTyped /\ WorkTyped /\ WorkFits /\ PreviewsFit /\ RecordsFit /\ PreparedFits
  /\ ChainsFit

(* Lists of files.                                                           *)
LEMMA ListParts ==
  ASSUME NEW S, NEW s \in Seq(S)
  PROVE  /\ Len(s) \in Nat /\ Members(s) \subseteq S
         /\ Patch!ToSet(s) = Members(s)
         /\ s # <<>> => /\ Len(s) \in Nat \ {0} /\ Head(s) \in S /\ Head(s) \in Members(s)
                        /\ Tail(s) \in Seq(S)
                        /\ Members(s) = {Head(s)} \cup Members(Tail(s))
                        /\ Len(s) = 1 => Members(s) = {Head(s)}
                        /\ Len(s) # 1 => Tail(s) # <<>>
                        /\ Unlike(s) => Unlike(Tail(s)) /\ Head(s) \notin Members(Tail(s))
  <1>1. /\ Len(s) \in Nat /\ \A i \in 1..Len(s) : s[i] \in S
        /\ DOMAIN s = 1..Len(s)
    BY LenProperties, ElementOfSeq
  <1>2. Members(s) \subseteq S
    BY <1>1 DEF Members
  <1>3. Patch!ToSet(s) = Members(s)
    BY <1>1 DEF Patch!ToSet, Members
  <1>4. ASSUME s # <<>>
        PROVE  /\ Len(s) \in Nat \ {0} /\ Head(s) \in S /\ Head(s) \in Members(s)
               /\ Tail(s) \in Seq(S)
               /\ Members(s) = {Head(s)} \cup Members(Tail(s))
               /\ Len(s) = 1 => Members(s) = {Head(s)}
               /\ Len(s) # 1 => Tail(s) # <<>>
               /\ Unlike(s) => Unlike(Tail(s)) /\ Head(s) \notin Members(Tail(s))
    <2>1. /\ Tail(s) \in Seq(S) /\ Len(Tail(s)) = Len(s) - 1
          /\ \A i \in 1..Len(Tail(s)) : Tail(s)[i] = s[i + 1]
          /\ Head(s) = s[1] /\ Len(s) # 0
      BY <1>4, HeadTailProperties, EmptySeq
    <2> DEFINE rest == Tail(s)
    <2> HIDE DEF rest
    <2>2. /\ Len(rest) = Len(s) - 1 /\ \A i \in 1..Len(rest) : rest[i] = s[i + 1]
      BY <2>1 DEF rest
    <2>3. 1 \in 1..Len(s) /\ \A i \in 1..Len(rest) : i + 1 \in 1..Len(s)
      BY <1>1, <2>1, <2>2
    <2>4. \A i \in 1..Len(s) : i = 1 \/ (i - 1 \in 1..Len(rest) /\ (i - 1) + 1 = i)
      BY <1>1, <2>1, <2>2
    <2>5. Members(s) = {s[1]} \cup Members(rest)
      <3>1. ASSUME NEW i \in 1..Len(s)
            PROVE  s[i] \in {s[1]} \cup Members(rest)
        <4>1. CASE i = 1
          BY <4>1
        <4>2. CASE i # 1
          <5>1. i - 1 \in 1..Len(rest) /\ (i - 1) + 1 = i
            BY <2>4, <4>2
          <5>2. rest[i - 1] = s[i]
            BY <2>2, <5>1
          <5>3. QED
            BY <5>1, <5>2 DEF Members
        <4>3. QED
          BY <4>1, <4>2
      <3>2. ASSUME NEW i \in 1..Len(rest)
            PROVE  rest[i] \in Members(s)
        BY <2>2, <2>3 DEF Members
      <3>3. s[1] \in Members(s)
        BY <2>3 DEF Members
      <3>4. QED
        BY <3>1, <3>2, <3>3 DEF Members
    <2>6. Len(s) = 1 => Members(rest) = {}
      BY <1>1, <2>2 DEF Members
    <2>7. Len(s) # 1 => rest # <<>>
      <3>1. Len(s) # 1 => Len(rest) # 0
        BY <1>1, <2>1, <2>2
      <3>2. Len(<<>>) = 0
        OBVIOUS
      <3>3. QED
        BY <3>1, <3>2
    <2>8. Unlike(s) => Unlike(rest) /\ s[1] \notin Members(rest)
      <3>1. SUFFICES ASSUME Unlike(s) PROVE Unlike(rest) /\ s[1] \notin Members(rest)
        OBVIOUS
      <3>2. ASSUME NEW i \in 1..Len(rest), NEW j \in 1..Len(rest), rest[i] = rest[j]
            PROVE  i = j
        <4>1. i + 1 = j + 1
          BY <2>2, <2>3, <3>1, <3>2 DEF Unlike
        <4>2. QED
          BY <4>1
      <3>3. ASSUME NEW i \in 1..Len(rest), rest[i] = s[1]
            PROVE  FALSE
        <4>1. i + 1 = 1
          BY <2>2, <2>3, <3>1, <3>3 DEF Unlike
        <4>2. QED
          BY <4>1
      <3>4. QED
        BY <3>2, <3>3 DEF Unlike, Members
    <2>9. Head(s) \in S /\ Head(s) \in Members(s) /\ Len(s) \in Nat \ {0}
      BY <1>1, <2>1, <2>3, <2>5
    <2>10. QED
      BY <2>1, <2>5, <2>6, <2>7, <2>8, <2>9 DEF rest
  <1>5. QED
    BY <1>1, <1>2, <1>3, <1>4

LEMMA ListReversed ==
  ASSUME NEW S, NEW s \in Seq(S)
  PROVE  /\ Patch!Reverse(s) \in Seq(S) /\ Members(Patch!Reverse(s)) = Members(s)
         /\ s # <<>> => Patch!Reverse(s) # <<>>
  <1> DEFINE back == Patch!Reverse(s)
  <1>1. Len(s) \in Nat /\ \A i \in 1..Len(s) : s[i] \in S
    BY LenProperties, ElementOfSeq
  <1>2. back = [i \in 1..Len(s) |-> s[(Len(s) - i) + 1]]
    BY DEF Patch!Reverse
  <1>3. \A i \in 1..Len(s) : (Len(s) - i) + 1 \in 1..Len(s)
                             /\ (Len(s) - ((Len(s) - i) + 1)) + 1 = i
    BY <1>1
  <1>4. back \in [1..Len(s) -> S]
    BY <1>1, <1>2, <1>3
  <1>5. back \in Seq(S) /\ Len(back) = Len(s)
    BY <1>1, <1>4, SeqDef, LenProperties
  <1>6. Members(back) = Members(s)
    <2> HIDE DEF back
    <2>1. \A i \in 1..Len(s) : back[i] = s[(Len(s) - i) + 1]
      BY <1>2
    <2>2. \A i \in 1..Len(s) : s[i] = back[(Len(s) - i) + 1]
      BY <1>3, <2>1
    <2>3. ASSUME NEW i \in 1..Len(s)
          PROVE  back[i] \in Members(s) /\ s[i] \in Members(back)
      <3>1. (Len(s) - i) + 1 \in 1..Len(s)
        BY <1>3
      <3>2. back[i] = s[(Len(s) - i) + 1] /\ s[i] = back[(Len(s) - i) + 1]
        BY <2>1, <2>2
      <3>3. QED
        BY <1>5, <3>1, <3>2 DEF Members
    <2>4. QED
      BY <1>5, <2>3 DEF Members
  <1>7. s # <<>> => back # <<>>
    <2>1. s # <<>> => Len(s) # 0
      BY EmptySeq
    <2>2. Len(<<>>) = 0
      OBVIOUS
    <2> HIDE DEF back
    <2>3. QED
      BY <1>5, <2>1, <2>2
  <1>8. QED
    BY <1>5, <1>6, <1>7

LEMMA ListJoined ==
  ASSUME NEW S, NEW s \in Seq(S), NEW t \in Seq(S)
  PROVE  s \o t \in Seq(S) /\ Members(s \o t) = Members(s) \cup Members(t)
  <1>1. /\ s \o t \in Seq(S) /\ Len(s \o t) = Len(s) + Len(t)
        /\ \A i \in 1..(Len(s) + Len(t)) :
             (s \o t)[i] = IF i <= Len(s) THEN s[i] ELSE t[i - Len(s)]
    BY ConcatProperties
  <1>2. Len(s) \in Nat /\ Len(t) \in Nat
    BY LenProperties
  <1> DEFINE both == s \o t
  <1> HIDE DEF both
  <1>3. /\ Len(both) = Len(s) + Len(t)
        /\ \A i \in 1..Len(both) : both[i] = IF i <= Len(s) THEN s[i] ELSE t[i - Len(s)]
    BY <1>1 DEF both
  <1>4. Members(both) \subseteq Members(s) \cup Members(t)
    <2>1. \A i \in 1..Len(both) : 
            i \in 1..Len(s) \/ (~(i <= Len(s)) /\ i - Len(s) \in 1..Len(t))
      BY <1>1, <1>2 DEF both
    <2>2. ASSUME NEW i \in 1..Len(both)
          PROVE  both[i] \in Members(s) \cup Members(t)
      <3>1. CASE i \in 1..Len(s)
        BY <1>3, <3>1 DEF Members
      <3>2. CASE ~(i <= Len(s)) /\ i - Len(s) \in 1..Len(t)
        <4>1. both[i] = t[i - Len(s)]
          BY <1>3, <3>2
        <4>2. QED
          BY <3>2, <4>1 DEF Members
      <3>3. QED
        BY <2>1, <3>1, <3>2
    <2>3. QED
      BY <2>2 DEF Members
  <1>5. Members(s) \subseteq Members(both)
    <2>1. \A i \in 1..Len(s) : i \in 1..Len(both) /\ i <= Len(s)
      BY <1>2, <1>3
    <2>2. QED
      BY <1>3, <2>1 DEF Members
  <1>6. Members(t) \subseteq Members(both)
    <2>1. \A i \in 1..Len(t) : /\ i + Len(s) \in 1..Len(both) /\ ~(i + Len(s) <= Len(s))
                               /\ (i + Len(s)) - Len(s) = i
      BY <1>2, <1>3
    <2>2. QED
      BY <1>3, <2>1 DEF Members
  <1>7. QED
    BY <1>1, <1>4, <1>5, <1>6 DEF both

LEMMA ThoseAre ==
  ASSUME NEW S, NEW s \in Seq(S), NEW M
  PROVE  Patch!Those(s, M) \in Seq(S) /\ Members(Patch!Those(s, M)) = Members(s) \cap M
  <1> DEFINE Kept(held) == held = [n \in 0..Len(s) |->
               IF n = 0 THEN <<>>
               ELSE IF s[n] \in M THEN Append(held[n - 1], s[n]) ELSE held[n - 1]]
             chosen == CHOOSE held : Kept(held)
             K == {n \in 1..Len(s) : s[n] \in M}
  <1>1. Patch!Those(s, M) = chosen[Len(s)]
    BY DEF Patch!Those
  <1>2. Len(s) \in Nat
    BY LenProperties
  <1>3. \A held : KeepsOf(s, K, Len(s), held) <=> Kept(held)
    <2>1. ASSUME NEW held, NEW n \in 0..Len(s)
          PROVE  (IF n = 0 THEN <<>>
                  ELSE IF n \in K THEN Append(held[n - 1], s[n]) ELSE held[n - 1])
                 = (IF n = 0 THEN <<>>
                    ELSE IF s[n] \in M THEN Append(held[n - 1], s[n]) ELSE held[n - 1])
      BY <1>2
    <2> HIDE DEF K
    <2>2. QED
      BY <2>1 DEF KeepsOf
  <1>4. KeepsOf(s, K, Len(s), chosen)
    <2>1. \E held : Kept(held)
      BY <1>2, <1>3, KeepsExist
    <2> HIDE DEF Kept
    <2>2. Kept(chosen)
      BY <2>1
    <2> HIDE DEF chosen
    <2>3. QED
      BY <1>3, <2>2
  <1> HIDE DEF chosen, K
  <1>5. chosen[Len(s)] \in Seq(S) /\ Members(chosen[Len(s)]) = PlacesIn(s, K)
    BY <1>4, KeepsAre
  <1>6. PlacesIn(s, K) = Members(s) \cap M
    BY DEF Members, PlacesIn, K
  <1>7. QED
    BY <1>1, <1>5, <1>6

(* The files of a preview; what is no preview's text.                        *)
LEMMA PreviewFiles ==
  /\ \A p \in Preview : /\ FilesOf[p] \in Seq(File) /\ FilesOf[p] # <<>>
                        /\ Members(FilesOf[p]) \subseteq File /\ Unlike(FilesOf[p])
  /\ "base" \notin Preview /\ "user" \notin Preview /\ "gone" \notin Preview
  /\ NoInvocation \notin Invocation
  <1>1. ASSUME NEW p \in Preview
        PROVE  /\ FilesOf[p] \in Seq(File) /\ FilesOf[p] # <<>>
               /\ Members(FilesOf[p]) \subseteq File /\ Unlike(FilesOf[p])
    <2>1. FilesOf[p] \in Seq(File) /\ FilesOf[p] # <<>>
      BY InstanceAssumption
    <2>2. DOMAIN FilesOf[p] = 1..Len(FilesOf[p])
      BY <2>1, LenProperties
    <2>3. Unlike(FilesOf[p])
      BY <2>2, InstanceAssumption DEF Unlike
    <2>4. QED
      BY <2>1, <2>3, ListParts
  <1>2. QED
    BY <1>1, InstanceAssumption

LEMMA RecordTypes ==
  ASSUME PatchTyped, NEW id \in Patch!Id
  PROVE  /\ id = <<id[1], id[2]>> /\ id[1] \in Invocation /\ id[2] \in File
         /\ record[id].status \in {"none", "prepared", "applied", "undone", "aborted",
                                   "uncertain"}
         /\ record[id].status # "none" =>
              /\ record[id] \in Patch!Record
              /\ record[id].before \in Patch!Text /\ record[id].after \in Preview
         /\ record[id].status = "none" => record[id] = Patch!NoRecord
  BY DEF PatchTyped, Patch!Id, Patch!Record, Patch!NoRecord

(* One record gets another status.                                           *)
LEMMA RecordSet ==
  ASSUME PatchTyped, NEW id \in Patch!Id, record[id].status # "none",
         NEW s \in {"prepared", "applied", "undone", "aborted", "uncertain"},
         Patch!SetRecord(id, s)
  PROVE  /\ record' \in [Patch!Id -> Patch!Record \cup {Patch!NoRecord}]
         /\ \A j \in Patch!Id : j # id => record'[j] = record[j]
         /\ record'[id].status = s /\ record'[id].before = record[id].before
         /\ record'[id].after = record[id].after
  <1>1. record' = [record EXCEPT ![id].status = s]
    BY DEF Patch!SetRecord
  <1>2. record[id] \in Patch!Record
    BY RecordTypes
  <1> DEFINE new == [record[id] EXCEPT !.status = s]
  <1>3. new \in Patch!Record /\ new.status = s /\ new.before = record[id].before
        /\ new.after = record[id].after
    BY <1>2 DEF Patch!Record
  <1>4. record' = [record EXCEPT ![id] = new]
    BY <1>1
  <1> HIDE DEF new
  <1>5. QED
    BY <1>3, <1>4 DEF PatchTyped

(* A preview gets another status.                                            *)
LEMMA StatusSet ==
  ASSUME PatchTyped, NEW p \in Preview, NEW s \in Patch!PreviewStatus, Patch!SetStatus(p, s)
  PROVE  /\ preview' \in [Preview -> [status : Patch!PreviewStatus,
                                      before : [File -> Patch!Text],
                                      by : Invocation \cup {NoInvocation}]]
         /\ \A q \in Preview : /\ preview'[q].by = preview[q].by
                               /\ preview'[q].before = preview[q].before
                               /\ q # p => preview'[q] = preview[q]
         /\ preview'[p].status = s
  <1>1. preview' = [preview EXCEPT ![p].status = s]
    BY DEF Patch!SetStatus
  <1> DEFINE new == [preview[p] EXCEPT !.status = s]
             Kind == [status : Patch!PreviewStatus, before : [File -> Patch!Text],
                      by : Invocation \cup {NoInvocation}]
  <1>2. preview \in [Preview -> Kind]
    BY DEF PatchTyped
  <1>3. new \in Kind /\ new.status = s /\ new.before = preview[p].before
        /\ new.by = preview[p].by
    BY <1>2
  <1>4. preview' = [preview EXCEPT ![p] = new]
    BY <1>1
  <1> HIDE DEF new, Kind
  <1>5. /\ preview' \in [Preview -> Kind]
        /\ \A q \in Preview : /\ preview'[q].by = preview[q].by
                              /\ preview'[q].before = preview[q].before
                              /\ q # p => preview'[q] = preview[q]
        /\ preview'[p].status = s
    BY <1>2, <1>3, <1>4
  <1>6. QED
    BY <1>5 DEF Kind

LEMMA PatchStay == UNCHANGED patchVars => (PatchInv => PatchInv')
  <1> SUFFICES ASSUME UNCHANGED patchVars, PatchInv
               PROVE  PatchInv'
    OBVIOUS
  <1>1. UNCHANGED <<content, record, patches, preview, work, alive, gone>>
    BY DEF patchVars
  <1>2. Patch!Current' = Patch!Current /\ Patch!CurrentId' = Patch!CurrentId
    BY <1>1 DEF Patch!Current, Patch!CurrentId, Patch!IdOf
  <1>3. PatchTyped' /\ WorkTyped' /\ PreviewsFit'
    BY <1>1 DEF PatchInv, PatchTyped, WorkTyped, PreviewsFit
  <1>4. WorkFits' /\ PreparedFits'
    BY <1>1, <1>2 DEF PatchInv, WorkFits, PreparedFits
  <1>5. RecordsFit'
    BY <1>1 DEF PatchInv, RecordsFit, Live
  <1>6. ChainsFit'
    <2>1. PICK n \in Nat : \E rank \in [Preview -> 0..n], chain \in [File -> SUBSET Preview] :
            Ranked(rank) /\ Chained(rank, chain)
      BY DEF PatchInv, ChainsFit
    <2>2. PICK rank \in [Preview -> 0..n], chain \in [File -> SUBSET Preview] :
            Ranked(rank) /\ Chained(rank, chain)
      BY <2>1
    <2>3. Ranked(rank)'
      BY <1>1, <2>2 DEF Ranked
    <2>4. Chained(rank, chain)'
      BY <1>1, <1>2, <2>2 DEF Chained, Backed, Live
    <2>5. QED
      BY <2>3, <2>4 DEF ChainsFit
  <1>7. QED
    BY <1>3, <1>4, <1>5, <1>6 DEF PatchInv

LEMMA PatchBegin == Patch!Init => PatchInv
  <1> SUFFICES ASSUME Patch!Init
               PROVE  PatchInv
    OBVIOUS
  <1>1. /\ content = [x \in File |-> "base"]
        /\ record = [id \in Patch!Id |-> Patch!NoRecord]
        /\ patches = <<>>
        /\ preview = [p \in Preview |-> Patch!NoPreview]
        /\ work = Patch!Idle /\ alive = TRUE /\ gone = {}
    BY DEF Patch!Init
  <1>2. Patch!NoRecord.status = "none" /\ Patch!Idle.step = "idle"
        /\ Patch!NoPreview.status = "none" /\ Patch!NoPreview.by = NoInvocation
        /\ Patch!NoPreview.before = [x \in File |-> "gone"]
    BY DEF Patch!NoRecord, Patch!Idle, Patch!NoPreview
  <1>3. PatchTyped
    <2>1. patches \in Seq(Patch!Id)
      BY <1>1
    <2>2. Patch!NoPreview \in [status : Patch!PreviewStatus, before : [File -> Patch!Text],
                               by : Invocation \cup {NoInvocation}]
      BY DEF Patch!NoPreview, Patch!PreviewStatus, Patch!Text
    <2>3. content \in [File -> Patch!Text]
      BY <1>1 DEF Patch!Text
    <2>4. QED
      BY <1>1, <2>1, <2>2, <2>3 DEF PatchTyped
  <1>4. WorkTyped /\ WorkFits
    BY <1>1, <1>2 DEF WorkTyped, WorkFits, Applying, Undoing, Settling
  <1>5. PreviewsFit
    BY <1>1, <1>2, PreviewFiles DEF PreviewsFit
  <1>6. \A id \in Patch!Id : record[id].status = "none"
    BY <1>1, <1>2
  <1>7. RecordsFit /\ PreparedFits
    BY <1>6 DEF RecordsFit, PreparedFits, Live
  <1>8. ChainsFit
    <2> DEFINE rank == [p \in Preview |-> 0]
               chain == [x \in File |-> {}]
    <2>1. rank \in [Preview -> 0..0] /\ chain \in [File -> SUBSET Preview]
      OBVIOUS
    <2>2. \A p \in Preview, x \in File : preview[p].before[x] \notin Preview
      BY <1>1, <1>2, PreviewFiles
    <2>3. \A x \in File : content[x] \notin Preview /\ chain[x] = {}
      BY <1>1, PreviewFiles
    <2> HIDE DEF rank, chain
    <2>4. Ranked(rank)
      BY <2>2 DEF Ranked
    <2>5. Chained(rank, chain)
      BY <1>1, <1>2, <2>3 DEF Chained
    <2>6. QED
      BY <2>1, <2>4, <2>5 DEF ChainsFit
  <1>9. QED
    BY <1>3, <1>4, <1>5, <1>7, <1>8 DEF PatchInv

(* The steps and what they do to the chains.  A step that leaves the files   *)
(* as they are leaves the chains too, if it loses no record a text depends   *)
(* on.                                                                       *)
LEMMA ChainsKeep ==
  ASSUME PatchInv, PatchTyped', content' = content, gone \subseteq gone',
         \A p \in Preview : preview'[p].by = preview[p].by
                            /\ preview'[p].before = preview[p].before,
         \A id \in Patch!Id :
           \/ record'[id] = record[id]
           \/ record'[id].status = "applied" /\ Live(id)
                /\ record'[id].before = record[id].before
           \/ record'[id].status = "none" /\ id \in gone'
           \/ record[id].status = "prepared" /\ content[id[2]] # record[id].after
           \/ work.step \in {"prepare", "back-record", "undo-record", "settle-record"}
                /\ id = Patch!CurrentId
           \/ work.step = "latest-record" /\ id = work.of,
         work'.step \notin {"back-record", "undo-record", "settle-record", "latest-record"}
  PROVE  ChainsFit'
  <1>1. PICK n \in Nat : \E rank \in [Preview -> 0..n], chain \in [File -> SUBSET Preview] :
          Ranked(rank) /\ Chained(rank, chain)
    BY DEF PatchInv, ChainsFit
  <1>2. PICK rank \in [Preview -> 0..n], chain \in [File -> SUBSET Preview] :
          Ranked(rank) /\ Chained(rank, chain)
    BY <1>1
  <1>3. Ranked(rank)'
    BY <1>2 DEF Ranked
  <1>4. ASSUME NEW x \in File, NEW p \in chain[x]
        PROVE  LET id == <<preview[p].by, x>> IN
               /\ id \in Patch!Id
               /\ \/ record'[id] = record[id]
                  \/ record'[id].status = "applied" /\ Live(id)
                       /\ record'[id].before = record[id].before
                  \/ record'[id].status = "none" /\ id \in gone'
    <2> DEFINE id == <<preview[p].by, x>>
    <2>1. /\ p \in Preview /\ id \in Patch!Id /\ id[1] = preview[p].by /\ id[2] = x
          /\ content[x] \in Preview /\ rank[p] <= rank[content[x]]
          /\ x \in Members(FilesOf[p])
          /\ record[id].status = "prepared" => content[x] = p
      BY <1>2 DEF Chained, Backed
    <2>2. preview[p].by \in Invocation
      BY <2>1, RecordTypes DEF PatchInv
    <2> HIDE DEF id
    <2>3. ASSUME record[id].status = "prepared", content[id[2]] # record[id].after
          PROVE  FALSE
      <3>1. record[id].after \in Preview /\ preview[record[id].after].by = id[1]
        BY <2>1, <2>3, RecordTypes DEF PatchInv, RecordsFit, Live
      <3>2. record[id].after = p
        BY <2>1, <2>2, <3>1 DEF PatchInv, PreviewsFit
      <3>3. QED
        BY <2>1, <2>3, <3>2
    <2>4. ASSUME work.step \in {"prepare", "back-record", "undo-record", "settle-record"},
                 id = Patch!CurrentId
          PROVE  FALSE
      <3>1. work.of \in Preview /\ work.todo \in Seq(File) /\ work.todo # <<>>
        BY <2>4 DEF PatchInv, WorkTyped, Patch!Idle
      <3>2. id = <<preview[work.of].by, Patch!Current>>
        BY <2>4 DEF Patch!CurrentId, Patch!IdOf
      <3>3. p = work.of /\ x = Patch!Current
        <4>1. preview[work.of].by = preview[p].by /\ x = Patch!Current
          BY <2>1, <3>2
        <4>2. QED
          BY <2>1, <2>2, <3>1, <4>1 DEF PatchInv, PreviewsFit
      <3>4. work.step = "prepare"
        BY <1>2, <2>4, <3>3 DEF Chained
      <3>5. content[x] = preview[p].before[x]
        <4>1. x \in Members(work.todo)
          BY <3>1, <3>3, ListParts DEF Patch!Current
        <4>2. QED
          BY <2>1, <3>3, <3>4, <4>1 DEF PatchInv, WorkFits
      <3>6. rank[content[x]] < rank[p]
        BY <1>2, <2>1, <3>5 DEF Ranked
      <3>7. rank[p] \in Nat /\ rank[content[x]] \in Nat
        BY <1>1, <1>2, <2>1
      <3>8. QED
        BY <2>1, <3>6, <3>7
    <2>5. ASSUME work.step = "latest-record", id = work.of
          PROVE  FALSE
      <3>1. record[id].status = "applied" /\ record[work.of].after \notin chain[x]
        BY <1>2, <2>1, <2>5 DEF PatchInv, WorkTyped, Patch!Idle, Applying, Undoing, Settling,
                                Chained
      <3>2. record[id].after \in Preview /\ preview[record[id].after].by = id[1]
        BY <2>1, <3>1, RecordTypes DEF PatchInv, RecordsFit, Live
      <3>3. record[id].after = p
        BY <2>1, <2>2, <3>2 DEF PatchInv, PreviewsFit
      <3>4. QED
        BY <2>5, <3>1, <3>3
    <2>6. QED
      BY <2>1, <2>3, <2>4, <2>5 DEF id
  <1>5. ASSUME NEW x \in File
        PROVE  /\ content'[x] \in Preview => content'[x] \in chain[x]
               /\ \A p \in chain[x] :
                    /\ content'[x] \in Preview /\ rank[p] <= rank[content'[x]]
                    /\ Backed(p, x)'
                    /\ LET id == <<preview'[p].by, x>> IN
                       record'[id].status \in {"prepared", "applied", "uncertain"}
                      /\ record'[id].before \in Preview =>
                         record'[id].before \in chain[x]
    <2>1. content'[x] \in Preview => content'[x] \in chain[x]
      BY <1>2 DEF Chained
    <2>2. ASSUME NEW p \in chain[x]
          PROVE  /\ content'[x] \in Preview /\ rank[p] <= rank[content'[x]]
                 /\ Backed(p, x)'
                 /\ LET id == <<preview'[p].by, x>> IN
                    record'[id].status \in {"prepared", "applied", "uncertain"}
                      /\ record'[id].before \in Preview =>
                      record'[id].before \in chain[x]
      <3> DEFINE id == <<preview[p].by, x>>
      <3>1. /\ p \in Preview /\ content[x] \in Preview /\ rank[p] <= rank[content[x]]
            /\ id \in Patch!Id /\ x \in Members(FilesOf[p])
            /\ \/ record[id].status = "none" /\ id \in gone
               \/ record[id].status = "applied"
               \/ record[id].status = "prepared" /\ content[x] = p
            /\ Live(id) /\ record[id].before \in Preview => record[id].before \in chain[x]
        BY <1>2 DEF Chained, Backed
      <3>2. /\ \/ record'[id] = record[id]
               \/ record'[id].status = "applied" /\ Live(id)
                    /\ record'[id].before = record[id].before
               \/ record'[id].status = "none" /\ id \in gone'
        BY <1>4
      <3>3. preview'[p].by = preview[p].by
        BY <3>1
      <3>4. /\ \/ record'[id].status = "none" /\ id \in gone'
               \/ record'[id].status = "applied"
               \/ record'[id].status = "prepared" /\ content[x] = p
            /\ record'[id].status \in {"prepared", "applied", "uncertain"}
                 /\ record'[id].before \in Preview => record'[id].before \in chain[x]
        BY <3>1, <3>2 DEF Live
      <3> HIDE DEF id
      <3>5. Backed(p, x)'
        <4>1. Patch!Id' = Patch!Id
          BY DEF Patch!Id
        <4>2. QED
          BY <3>1, <3>3, <3>4 DEF Backed, id
      <3>6. QED
        BY <3>1, <3>3, <3>4, <3>5 DEF id
    <2>3. QED
      BY <2>1, <2>2
  <1>6. Chained(rank, chain)'
    <2>1. Patch!Current' = Head(work'.todo)
      BY DEF Patch!Current
    <2>2. QED
      BY <1>5, <2>1 DEF Chained, Live
  <1>7. QED
    BY <1>3, <1>6 DEF ChainsFit

(* A file is put back: it has come one text down its chain.                  *)
LEMMA ChainsBack ==
  ASSUME PatchInv, NEW id \in Patch!Id, record[id].status = "applied",
         content[id[2]] = record[id].after,
         content' = [content EXCEPT ![id[2]] = record[id].before],
         UNCHANGED <<record, preview, gone>>,
         \/ /\ work'.step \in {"back-record", "undo-record", "settle-record"}
            /\ Patch!Current' = id[2] /\ work'.of = record[id].after
         \/ work'.step = "latest-record" /\ work'.of = id
  PROVE  ChainsFit'
  <1>1. PICK n \in Nat : \E rank \in [Preview -> 0..n], chain \in [File -> SUBSET Preview] :
          Ranked(rank) /\ Chained(rank, chain)
    BY DEF PatchInv, ChainsFit
  <1>2. PICK rank \in [Preview -> 0..n], chain \in [File -> SUBSET Preview] :
          Ranked(rank) /\ Chained(rank, chain)
    BY <1>1
  <1> DEFINE x == id[2]
             p == record[id].after
             b == record[id].before
             cut == [chain EXCEPT ![x] = IF b \in Preview
                                         THEN {q \in chain[x] : rank[q] <= rank[b]} ELSE {}]
  <1>3. /\ x \in File /\ id = <<id[1], x>> /\ id[1] \in Invocation /\ p \in Preview
        /\ b \in Patch!Text
    BY RecordTypes DEF PatchInv
  <1>4. /\ preview[p].by = id[1]
        /\ b \in Preview => b = preview[p].before[x]
    BY RecordTypes DEF PatchInv, RecordsFit, Live
  <1>5. p \in chain[x] /\ (b \in Preview => b \in chain[x])
    BY <1>2, <1>3, <1>4 DEF Chained, Live
  <1>6. b \in Preview => rank[b] < rank[p]
    BY <1>2, <1>3, <1>4 DEF Ranked
  <1>7. \A q \in Preview : rank[q] \in Nat
    BY <1>1, <1>2
  <1>8. PICK new \in [File -> SUBSET Preview] :
           /\ \A z \in File : new[z] \subseteq chain[z]
           /\ \A q \in new[x] : b \in Preview /\ rank[q] <= rank[b]
           /\ b \in Preview => b \in new[x]
           /\ p \notin new[x]
           /\ \A z \in File : z # x => new[z] = chain[z]
           /\ \A q \in chain[x] : b \in Preview /\ rank[q] <= rank[b] => q \in new[x]
    <2>1. /\ \A z \in File : cut[z] \subseteq chain[z]
          /\ \A q \in cut[x] : b \in Preview /\ rank[q] <= rank[b]
          /\ b \in Preview => b \in cut[x]
          /\ p \notin cut[x]
          /\ cut \in [File -> SUBSET Preview]
          /\ \A z \in File : z # x => cut[z] = chain[z]
      BY <1>2, <1>3, <1>5, <1>6, <1>7
    <2>2. \A q \in chain[x] : b \in Preview /\ rank[q] <= rank[b] => q \in cut[x]
      BY <1>3
    <2> HIDE DEF x, p, b, cut
    <2>3. QED
      BY <2>1, <2>2
  <1>10. content'[x] = b /\ \A z \in File : z # x => content'[z] = content[z]
    BY <1>3 DEF PatchInv, PatchTyped
  <1> HIDE DEF x, p, b, cut
  <1>11. ASSUME NEW z \in File, NEW q \in new[z]
         PROVE  /\ content'[z] \in Preview /\ rank[q] <= rank[content'[z]]
                /\ Backed(q, z)'
                /\ LET j == <<preview[q].by, z>> IN
                   Live(j) /\ record[j].before \in Preview => record[j].before \in new[z]
    <2> DEFINE j == <<preview[q].by, z>>
    <2>1. /\ q \in chain[z] /\ q \in Preview /\ content[z] \in Preview
          /\ j \in Patch!Id /\ z \in Members(FilesOf[q])
          /\ \/ record[j].status = "none" /\ j \in gone
             \/ record[j].status = "applied"
             \/ record[j].status = "prepared" /\ content[z] = q
          /\ Live(j) /\ record[j].before \in Preview => record[j].before \in chain[z]
      BY <1>2, <1>8 DEF Chained, Backed
    <2>2. content'[z] \in Preview /\ rank[q] <= rank[content'[z]]
      <3>1. CASE z = x
        BY <1>8, <1>10, <3>1
      <3>2. CASE z # x
        BY <1>2, <1>10, <2>1, <3>2 DEF Chained
      <3>3. QED
        BY <3>1, <3>2
    <2>3. \/ record[j].status = "none" /\ j \in gone
          \/ record[j].status = "applied"
          \/ record[j].status = "prepared" /\ content'[z] = q
      <3>1. CASE z = x
        <4>1. content[x] = p
          BY DEF x, p
        <4>2. QED
          BY <1>8, <2>1, <3>1, <4>1
      <3>2. CASE z # x
        BY <1>10, <2>1, <3>2
      <3>3. QED
        BY <3>1, <3>2
    <2>4. Live(j) /\ record[j].before \in Preview => record[j].before \in new[z]
      <3>1. CASE z = x
        <4>1. SUFFICES ASSUME Live(j), record[j].before \in Preview
                       PROVE  record[j].before \in new[x]
          BY <3>1
        <4>2. /\ j[1] = preview[q].by /\ j[2] = x /\ preview[q].by \in Invocation
              /\ record[j].after \in Preview
          BY <2>1, <3>1, <4>1, RecordTypes DEF PatchInv, Live
        <4>3. record[j].after = q
          BY <2>1, <4>1, <4>2 DEF PatchInv, RecordsFit, PreviewsFit
        <4>4. record[j].before = preview[q].before[x]
          BY <2>1, <4>1, <4>2, <4>3 DEF PatchInv, RecordsFit
        <4>5. rank[record[j].before] < rank[q]
          BY <1>2, <1>3, <2>1, <4>1, <4>4 DEF Ranked, x
        <4>6. rank[q] <= rank[b] /\ b \in Preview
          BY <1>8, <3>1
        <4>7. rank[record[j].before] <= rank[b]
          BY <1>7, <2>1, <4>1, <4>5, <4>6
        <4>8. record[j].before \in chain[x]
          BY <2>1, <3>1, <4>1
        <4>9. QED
          BY <1>8, <4>6, <4>7, <4>8
      <3>2. CASE z # x
        BY <1>8, <2>1, <3>2
      <3>3. QED
        BY <3>1, <3>2
    <2> HIDE DEF j
    <2>5. Backed(q, z)'
      <3>1. Patch!Id' = Patch!Id
        BY DEF Patch!Id
      <3>2. QED
        BY <2>1, <2>3, <3>1 DEF Backed, j
    <2>6. QED
      BY <2>2, <2>4, <2>5 DEF j
  <1>12. \A z \in File : content'[z] \in Preview => content'[z] \in new[z]
    <2>1. ASSUME NEW z \in File, content'[z] \in Preview
          PROVE  content'[z] \in new[z]
      <3>1. CASE z = x
        BY <1>8, <1>10, <2>1, <3>1
      <3>2. CASE z # x
        BY <1>2, <1>8, <1>10, <2>1, <3>2 DEF Chained
      <3>3. QED
        BY <3>1, <3>2
    <2>2. QED
      BY <2>1
  <1>13. Ranked(rank)'
    BY <1>2 DEF Ranked
  <1>14. Chained(rank, new)'
    <2>1. ASSUME NEW z \in File
          PROVE  /\ work'.step \in {"back-record", "undo-record", "settle-record"}
                      /\ z = Patch!Current' => work'.of \notin new[z]
                 /\ work'.step = "latest-record" /\ z = work'.of[2] =>
                      record'[work'.of].after \notin new[z]
      BY <1>8 DEF x, p
    <2>2. \A z \in File : \A q \in new[z] :
            LET j == <<preview'[q].by, z>> IN
            record'[j].status \in {"prepared", "applied", "uncertain"}
              /\ record'[j].before \in Preview => record'[j].before \in new[z]
      BY <1>11 DEF Live
    <2>3. QED
      BY <1>11, <1>12, <2>1, <2>2 DEF Chained, Live
  <1>15. QED
    BY <1>8, <1>13, <1>14 DEF ChainsFit

(* The user's text, or none: nothing is under it.                            *)
LEMMA ChainsCut ==
  ASSUME PatchInv, NEW x \in File, NEW t, t \notin Preview,
         content' = [content EXCEPT ![x] = t], UNCHANGED <<record, preview, gone>>,
         work' = work \/ work' = Patch!Idle
  PROVE  ChainsFit'
  <1>1. PICK n \in Nat : \E rank \in [Preview -> 0..n], chain \in [File -> SUBSET Preview] :
          Ranked(rank) /\ Chained(rank, chain)
    BY DEF PatchInv, ChainsFit
  <1>2. PICK rank \in [Preview -> 0..n], chain \in [File -> SUBSET Preview] :
          Ranked(rank) /\ Chained(rank, chain)
    BY <1>1
  <1> DEFINE new == [chain EXCEPT ![x] = {}]
  <1>3. /\ content'[x] = t /\ \A z \in File : z # x => content'[z] = content[z]
        /\ new[x] = {} /\ \A z \in File : z # x => new[z] = chain[z]
        /\ new \in [File -> SUBSET Preview]
    BY <1>2 DEF PatchInv, PatchTyped
  <1> HIDE DEF new
  <1>4. Ranked(rank)'
    BY <1>2 DEF Ranked
  <1>5. Chained(rank, new)'
    <2>1. ASSUME NEW z \in File, NEW q \in new[z]
          PROVE  /\ content'[z] \in Preview /\ rank[q] <= rank[content'[z]]
                 /\ Backed(q, z)'
                 /\ LET j == <<preview'[q].by, z>> IN
                    record'[j].status \in {"prepared", "applied", "uncertain"}
                      /\ record'[j].before \in Preview => record'[j].before \in new[z]
      <3>1. z # x /\ q \in chain[z] /\ content'[z] = content[z]
        BY <1>3
      <3>2. Patch!Id' = Patch!Id
        BY DEF Patch!Id
      <3>3. Backed(q, z)'
        BY <1>2, <3>1, <3>2 DEF Chained, Backed
      <3>4. QED
        BY <1>2, <1>3, <3>1, <3>3 DEF Chained, Live
    <2>2. ASSUME NEW z \in File, content'[z] \in Preview
          PROVE  content'[z] \in new[z]
      <3>1. z # x /\ content'[z] = content[z]
        BY <1>3, <2>2
      <3>2. QED
        BY <1>2, <1>3, <2>2, <3>1 DEF Chained
    <2>3. ASSUME NEW z \in File
          PROVE  /\ work'.step \in {"back-record", "undo-record", "settle-record"}
                      /\ z = Patch!Current' => work'.of \notin new[z]
                 /\ work'.step = "latest-record" /\ z = work'.of[2] =>
                      record'[work'.of].after \notin new[z]
      <3>1. CASE work' = Patch!Idle
        BY <3>1 DEF Patch!Idle
      <3>2. CASE work' = work
        <4>1. Patch!Current' = Patch!Current
          BY <3>2 DEF Patch!Current
        <4>2. QED
          BY <1>2, <1>3, <3>2, <4>1 DEF Chained
      <3>3. QED
        BY <3>1, <3>2
    <2>4. QED
      BY <2>1, <2>2, <2>3 DEF Chained, Live
  <1>6. QED
    BY <1>3, <1>4, <1>5 DEF ChainsFit

(* A preview's text comes over what the preview was computed from.           *)
LEMMA ChainsGrow ==
  ASSUME PatchInv, work.step = "swap", record[Patch!CurrentId].status = "prepared",
         content[Patch!Current] = record[Patch!CurrentId].before,
         content' = [content EXCEPT ![Patch!Current] = work.of],
         UNCHANGED <<record, preview, gone>>, work'.step = "mark"
  PROVE  ChainsFit'
  <1>1. PICK n \in Nat : \E rank \in [Preview -> 0..n], chain \in [File -> SUBSET Preview] :
          Ranked(rank) /\ Chained(rank, chain)
    BY DEF PatchInv, ChainsFit
  <1>2. PICK rank \in [Preview -> 0..n], chain \in [File -> SUBSET Preview] :
          Ranked(rank) /\ Chained(rank, chain)
    BY <1>1
  <1>3. work.of \in Preview /\ work.todo \in Seq(File) /\ work.todo # <<>> /\ alive
    BY DEF PatchInv, WorkTyped, WorkFits, Patch!Idle, Applying
  <1>4. PICK x \in File : x = Patch!Current
    BY <1>3, ListParts DEF Patch!Current
  <1>5. PICK p \in Preview : p = work.of
    BY <1>3
  <1> DEFINE id == <<preview[p].by, x>>
  <1>6. id = Patch!CurrentId
    BY <1>4, <1>5 DEF Patch!CurrentId, Patch!IdOf
  <1>7. id \in Patch!Id /\ preview[p].by \in Invocation
    <2>1. preview[p].status = "applying"
      BY <1>5 DEF PatchInv, WorkFits, Applying
    <2>2. preview[p].by \in Invocation
      BY <2>1 DEF PatchInv, PreviewsFit
    <2>3. QED
      BY <2>2 DEF Patch!Id
  <1>8. /\ record[id].status = "prepared" /\ record[id].before = content[x]
        /\ record[id].after = p /\ x \in Members(FilesOf[p])
        /\ content[x] \in Preview => content[x] = preview[p].before[x]
    <2>1. record[id].status = "prepared" /\ record[id].before = content[x] /\ Live(id)
          /\ id[1] = preview[p].by /\ id[2] = x
      BY <1>4, <1>6 DEF Live
    <2>2. record[id].after \in Preview
      BY <1>7, <2>1, RecordTypes DEF PatchInv
    <2>3. record[id].after = p
      BY <1>7, <2>1, <2>2 DEF PatchInv, RecordsFit, PreviewsFit
    <2>4. QED
      BY <1>7, <2>1, <2>3 DEF PatchInv, RecordsFit
  <1>9. content[x] \in Preview => rank[content[x]] < rank[p]
    BY <1>2, <1>8 DEF Ranked
  <1>10. \A q \in Preview : rank[q] \in Nat
    BY <1>1, <1>2
  <1>11. content'[x] = p /\ \A z \in File : z # x => content'[z] = content[z]
    BY <1>4, <1>5 DEF PatchInv, PatchTyped
  <1>12. PICK new \in [File -> SUBSET Preview] :
           new[x] = chain[x] \cup {p} /\ \A z \in File : z # x => new[z] = chain[z]
    <2>1. [chain EXCEPT ![x] = chain[x] \cup {p}] \in [File -> SUBSET Preview]
      OBVIOUS
    <2>2. QED
      BY <2>1
  <1> HIDE DEF id
  <1>13. ASSUME NEW z \in File, NEW q \in new[z]
         PROVE  /\ content'[z] \in Preview /\ rank[q] <= rank[content'[z]]
                /\ Backed(q, z)'
                /\ LET j == <<preview[q].by, z>> IN
                   Live(j) /\ record[j].before \in Preview => record[j].before \in new[z]
    <2>1. Patch!Id' = Patch!Id
      BY DEF Patch!Id
    <2>2. CASE z # x
      <3>1. q \in chain[z] /\ content'[z] = content[z]
        BY <1>11, <1>12, <2>2
      <3>2. QED
        BY <1>2, <1>12, <2>1, <2>2, <3>1 DEF Chained, Backed, Live
    <2>3. CASE z = x /\ q = p
      <3>1. content'[z] \in Preview /\ rank[q] <= rank[content'[z]]
        BY <1>10, <1>11, <2>3
      <3>2. Backed(q, z)'
        BY <1>7, <1>8, <1>11, <2>1, <2>3 DEF Backed, id
      <3>3. record[id].before \in Preview => record[id].before \in new[x]
        BY <1>2, <1>8, <1>12 DEF Chained
      <3>4. QED
        BY <2>3, <3>1, <3>2, <3>3 DEF id
    <2>4. CASE z = x /\ q # p
      <3> DEFINE j == <<preview[q].by, z>>
      <3>1. q \in chain[x]
        BY <1>12, <2>4
      <3>2. /\ q \in Preview /\ content[x] \in Preview /\ rank[q] <= rank[content[x]]
            /\ j \in Patch!Id /\ z \in Members(FilesOf[q])
            /\ \/ record[j].status = "none" /\ j \in gone
               \/ record[j].status = "applied"
               \/ record[j].status = "prepared" /\ content[x] = q
            /\ Live(j) /\ record[j].before \in Preview => record[j].before \in chain[x]
        BY <1>2, <2>4, <3>1 DEF Chained, Backed
      <3>3. content'[z] \in Preview /\ rank[q] <= rank[content'[z]]
        BY <1>9, <1>10, <1>11, <2>4, <3>2
      <3>4. ASSUME record[j].status = "prepared" PROVE FALSE
        <4>1. /\ j[1] = preview[q].by /\ j[2] = x /\ preview[q].by \in Invocation
              /\ record[j].after \in Preview /\ content[x] = q
          BY <2>4, <3>2, <3>4, RecordTypes DEF PatchInv
        <4>2. record[j].after = q
          BY <3>2, <3>4, <4>1 DEF PatchInv, RecordsFit, PreviewsFit, Live
        <4>3. QED
          BY <1>3, <3>2, <3>4, <4>1, <4>2 DEF PatchInv, PreparedFits
      <3> HIDE DEF j
      <3>5. Backed(q, z)'
        BY <2>1, <3>2, <3>4 DEF Backed, j
      <3>6. QED
        BY <1>12, <2>4, <3>2, <3>3, <3>5 DEF j
    <2>5. QED
      BY <2>2, <2>3, <2>4
  <1>14. \A z \in File : content'[z] \in Preview => content'[z] \in new[z]
    BY <1>2, <1>11, <1>12 DEF Chained
  <1>15. Ranked(rank)'
    BY <1>2 DEF Ranked
  <1>16. Chained(rank, new)'
    <2>1. \A z \in File : \A q \in new[z] :
            LET j == <<preview'[q].by, z>> IN
            record'[j].status \in {"prepared", "applied", "uncertain"}
              /\ record'[j].before \in Preview => record'[j].before \in new[z]
      BY <1>13 DEF Live
    <2>2. QED
      BY <1>13, <1>14, <2>1 DEF Chained, Live
  <1>17. QED
    BY <1>15, <1>16 DEF ChainsFit

(* A preview is computed: no file has its text, and it is the latest.        *)
LEMMA ChainsSaved ==
  ASSUME PatchInv, NEW p \in Preview, preview[p] = Patch!NoPreview,
         \A x \in File : preview'[p].before[x] = content[x],
         \A q \in Preview : q # p => preview'[q] = preview[q],
         UNCHANGED <<content, record, gone, work>>
  PROVE  ChainsFit'
  <1>1. PICK n \in Nat : \E rank \in [Preview -> 0..n], chain \in [File -> SUBSET Preview] :
          Ranked(rank) /\ Chained(rank, chain)
    BY DEF PatchInv, ChainsFit
  <1>2. PICK rank \in [Preview -> 0..n], chain \in [File -> SUBSET Preview] :
          Ranked(rank) /\ Chained(rank, chain)
    BY <1>1
  <1> DEFINE later == [rank EXCEPT ![p] = n + 1]
  <1>3. later \in [Preview -> 0..(n + 1)] /\ n + 1 \in Nat
    BY <1>1, <1>2
  <1>4. /\ later[p] = n + 1 /\ \A q \in Preview : q # p => later[q] = rank[q]
        /\ \A q \in Preview : rank[q] \in Nat /\ rank[q] < n + 1
    BY <1>1, <1>2
  <1> HIDE DEF later
  <1>5. preview[p].status = "none" /\ preview[p].by \notin Invocation
    BY PreviewFiles DEF Patch!NoPreview
  <1>6. \A x \in File : \A q \in chain[x] : q # p
    <2>1. ASSUME NEW x \in File, NEW q \in chain[x]
          PROVE  preview[q].by \in Invocation
      <3>1. <<preview[q].by, x>> \in Patch!Id
        BY <1>2 DEF Chained, Backed
      <3>2. QED
        BY <3>1 DEF Patch!Id
    <2>2. QED
      BY <1>5, <2>1
  <1>7. \A x \in File : content[x] \in Preview => content[x] # p
    BY <1>2, <1>6 DEF Chained
  <1>8. Ranked(later)'
    <2>1. ASSUME NEW q \in Preview, NEW x \in File, preview'[q].before[x] \in Preview
          PROVE  later[preview'[q].before[x]] < later[q]
      <3>1. CASE q = p
        BY <1>4, <1>7, <2>1, <3>1
      <3>2. CASE q # p
        <4>1. preview[q].before[x] = preview'[q].before[x]
          BY <3>2
        <4>2. preview[q].before[x] # p
          BY <1>5, <2>1, <4>1 DEF PatchInv, PreviewsFit
        <4>3. rank[preview[q].before[x]] < rank[q]
          BY <1>2, <2>1, <4>1 DEF Ranked
        <4>4. QED
          BY <1>4, <2>1, <3>2, <4>1, <4>2, <4>3
      <3>3. QED
        BY <3>1, <3>2
    <2>2. QED
      BY <2>1 DEF Ranked
  <1>9. Chained(later, chain)'
    <2>1. ASSUME NEW x \in File, NEW q \in chain[x]
          PROVE  /\ content[x] \in Preview /\ later[q] <= later[content[x]]
                 /\ Backed(q, x)'
                 /\ LET id == <<preview'[q].by, x>> IN
                    record'[id].status \in {"prepared", "applied", "uncertain"}
                      /\ record'[id].before \in Preview => record'[id].before \in chain[x]
      <3>1. q # p /\ q \in Preview /\ preview'[q] = preview[q]
        BY <1>6
      <3>2. content[x] \in Preview /\ rank[q] <= rank[content[x]] /\ Backed(q, x)
        BY <1>2 DEF Chained
      <3>3. later[q] <= later[content[x]]
        BY <1>4, <1>7, <3>1, <3>2
      <3>4. Patch!Id' = Patch!Id
        BY DEF Patch!Id
      <3>5. Backed(q, x)'
        BY <3>1, <3>2, <3>4 DEF Backed
      <3>6. QED
        BY <1>2, <3>1, <3>2, <3>3, <3>5 DEF Chained, Live
    <2>2. Patch!Current' = Patch!Current
      BY DEF Patch!Current
    <2>3. \A x \in File : content[x] \in Preview => content[x] \in chain[x]
      BY <1>2 DEF Chained
    <2>4. ASSUME NEW x \in File
          PROVE  /\ work'.step \in {"back-record", "undo-record", "settle-record"}
                      /\ x = Patch!Current' => work'.of \notin chain[x]
                 /\ work'.step = "latest-record" /\ x = work'.of[2] =>
                      record'[work'.of].after \notin chain[x]
      BY <1>2, <2>2 DEF Chained
    <2>5. QED
      BY <2>1, <2>3, <2>4 DEF Chained, Live
  <1>10. QED
    BY <1>3, <1>8, <1>9 DEF ChainsFit

(* A preview is applied under another invocation: its files are as it knows  *)
(* them, so that none has its text.                                          *)
LEMMA ChainsApplied ==
  ASSUME PatchInv, NEW p \in Preview,
         \A x \in Members(FilesOf[p]) : content[x] = preview[p].before[x],
         \A q \in Preview : q # p => preview'[q] = preview[q],
         preview'[p].before = preview[p].before,
         UNCHANGED <<content, record, gone>>, work'.step = "prepare"
  PROVE  ChainsFit'
  <1>1. PICK n \in Nat : \E rank \in [Preview -> 0..n], chain \in [File -> SUBSET Preview] :
          Ranked(rank) /\ Chained(rank, chain)
    BY DEF PatchInv, ChainsFit
  <1>2. PICK rank \in [Preview -> 0..n], chain \in [File -> SUBSET Preview] :
          Ranked(rank) /\ Chained(rank, chain)
    BY <1>1
  <1>3. \A q \in Preview : rank[q] \in Nat
    BY <1>1, <1>2
  <1>4. ASSUME NEW x \in File, p \in chain[x]
        PROVE  FALSE
    <2>1. /\ x \in Members(FilesOf[p]) /\ content[x] \in Preview
          /\ rank[p] <= rank[content[x]]
      BY <1>2, <1>4 DEF Chained, Backed
    <2>2. rank[content[x]] < rank[p]
      BY <1>2, <2>1 DEF Ranked
    <2>3. QED
      BY <1>3, <2>1, <2>2
  <1>5. Ranked(rank)'
    BY <1>2 DEF Ranked
  <1>6. Chained(rank, chain)'
    <2>1. ASSUME NEW x \in File, NEW q \in chain[x]
          PROVE  /\ content[x] \in Preview /\ rank[q] <= rank[content[x]]
                 /\ Backed(q, x)'
                 /\ LET id == <<preview'[q].by, x>> IN
                    record'[id].status \in {"prepared", "applied", "uncertain"}
                      /\ record'[id].before \in Preview => record'[id].before \in chain[x]
      <3>1. preview'[q] = preview[q]
        BY <1>4
      <3>2. content[x] \in Preview /\ rank[q] <= rank[content[x]] /\ Backed(q, x)
        BY <1>2 DEF Chained
      <3>3. Patch!Id' = Patch!Id
        BY DEF Patch!Id
      <3>4. Backed(q, x)'
        BY <3>1, <3>2, <3>3 DEF Backed
      <3>5. QED
        BY <1>2, <3>1, <3>2, <3>4 DEF Chained, Live
    <2>2. \A x \in File : content[x] \in Preview => content[x] \in chain[x]
      BY <1>2 DEF Chained
    <2>3. QED
      BY <2>1, <2>2 DEF Chained, Live
  <1>7. QED
    BY <1>5, <1>6 DEF ChainsFit

(* What a step has to show of the previews and the records.                  *)
LEMMA PreviewsKeep ==
  ASSUME PatchInv,
         \A p \in Preview :
           /\ preview'[p].by = preview[p].by /\ preview'[p].before = preview[p].before
           /\ \/ preview'[p] = preview[p]
              \/ /\ preview[p].status \notin {"none", "ready"}
                 /\ preview'[p].status \notin {"none", "ready"}
  PROVE  PreviewsFit'
  <1>1. Patch!NoPreview' = Patch!NoPreview
    BY DEF Patch!NoPreview
  <1>2. ASSUME NEW p \in Preview
        PROVE  /\ preview'[p].status = "none" => preview'[p] = Patch!NoPreview
               /\ preview'[p].status \in {"none", "ready"} \/ preview'[p].by \in Invocation
               /\ \A q \in Preview :
                    preview'[p].by = preview'[q].by /\ preview'[p].by \in Invocation => p = q
    BY DEF PatchInv, PreviewsFit
  <1>3. ASSUME NEW p \in Preview, NEW x \in File, preview'[p].before[x] \in Preview
        PROVE  preview'[preview'[p].before[x]].status # "none"
    <2>1. preview[p].before[x] = preview'[p].before[x]
      OBVIOUS
    <2>2. preview[preview[p].before[x]].status # "none"
      BY <1>3, <2>1 DEF PatchInv, PreviewsFit
    <2>3. QED
      BY <1>3, <2>1, <2>2
  <1>4. QED
    BY <1>1, <1>2, <1>3 DEF PreviewsFit

LEMMA RecordsKeep ==
  ASSUME PatchInv,
         \A p \in Preview :
           preview'[p].by = preview[p].by /\ preview'[p].before = preview[p].before,
         \A id \in Patch!Id : record'[id].status \in {"prepared", "applied", "uncertain"} =>
           /\ Live(id) /\ record'[id].before = record[id].before
           /\ record'[id].after = record[id].after
           /\ preview'[record[id].after].status \notin Ended \cup {"none"}
           /\ work'.of = record[id].after /\ work'.step = "prepare" =>
                id[2] \notin Members(work'.todo)
           /\ work'.of = record[id].after
                /\ work'.step \in {"back", "back-record"} \cup Undoing \cup Settling =>
                id[2] \in Members(work'.todo) \/ ~work'.ok
  PROVE  RecordsFit'
  <1>1. Patch!Id' = Patch!Id
    BY DEF Patch!Id
  <1>2. ASSUME NEW id \in Patch!Id,
               record'[id].status \in {"prepared", "applied", "uncertain"}
        PROVE  /\ preview'[record'[id].after].by = id[1]
               /\ id[2] \in Members(FilesOf[record'[id].after])
               /\ record'[id].before \in Preview =>
                    record'[id].before = preview'[record'[id].after].before[id[2]]
    <2>1. Live(id) /\ record'[id].before = record[id].before
          /\ record'[id].after = record[id].after
      BY <1>2
    <2>2. record[id].after \in Preview
      BY <2>1, RecordTypes DEF PatchInv, Live
    <2>3. QED
      BY <2>1, <2>2 DEF PatchInv, RecordsFit
  <1>3. QED
    BY <1>1, <1>2 DEF RecordsFit, Live

(* An operation has ended.                                                   *)
LEMMA WorkIdle ==
  ASSUME work' = Patch!Idle
  PROVE  WorkTyped' /\ WorkFits' /\ work'.step = "idle"
  <1>1. Patch!Idle' = Patch!Idle /\ Patch!Idle.step = "idle"
    BY DEF Patch!Idle
  <1>2. WorkTyped'
    BY <1>1 DEF WorkTyped
  <1>3. WorkFits'
    BY <1>1 DEF WorkFits, Applying, Undoing, Settling
  <1>4. QED
    BY <1>1, <1>2, <1>3

(* The record the operation is at.                                           *)
LEMMA WorkAt ==
  ASSUME PatchInv, work.step \in Applying \cup Undoing \cup Settling
  PROVE  /\ work.of \in Preview /\ work.todo \in Seq(File) /\ work.ok \in BOOLEAN
         /\ Members(work.todo) \subseteq Members(FilesOf[work.of])
         /\ work.todo = <<>> => work.step = "back" /\ work.ok
         /\ preview[work.of].by \in Invocation
         /\ work.todo # <<>> =>
              /\ Patch!Current \in File /\ Patch!Current \in Members(work.todo)
              /\ Patch!CurrentId = <<preview[work.of].by, Patch!Current>>
              /\ Patch!CurrentId \in Patch!Id /\ Patch!CurrentId[2] = Patch!Current
              /\ Live(Patch!CurrentId) => record[Patch!CurrentId].after = work.of
  <1>1. /\ work.of \in Preview /\ work.todo \in Seq(File) /\ work.ok \in BOOLEAN
        /\ Members(work.todo) \subseteq Members(FilesOf[work.of])
        /\ work.todo = <<>> => work.step = "back" /\ work.ok
    BY DEF PatchInv, WorkTyped, Patch!Idle, Applying, Undoing, Settling
  <1>2. preview[work.of].by \in Invocation
    <2>1. preview[work.of].status \in {"applying", "undoing", "uncertain"}
      BY DEF PatchInv, WorkFits, Open
    <2>2. QED
      BY <1>1, <2>1 DEF PatchInv, PreviewsFit
  <1>3. ASSUME work.todo # <<>>
        PROVE  /\ Patch!Current \in File /\ Patch!Current \in Members(work.todo)
               /\ Patch!CurrentId = <<preview[work.of].by, Patch!Current>>
               /\ Patch!CurrentId \in Patch!Id /\ Patch!CurrentId[2] = Patch!Current
               /\ Live(Patch!CurrentId) => record[Patch!CurrentId].after = work.of
    <2>1. Patch!Current \in File /\ Patch!Current \in Members(work.todo)
      BY <1>1, <1>3, ListParts DEF Patch!Current
    <2>2. Patch!CurrentId = <<preview[work.of].by, Patch!Current>>
      BY DEF Patch!CurrentId, Patch!IdOf
    <2>3. Patch!CurrentId \in Patch!Id
      BY <1>2, <2>1, <2>2 DEF Patch!Id
    <2>4. ASSUME Live(Patch!CurrentId)
          PROVE  record[Patch!CurrentId].after = work.of
      <3>1. record[Patch!CurrentId].after \in Preview
        BY <2>3, <2>4, RecordTypes DEF PatchInv, Live
      <3>2. preview[record[Patch!CurrentId].after].by = preview[work.of].by
        BY <2>2, <2>3, <2>4 DEF PatchInv, RecordsFit
      <3>3. QED
        BY <1>1, <1>2, <3>1, <3>2 DEF PatchInv, PreviewsFit
    <2>5. QED
      BY <2>1, <2>2, <2>3, <2>4
  <1>4. QED
    BY <1>1, <1>2, <1>3

(* All files of a failed apply are taken back, those applied last.           *)
LEMMA TouchedAre ==
  ASSUME NEW files \in Seq(File), NEW did
  PROVE  /\ Patch!Touched(files, did) \in Seq(File)
         /\ Members(Patch!Touched(files, did)) = Members(files)
  <1> DEFINE left == Patch!Those(files, File \ did)
             done == Patch!Those(files, did)
  <1>1. left \in Seq(File) /\ Members(left) = Members(files) \cap (File \ did)
    BY ThoseAre
  <1>2. done \in Seq(File) /\ Members(done) = Members(files) \cap did
    BY ThoseAre
  <1>3. Patch!Touched(files, did) = Patch!Reverse(left) \o Patch!Reverse(done)
    BY DEF Patch!Touched
  <1> HIDE DEF left, done
  <1>4. /\ Patch!Reverse(left) \in Seq(File) /\ Members(Patch!Reverse(left)) = Members(left)
        /\ Patch!Reverse(done) \in Seq(File) /\ Members(Patch!Reverse(done)) = Members(done)
    BY <1>1, <1>2, ListReversed
  <1>5. /\ Patch!Touched(files, did) \in Seq(File)
        /\ Members(Patch!Touched(files, did)) = Members(left) \cup Members(done)
    BY <1>3, <1>4, ListJoined
  <1>6. Members(files) \subseteq File
    BY ListParts
  <1>7. QED
    BY <1>1, <1>2, <1>5, <1>6

LEMMA LastIsIn ==
  ASSUME NEW S, NEW s \in Seq(S), s # <<>>
  PROVE  Patch!Last(s) \in Members(s)
  <1>1. Len(s) \in Nat \ {0}
    BY ListParts
  <1>2. Len(s) \in 1..Len(s)
    BY <1>1
  <1>3. QED
    BY <1>2 DEF Patch!Last, Members

(* A text that is in the way of no other step.                               *)
LEMMA NothingPrepared ==
  ASSUME PatchInv, alive, work.step # "mark"
  PROVE  \A id \in Patch!Id : record[id].status = "prepared" =>
           content[id[2]] # record[id].after
  BY DEF PatchInv, PreparedFits

(* One patch of an operation is done with: it was taken back, or the         *)
(* operation will end in doubt.                                              *)
LEMMA OneBack ==
  ASSUME PatchInv, work.step \in {"back", "back-record", "undo-record"}, work.todo # <<>>,
         NEW okay \in BOOLEAN, NEW step, NEW good \in {"rolled-back", "undone"},
         work.step \in {"back", "back-record"} => step = "back",
         work.step = "undo-record" => step = "undo",
         Patch!Done(okay, step, good, "uncertain"),
         UNCHANGED <<content, patches, alive, gone>>,
         \/ UNCHANGED record /\ ~okay
         \/ /\ record[Patch!CurrentId].status # "none"
            /\ \E s \in {"aborted", "undone"} : Patch!SetRecord(Patch!CurrentId, s)
            /\ \/ work.step # "back"
               \/ record[Patch!CurrentId].status = "prepared"
  PROVE  PatchInv'
  <1> DEFINE id == Patch!CurrentId
             x == Patch!Current
             p == work.of
  <1>1. /\ p \in Preview /\ work.todo \in Seq(File) /\ work.ok \in BOOLEAN
        /\ Members(work.todo) \subseteq Members(FilesOf[p])
        /\ x \in File /\ id = <<preview[p].by, x>> /\ id \in Patch!Id /\ id[2] = x
        /\ preview[p].by \in Invocation
    BY WorkAt DEF Applying, Undoing
  <1>2. /\ alive /\ preview[p].status \in {"applying", "undoing"}
        /\ work.step \in {"back", "back-record"} => preview[p].status = "applying"
        /\ work.step = "undo-record" => preview[p].status = "undoing"
    BY DEF PatchInv, WorkFits, Applying, Undoing
  <1>3. /\ Len(work.todo) \in Nat \ {0} /\ Tail(work.todo) \in Seq(File)
        /\ Members(work.todo) = {x} \cup Members(Tail(work.todo))
        /\ Len(work.todo) = 1 => Members(work.todo) = {x}
        /\ Len(work.todo) # 1 => Tail(work.todo) # <<>>
    BY <1>1, ListParts DEF Patch!Current
  <1>4. /\ record' \in [Patch!Id -> Patch!Record \cup {Patch!NoRecord}]
        /\ \A j \in Patch!Id : j # id => record'[j] = record[j]
        /\ okay => record'[id].status \in {"aborted", "undone"}
        /\ record' = record \/ record'[id].status \in {"aborted", "undone"}
    <2>1. CASE UNCHANGED record /\ ~okay
      BY <2>1 DEF PatchInv, PatchTyped
    <2>2. CASE /\ record[id].status # "none"
               /\ \E s \in {"aborted", "undone"} : Patch!SetRecord(id, s)
      <3>1. PICK s \in {"aborted", "undone"} : Patch!SetRecord(id, s)
        BY <2>2
      <3>2. QED
        BY <1>1, <2>2, <3>1, RecordSet DEF PatchInv
    <2>3. QED
      BY <2>1, <2>2
  <1>5. \/ /\ Len(work.todo) # 1 /\ preview' = preview
           /\ work' = [step |-> step, of |-> p, todo |-> Tail(work.todo),
                       did |-> work.did, ok |-> work.ok /\ okay]
        \/ /\ Len(work.todo) = 1 /\ work' = Patch!Idle
           /\ Patch!SetStatus(p, IF work.ok /\ okay THEN good ELSE "uncertain")
    BY <1>3 DEF Patch!Done, Patch!Go
  <1>6. /\ preview' \in [Preview -> [status : Patch!PreviewStatus,
                                     before : [File -> Patch!Text],
                                     by : Invocation \cup {NoInvocation}]]
        /\ \A q \in Preview : /\ preview'[q].by = preview[q].by
                              /\ preview'[q].before = preview[q].before
                              /\ q # p => preview'[q] = preview[q]
        /\ \/ preview' = preview
           \/ /\ Len(work.todo) = 1
              /\ preview'[p].status = IF work.ok /\ okay THEN good ELSE "uncertain"
    <2>1. CASE preview' = preview
      BY <2>1 DEF PatchInv, PatchTyped
    <2>2. CASE Len(work.todo) = 1
               /\ Patch!SetStatus(p, IF work.ok /\ okay THEN good ELSE "uncertain")
      <3> DEFINE s == IF work.ok /\ okay THEN good ELSE "uncertain"
      <3>1. s \in Patch!PreviewStatus
        BY DEF Patch!PreviewStatus
      <3>2. Patch!SetStatus(p, s)
        BY <2>2
      <3> HIDE DEF s
      <3>3. preview'[p].status = s /\ preview' \in [Preview -> [status : Patch!PreviewStatus,
                                     before : [File -> Patch!Text],
                                     by : Invocation \cup {NoInvocation}]]
            /\ \A q \in Preview : /\ preview'[q].by = preview[q].by
                                  /\ preview'[q].before = preview[q].before
                                  /\ q # p => preview'[q] = preview[q]
        BY <1>1, <3>1, <3>2, StatusSet DEF PatchInv
      <3>4. QED
        BY <2>2, <3>3 DEF s
    <2>3. QED
      BY <1>5, <2>1, <2>2
  <1> HIDE DEF id, x, p
  <1>7. PatchTyped'
    <2>1. Patch!Text' = Patch!Text /\ Patch!Id' = Patch!Id /\ Patch!Record' = Patch!Record
          /\ Patch!NoRecord' = Patch!NoRecord /\ Patch!PreviewStatus' = Patch!PreviewStatus
      BY DEF Patch!Text, Patch!Id, Patch!Record, Patch!NoRecord, Patch!PreviewStatus
    <2>2. QED
      BY <1>4, <1>6, <2>1 DEF PatchInv, PatchTyped
  <1>8. WorkTyped' /\ WorkFits'
    <2>1. CASE work' = Patch!Idle
      BY <2>1, WorkIdle
    <2>2. CASE /\ Len(work.todo) # 1 /\ preview' = preview
               /\ work' = [step |-> step, of |-> p, todo |-> Tail(work.todo),
                           did |-> work.did, ok |-> work.ok /\ okay]
      <3>1. /\ work'.step = step /\ work'.of = p /\ work'.todo = Tail(work.todo)
            /\ step \in {"back", "undo"}
        BY <2>2
      <3>2. (work.ok /\ okay) \in BOOLEAN
        BY <1>1
      <3>3. WorkTyped'
        BY <1>1, <1>3, <2>2, <3>1, <3>2 DEF WorkTyped, Applying, Undoing
      <3>4. WorkFits'
        BY <1>2, <2>2, <3>1 DEF WorkFits, Applying, Undoing, Settling, p
      <3>5. QED
        BY <3>3, <3>4
    <2>3. QED
      BY <1>5, <2>1, <2>2
  <1>9. PreviewsFit'
    BY <1>2, <1>6, PreviewsKeep
  <1>10. ASSUME NEW j \in Patch!Id,
                record'[j].status \in {"prepared", "applied", "uncertain"}
         PROVE  /\ Live(j) /\ record'[j] = record[j]
                /\ record[j].after = p =>
                     (j[2] \in Members(work.todo) /\ j[2] # x /\ okay) \/ ~(work.ok /\ okay)
    <2>1. record'[j] = record[j] /\ (okay => j # id)
      BY <1>4, <1>10
    <2>2. Live(j)
      BY <1>10, <2>1 DEF Live
    <2>3. ASSUME record[j].after = p, work.ok, okay
          PROVE  j[2] \in Members(work.todo) /\ j[2] # x
      <3>1. j[2] \in Members(work.todo) /\ preview[p].by = j[1]
        BY <2>2, <2>3 DEF PatchInv, RecordsFit, Undoing, p
      <3>2. j # id /\ j = <<j[1], j[2]>>
        BY <2>1, <2>3, RecordTypes DEF PatchInv
      <3>3. QED
        BY <1>1, <3>1, <3>2
    <2>4. QED
      BY <2>1, <2>2, <2>3
  <1>11. RecordsFit'
    <2>1. ASSUME NEW j \in Patch!Id,
                 record'[j].status \in {"prepared", "applied", "uncertain"}
          PROVE  /\ preview'[record[j].after].status \notin Ended \cup {"none"}
                 /\ ~(work'.of = record[j].after /\ work'.step = "prepare")
                 /\ work'.of = record[j].after
                      /\ work'.step \in {"back", "back-record"} \cup Undoing \cup Settling =>
                      j[2] \in Members(work'.todo) \/ ~work'.ok
      <3>1. Live(j) /\ record[j].after \in Preview
        BY <1>10, <2>1, RecordTypes DEF PatchInv, Live
      <3>2. preview[record[j].after].status \notin Ended \cup {"none"}
        BY <3>1 DEF PatchInv, RecordsFit
      <3>3. CASE preview' = preview /\ Len(work.todo) # 1
                 /\ work' = [step |-> step, of |-> p, todo |-> Tail(work.todo),
                             did |-> work.did, ok |-> work.ok /\ okay]
        <4>1. work'.step # "prepare" /\ work'.of = p /\ work'.todo = Tail(work.todo)
              /\ (work'.ok <=> (work.ok /\ okay))
          BY <3>3
        <4>2. record[j].after = p => j[2] \in Members(work'.todo) \/ ~work'.ok
          BY <1>3, <1>10, <2>1, <4>1
        <4>3. QED
          BY <3>2, <3>3, <4>1, <4>2
      <3>4. CASE Len(work.todo) = 1 /\ work' = Patch!Idle
        <4>1. work'.step = "idle"
          BY <3>4, WorkIdle
        <4>2. record[j].after = p => ~(work.ok /\ okay)
          BY <1>3, <1>10, <2>1, <3>4
        <4>3. preview'[record[j].after].status \notin Ended \cup {"none"}
          BY <1>6, <3>1, <3>2, <4>2 DEF Ended
        <4>4. QED
          BY <4>1, <4>3 DEF Undoing, Settling
      <3>5. QED
        BY <1>5, <3>3, <3>4
    <2>2. QED
      BY <1>6, <1>10, <2>1, RecordsKeep
  <1>12. PreparedFits'
    <2>1. \A j \in Patch!Id : record[j].status = "prepared" => content[j[2]] # record[j].after
      BY <1>2, NothingPrepared
    <2>2. ASSUME NEW j \in Patch!Id, record'[j].status = "prepared"
          PROVE  record'[j] = record[j]
      BY <1>10, <2>2
    <2>3. Patch!Id' = Patch!Id
      BY DEF Patch!Id
    <2>4. QED
      BY <2>1, <2>2, <2>3 DEF PreparedFits
  <1>13. ChainsFit'
    <2>1. \A j \in Patch!Id :
           \/ record'[j] = record[j]
           \/ record[j].status = "prepared" /\ content[j[2]] # record[j].after
           \/ work.step \in {"back-record", "undo-record"} /\ j = Patch!CurrentId
      <3>1. ASSUME NEW j \in Patch!Id, j = id, record' # record, work.step = "back"
            PROVE  record[j].status = "prepared" /\ content[j[2]] # record[j].after
        BY <1>2, <3>1, NothingPrepared DEF id
      <3>2. QED
        BY <1>4, <3>1 DEF id
    <2>2. work'.step \in {"back", "undo", "idle"}
      BY <1>5, WorkIdle
    <2>3. QED
      BY <1>6, <1>7, <2>1, <2>2, ChainsKeep
  <1>14. QED
    BY <1>7, <1>8, <1>9, <1>11, <1>12, <1>13 DEF PatchInv

(* The same at the start of the process; the next preview follows.           *)
LEMMA OneSettled ==
  ASSUME PatchInv, work.step \in Settling, NEW okay \in BOOLEAN, Patch!SettleDone(okay),
         UNCHANGED <<content, patches, gone>>,
         \/ /\ UNCHANGED record
            /\ okay => ~Live(Patch!CurrentId)
         \/ /\ work.step = "settle-record"
            /\ Patch!SetRecord(Patch!CurrentId, "undone")
  PROVE  PatchInv'
  <1> DEFINE id == Patch!CurrentId
             x == Patch!Current
             p == work.of
             good == IF preview[p].status = "undoing" THEN "undone" ELSE "rolled-back"
             end == IF work.ok /\ okay THEN good ELSE "uncertain"
  <1>1. /\ p \in Preview /\ work.todo \in Seq(File) /\ work.ok \in BOOLEAN
        /\ Members(work.todo) \subseteq Members(FilesOf[p]) /\ work.todo # <<>>
        /\ x \in File /\ id = <<preview[p].by, x>> /\ id \in Patch!Id /\ id[2] = x
        /\ preview[p].by \in Invocation
    BY WorkAt DEF Settling
  <1>2. /\ ~alive /\ preview[p].status \in Open
        /\ work.did \subseteq Preview /\ p \notin work.did
        /\ \A q \in work.did : preview[q].status \in Open
        /\ \A j \in Patch!Id : record[j].status # "prepared"
        /\ work.step = "settle-record" => record[id].status = "applied"
    BY DEF PatchInv, WorkFits
  <1>3. /\ Len(work.todo) \in Nat \ {0} /\ Tail(work.todo) \in Seq(File)
        /\ Members(work.todo) = {x} \cup Members(Tail(work.todo))
        /\ Len(work.todo) = 1 => Members(work.todo) = {x}
        /\ Len(work.todo) # 1 => Tail(work.todo) # <<>>
    BY <1>1, ListParts DEF Patch!Current
  <1>4. /\ record' \in [Patch!Id -> Patch!Record \cup {Patch!NoRecord}]
        /\ \A j \in Patch!Id : j # id => record'[j] = record[j]
        /\ record'[id] = record[id] \/ record'[id].status = "undone"
        /\ okay => record'[id].status \notin {"prepared", "applied", "uncertain"}
        /\ \/ record' = record
           \/ work.step = "settle-record"
    <2>1. CASE UNCHANGED record /\ (okay => ~Live(id))
      BY <1>1, <2>1 DEF PatchInv, PatchTyped, Live
    <2>2. CASE work.step = "settle-record" /\ Patch!SetRecord(id, "undone")
      BY <1>1, <1>2, <2>2, RecordSet DEF PatchInv
    <2>3. QED
      BY <2>1, <2>2
  <1>5. \/ /\ Len(work.todo) # 1 /\ preview' = preview /\ alive' = alive
           /\ work' = [step |-> "settle", of |-> p, todo |-> Tail(work.todo),
                       did |-> work.did, ok |-> work.ok /\ okay]
        \/ /\ Len(work.todo) = 1 /\ work' = Patch!Idle /\ Patch!SetStatus(p, end)
           /\ work.did = {} /\ alive' = TRUE
        \/ /\ Len(work.todo) = 1 /\ Patch!SetStatus(p, end) /\ alive' = alive
           /\ \E q \in work.did :
                work' = [step |-> "settle", of |-> q, todo |-> Patch!Reverse(FilesOf[q]),
                         did |-> work.did \ {q}, ok |-> TRUE]
    BY <1>3 DEF Patch!SettleDone, Patch!Go
  <1>6. end \in Patch!PreviewStatus /\ end \notin {"none", "ready"}
        /\ (~(work.ok /\ okay) => end = "uncertain")
    BY DEF Patch!PreviewStatus
  <1> HIDE DEF id, x, p, end
  <1>7. /\ preview' \in [Preview -> [status : Patch!PreviewStatus,
                                     before : [File -> Patch!Text],
                                     by : Invocation \cup {NoInvocation}]]
        /\ \A q \in Preview : /\ preview'[q].by = preview[q].by
                              /\ preview'[q].before = preview[q].before
                              /\ q # p => preview'[q] = preview[q]
        /\ \/ preview' = preview
           \/ Len(work.todo) = 1 /\ preview'[p].status = end
    <2>1. CASE preview' = preview
      BY <2>1 DEF PatchInv, PatchTyped
    <2>2. CASE Len(work.todo) = 1 /\ Patch!SetStatus(p, end)
      BY <1>1, <1>6, <2>2, StatusSet DEF PatchInv
    <2>3. QED
      BY <1>5, <2>1, <2>2
  <1>8. PatchTyped'
    <2>1. Patch!Text' = Patch!Text /\ Patch!Id' = Patch!Id /\ Patch!Record' = Patch!Record
          /\ Patch!NoRecord' = Patch!NoRecord /\ Patch!PreviewStatus' = Patch!PreviewStatus
      BY DEF Patch!Text, Patch!Id, Patch!Record, Patch!NoRecord, Patch!PreviewStatus
    <2>2. alive' \in BOOLEAN
      BY <1>5 DEF PatchInv, PatchTyped
    <2>3. QED
      BY <1>4, <1>7, <2>1, <2>2 DEF PatchInv, PatchTyped
  <1>9. \A j \in Patch!Id : record'[j].status # "prepared"
    BY <1>1, <1>2, <1>4
  <1>10. WorkTyped' /\ WorkFits'
    <2>1. CASE work' = Patch!Idle
      BY <2>1, WorkIdle
    <2>2. CASE /\ Len(work.todo) # 1 /\ preview' = preview /\ alive' = alive
               /\ work' = [step |-> "settle", of |-> p, todo |-> Tail(work.todo),
                           did |-> work.did, ok |-> work.ok /\ okay]
      <3>1. /\ work'.step = "settle" /\ work'.of = p /\ work'.todo = Tail(work.todo)
            /\ work'.did = work.did
        BY <2>2
      <3>2. (work.ok /\ okay) \in BOOLEAN
        BY <1>1
      <3>3. WorkTyped'
        BY <1>1, <1>3, <2>2, <3>1, <3>2 DEF WorkTyped, Settling
      <3>4. Patch!Id' = Patch!Id
        BY DEF Patch!Id
      <3>5. WorkFits'
        BY <1>2, <1>9, <2>2, <3>1, <3>4 DEF WorkFits, Applying, Undoing, Settling
      <3>6. QED
        BY <3>3, <3>5
    <2>3. ASSUME NEW q \in work.did, alive' = alive,
                 work' = [step |-> "settle", of |-> q, todo |-> Patch!Reverse(FilesOf[q]),
                          did |-> work.did \ {q}, ok |-> TRUE]
          PROVE  WorkTyped' /\ WorkFits'
      <3>1. /\ work'.step = "settle" /\ work'.of = q
            /\ work'.todo = Patch!Reverse(FilesOf[q]) /\ work'.did = work.did \ {q}
        BY <2>3
      <3>2. q \in Preview /\ q # p
        BY <1>2
      <3>3. /\ Patch!Reverse(FilesOf[q]) \in Seq(File)
            /\ Members(Patch!Reverse(FilesOf[q])) = Members(FilesOf[q])
            /\ Patch!Reverse(FilesOf[q]) # <<>>
        BY <3>2, PreviewFiles, ListReversed
      <3>4. WorkTyped'
        BY <2>3, <3>1, <3>2, <3>3 DEF WorkTyped, Settling
      <3>5. Patch!Id' = Patch!Id
        BY DEF Patch!Id
      <3>6. \A z \in work.did : preview'[z] = preview[z]
        BY <1>2, <1>7
      <3>7. WorkFits'
        BY <1>2, <1>9, <2>3, <3>1, <3>5, <3>6 DEF WorkFits, Applying, Undoing, Settling
      <3>8. QED
        BY <3>4, <3>7
    <2>4. QED
      BY <1>5, <2>1, <2>2, <2>3
  <1>11. PreviewsFit'
    BY <1>2, <1>6, <1>7, PreviewsKeep DEF Open
  <1>12. ASSUME NEW j \in Patch!Id,
                record'[j].status \in {"prepared", "applied", "uncertain"}
         PROVE  /\ Live(j) /\ record'[j] = record[j]
                /\ record[j].after = p =>
                     (j[2] \in Members(work.todo) /\ j[2] # x /\ okay) \/ ~(work.ok /\ okay)
    <2>1. record'[j] = record[j] /\ (okay => j # id)
      BY <1>4, <1>12
    <2>2. Live(j)
      BY <1>12, <2>1 DEF Live
    <2>3. ASSUME record[j].after = p, work.ok, okay
          PROVE  j[2] \in Members(work.todo) /\ j[2] # x
      <3>1. j[2] \in Members(work.todo) /\ preview[p].by = j[1]
        BY <2>2, <2>3 DEF PatchInv, RecordsFit, p
      <3>2. j # id /\ j = <<j[1], j[2]>>
        BY <2>1, <2>3, RecordTypes DEF PatchInv
      <3>3. QED
        BY <1>1, <3>1, <3>2
    <2>4. QED
      BY <2>1, <2>2, <2>3
  <1>13. RecordsFit'
    <2>1. ASSUME NEW j \in Patch!Id,
                 record'[j].status \in {"prepared", "applied", "uncertain"}
          PROVE  /\ preview'[record[j].after].status \notin Ended \cup {"none"}
                 /\ ~(work'.of = record[j].after /\ work'.step = "prepare")
                 /\ work'.of = record[j].after
                      /\ work'.step \in {"back", "back-record"} \cup Undoing \cup Settling =>
                      j[2] \in Members(work'.todo) \/ ~work'.ok
      <3>1. Live(j) /\ record[j].after \in Preview
        BY <1>12, <2>1, RecordTypes DEF PatchInv, Live
      <3>2. /\ preview[record[j].after].status \notin Ended \cup {"none"}
            /\ j[2] \in Members(FilesOf[record[j].after])
        BY <3>1 DEF PatchInv, RecordsFit
      <3>3. CASE preview' = preview /\ Len(work.todo) # 1
                 /\ work' = [step |-> "settle", of |-> p, todo |-> Tail(work.todo),
                             did |-> work.did, ok |-> work.ok /\ okay]
        <4>1. work'.step = "settle" /\ work'.of = p /\ work'.todo = Tail(work.todo)
              /\ (work'.ok <=> (work.ok /\ okay))
          BY <3>3
        <4>2. record[j].after = p => j[2] \in Members(work'.todo) \/ ~work'.ok
          BY <1>3, <1>12, <2>1, <4>1
        <4>3. QED
          BY <3>2, <3>3, <4>1, <4>2
      <3>4. ASSUME Len(work.todo) = 1
            PROVE  preview'[record[j].after].status \notin Ended \cup {"none"}
        <4>1. record[j].after = p => ~(work.ok /\ okay)
          BY <1>3, <1>12, <2>1, <3>4
        <4>2. QED
          BY <1>6, <1>7, <3>1, <3>2, <4>1 DEF Ended
      <3>5. CASE Len(work.todo) = 1 /\ work' = Patch!Idle
        <4>1. work'.step = "idle"
          BY <3>5, WorkIdle
        <4>2. QED
          BY <3>4, <3>5, <4>1 DEF Undoing, Settling
      <3>6. CASE /\ Len(work.todo) = 1
                 /\ \E q \in work.did :
                      work' = [step |-> "settle", of |-> q,
                               todo |-> Patch!Reverse(FilesOf[q]),
                               did |-> work.did \ {q}, ok |-> TRUE]
        <4>1. PICK q \in work.did :
                work' = [step |-> "settle", of |-> q, todo |-> Patch!Reverse(FilesOf[q]),
                         did |-> work.did \ {q}, ok |-> TRUE]
          BY <3>6
        <4>2. work'.step = "settle" /\ work'.of = q
              /\ Members(work'.todo) = Members(FilesOf[q])
          BY <1>2, <4>1, PreviewFiles, ListReversed
        <4>3. QED
          BY <3>2, <3>4, <3>6, <4>2
      <3>7. QED
        BY <1>5, <3>3, <3>5, <3>6
    <2>2. QED
      BY <1>7, <1>12, <2>1, RecordsKeep
  <1>14. PreparedFits'
    <2>1. Patch!Id' = Patch!Id
      BY DEF Patch!Id
    <2>2. QED
      BY <1>9, <2>1 DEF PreparedFits
  <1>15. ChainsFit'
    <2>1. \A j \in Patch!Id :
           \/ record'[j] = record[j]
           \/ work.step = "settle-record" /\ j = Patch!CurrentId
      BY <1>4 DEF id
    <2>2. work'.step \in {"settle", "idle"}
      BY <1>5, WorkIdle
    <2>3. QED
      BY <1>7, <1>8, <2>1, <2>2, ChainsKeep
  <1>16. QED
    BY <1>8, <1>10, <1>11, <1>13, <1>14, <1>15 DEF PatchInv

(* A file is put back, the record not yet marked.                            *)
LEMMA FileBack ==
  ASSUME PatchInv, NEW id \in Patch!Id, record[id].status = "applied",
         content[id[2]] = record[id].after,
         content' = [content EXCEPT ![id[2]] = record[id].before],
         UNCHANGED <<record, patches, preview, alive, gone>>,
         \/ /\ work.step \in {"back", "undo", "settle"} /\ work.todo # <<>>
            /\ id = Patch!CurrentId
            /\ \E then \in {"back-record", "undo-record", "settle-record"} :
                 /\ work' = [work EXCEPT !.step = then]
                 /\ work.step = "back" <=> then = "back-record"
                 /\ work.step = "undo" <=> then = "undo-record"
         \/ /\ work.step = "idle" /\ alive
            /\ work' = [step |-> "latest-record", of |-> id, todo |-> <<>>, did |-> {},
                        ok |-> TRUE]
  PROVE  PatchInv'
  <1> DEFINE x == id[2]
             b == record[id].before
  <1>1. /\ x \in File /\ record[id].after \in Preview /\ b \in Patch!Text /\ Live(id)
    BY RecordTypes DEF PatchInv, Live
  <1>2. content'[x] = b /\ \A z \in File : z # x => content'[z] = content[z]
    BY <1>1 DEF PatchInv, PatchTyped
  <1>3. Patch!Id' = Patch!Id /\ Patch!Text' = Patch!Text /\ Patch!Record' = Patch!Record
        /\ Patch!NoRecord' = Patch!NoRecord /\ Patch!PreviewStatus' = Patch!PreviewStatus
        /\ Patch!NoPreview' = Patch!NoPreview
    BY DEF Patch!Id, Patch!Text, Patch!Record, Patch!NoRecord, Patch!PreviewStatus,
           Patch!NoPreview
  <1>4. \/ /\ work.step \in {"back", "undo", "settle"} /\ work.todo # <<>>
           /\ id = Patch!CurrentId
           /\ work'.step \in {"back-record", "undo-record", "settle-record"}
           /\ work.step = "back" <=> work'.step = "back-record"
           /\ work.step = "undo" <=> work'.step = "undo-record"
           /\ work' = [step |-> work'.step, of |-> work.of, todo |-> work.todo,
                       did |-> work.did, ok |-> work.ok]
        \/ /\ work.step = "idle" /\ alive
           /\ work' = [step |-> "latest-record", of |-> id, todo |-> <<>>, did |-> {},
                        ok |-> TRUE]
    <2>1. work.step \in {"back", "undo", "settle"} =>
            work = [step |-> work.step, of |-> work.of, todo |-> work.todo,
                    did |-> work.did, ok |-> work.ok]
      BY DEF PatchInv, WorkTyped, Patch!Idle
    <2>2. QED
      BY <2>1
  <1> HIDE DEF x, b
  <1>5. PatchTyped'
    BY <1>1, <1>2, <1>3 DEF PatchInv, PatchTyped, x, b
  <1>6. WorkTyped' /\ WorkFits'
    <2>1. CASE work.step = "idle"
      <3>1. work'.step = "latest-record" /\ work'.of = id /\ alive
            /\ work' = [step |-> "latest-record", of |-> id, todo |-> <<>>, did |-> {},
                        ok |-> TRUE]
        BY <1>4, <2>1
      <3>2. WorkTyped'
        BY <1>3, <3>1 DEF WorkTyped
      <3>3. WorkFits'
        BY <3>1 DEF WorkFits, Applying, Undoing, Settling
      <3>4. QED
        BY <3>2, <3>3
    <2>2. CASE work.step \in {"back", "undo", "settle"}
      <3>1. /\ work.of \in Preview /\ work.todo \in Seq(File) /\ work.ok \in BOOLEAN
            /\ Members(work.todo) \subseteq Members(FilesOf[work.of]) /\ work.todo # <<>>
        BY <1>4, <2>2, WorkAt DEF Applying, Undoing, Settling
      <3>2. /\ work'.step \in {"back-record", "undo-record", "settle-record"}
            /\ work.step = "back" <=> work'.step = "back-record"
            /\ work.step = "undo" <=> work'.step = "undo-record"
            /\ work'.of = work.of /\ work'.todo = work.todo /\ work'.did = work.did
            /\ (work'.ok <=> work.ok)
        BY <1>4, <2>2
      <3>3. WorkTyped'
        <4>1. work' = [step |-> work'.step, of |-> work'.of, todo |-> work'.todo,
                       did |-> work'.did, ok |-> work'.ok]
          BY <1>4, <2>2
        <4>2. work'.ok \in BOOLEAN
          BY <1>4, <2>2, <3>1
        <4>3. QED
          BY <3>1, <3>2, <4>1, <4>2 DEF WorkTyped, Applying, Undoing, Settling
      <3>4. Patch!CurrentId' = id
        BY <1>4, <2>2, <3>2 DEF Patch!CurrentId, Patch!IdOf, Patch!Current
      <3>5. WorkFits'
        BY <1>3, <3>2, <3>4 DEF PatchInv, WorkFits, Applying, Undoing, Settling
      <3>6. QED
        BY <3>3, <3>5
    <2>3. QED
      BY <1>4, <2>1, <2>2
  <1>7. PreviewsFit'
    BY PreviewsKeep
  <1>8. RecordsFit'
    <2>1. ASSUME NEW j \in Patch!Id, Live(j)
          PROVE  /\ preview[record[j].after].status \notin Ended \cup {"none"}
                 /\ ~(work'.of = record[j].after /\ work'.step = "prepare")
                 /\ work'.of = record[j].after
                      /\ work'.step \in {"back", "back-record"} \cup Undoing \cup Settling =>
                      j[2] \in Members(work'.todo) \/ ~work'.ok
      <3>1. preview[record[j].after].status \notin Ended \cup {"none"}
        BY <2>1 DEF PatchInv, RecordsFit
      <3>2. CASE work.step = "idle"
        BY <1>4, <3>1, <3>2 DEF Undoing, Settling
      <3>3. CASE work.step \in {"back", "undo", "settle"}
        <4>1. /\ work'.step # "prepare"
              /\ work'.of = work.of /\ work'.todo = work.todo /\ (work'.ok <=> work.ok)
          BY <1>4, <3>3
        <4>2. work.of = record[j].after => j[2] \in Members(work.todo) \/ ~work.ok
          BY <2>1, <3>3 DEF PatchInv, RecordsFit, Undoing, Settling
        <4>3. QED
          BY <3>1, <4>1, <4>2
      <3>4. QED
        BY <1>4, <3>2, <3>3
    <2>2. QED
      BY <2>1, RecordsKeep DEF Live
  <1>9. PreparedFits'
    <2>1. ASSUME alive, NEW j \in Patch!Id, record[j].status = "prepared",
                 content'[j[2]] = record[j].after
          PROVE  FALSE
      <3>1. content[j[2]] # record[j].after
        BY <1>4, <2>1, NothingPrepared
      <3>2. /\ j = <<j[1], j[2]>> /\ j[1] \in Invocation /\ j[2] \in File /\ Live(j)
            /\ record[j].after \in Preview
        BY <2>1, RecordTypes DEF PatchInv, Live
      <3>3. j[2] = x /\ record[j].after = b /\ b \in Preview
        BY <1>2, <2>1, <3>1, <3>2
      <3>4. j = <<preview[b].by, x>>
        BY <3>2, <3>3 DEF PatchInv, RecordsFit
      <3>5. PICK n \in Nat : \E rank \in [Preview -> 0..n], chain \in [File -> SUBSET Preview] :
              Ranked(rank) /\ Chained(rank, chain)
        BY DEF PatchInv, ChainsFit
      <3>6. PICK rank \in [Preview -> 0..n], chain \in [File -> SUBSET Preview] :
              Ranked(rank) /\ Chained(rank, chain)
        BY <3>5
      <3>7. preview[record[id].after].by = id[1] /\ id = <<id[1], x>>
        BY <1>1, RecordTypes DEF PatchInv, RecordsFit, x
      <3>8. record[id].after \in chain[x]
        BY <1>1, <3>6 DEF Chained, x
      <3>9. b \in chain[x]
        BY <1>1, <3>3, <3>6, <3>7, <3>8 DEF Chained, b
      <3>10. content[x] = b
        BY <2>1, <3>4, <3>6, <3>9, <1>1 DEF Chained, Backed
      <3>11. QED
        BY <3>1, <3>3, <3>10
    <2>2. QED
      BY <1>3, <2>1 DEF PreparedFits
  <1>10. ChainsFit'
    <2>1. CASE work.step = "idle"
      <3>1. work'.step = "latest-record" /\ work'.of = id
        BY <1>4, <2>1
      <3>2. QED
        BY <3>1, ChainsBack
    <2>2. CASE work.step \in {"back", "undo", "settle"}
      <3>1. work'.step \in {"back-record", "undo-record", "settle-record"}
            /\ work'.of = work.of /\ work'.todo = work.todo
        BY <1>4, <2>2
      <3>2. Patch!Current' = id[2] /\ record[id].after = work.of
        <4>1. /\ id[2] = Patch!Current /\ record[id].after = work.of
          BY <1>1, <1>4, <2>2, WorkAt DEF Applying, Undoing, Settling
        <4>2. Patch!Current' = Patch!Current
          BY <3>1 DEF Patch!Current
        <4>3. QED
          BY <4>1, <4>2
      <3>3. QED
        BY <3>1, <3>2, ChainsBack
    <2>3. QED
      BY <1>4, <2>1, <2>2
  <1>11. QED
    BY <1>5, <1>6, <1>7, <1>8, <1>9, <1>10 DEF PatchInv

-----------------------------------------------------------------------------
(* The steps.                                                                *)
LEMMA PatchSave ==
  ASSUME PatchInv, NEW p \in Preview, Patch!Save(p)
  PROVE  PatchInv'
  <1> DEFINE new == [status |-> "ready", before |-> content, by |-> NoInvocation]
  <1>1. /\ alive /\ work.step = "idle" /\ preview[p] = Patch!NoPreview
        /\ preview' = [preview EXCEPT ![p] = new]
        /\ UNCHANGED <<content, record, patches, work, alive, gone>>
    BY DEF Patch!Save, Patch!Quiet, Patch!Counts
  <1>2. /\ preview'[p] = new /\ new.status = "ready" /\ new.before = content
        /\ new.by = NoInvocation
        /\ \A q \in Preview : q # p => preview'[q] = preview[q]
    BY <1>1 DEF PatchInv, PatchTyped
  <1>3. PatchTyped'
    <2>1. Patch!Text' = Patch!Text /\ Patch!Id' = Patch!Id /\ Patch!Record' = Patch!Record
          /\ Patch!NoRecord' = Patch!NoRecord /\ Patch!PreviewStatus' = Patch!PreviewStatus
      BY DEF Patch!Text, Patch!Id, Patch!Record, Patch!NoRecord, Patch!PreviewStatus
    <2>2. new \in [status : Patch!PreviewStatus, before : [File -> Patch!Text],
                   by : Invocation \cup {NoInvocation}]
      BY DEF PatchInv, PatchTyped, Patch!PreviewStatus
    <2> HIDE DEF new
    <2>3. QED
      BY <1>1, <2>1, <2>2 DEF PatchInv, PatchTyped
  <1> HIDE DEF new
  <1>4. preview[p].status = "none" /\ preview[p].by = NoInvocation
    BY <1>1 DEF Patch!NoPreview
  <1>5. work = Patch!Idle
    BY <1>1 DEF PatchInv, WorkTyped, Applying, Undoing, Settling
  <1>6. WorkTyped' /\ WorkFits'
    BY <1>1, <1>5, WorkIdle
  <1>7. PreviewsFit'
    <2>1. Patch!NoPreview' = Patch!NoPreview
      BY DEF Patch!NoPreview
    <2>2. ASSUME NEW q \in Preview
          PROVE  /\ preview'[q].status = "none" => preview'[q] = Patch!NoPreview
                 /\ preview'[q].status \in {"none", "ready"} \/ preview'[q].by \in Invocation
                 /\ preview'[q].by = preview[q].by
                 /\ preview[q].status # "none" => preview'[q].status # "none"
      BY <1>2, <1>4 DEF PatchInv, PreviewsFit
    <2>3. ASSUME NEW q \in Preview, NEW x \in File, preview'[q].before[x] \in Preview
          PROVE  preview'[preview'[q].before[x]].status # "none"
      <3>1. CASE q # p
        BY <1>2, <2>2, <2>3, <3>1 DEF PatchInv, PreviewsFit
      <3>2. CASE q = p
        <4>1. preview'[q].before[x] = content[x]
          BY <1>2, <3>2
        <4>2. preview[content[x]].status # "none"
          <5>1. PICK n \in Nat : \E rank \in [Preview -> 0..n],
                                    chain \in [File -> SUBSET Preview] :
                  Ranked(rank) /\ Chained(rank, chain)
            BY DEF PatchInv, ChainsFit
          <5>2. PICK rank \in [Preview -> 0..n], chain \in [File -> SUBSET Preview] :
                  Ranked(rank) /\ Chained(rank, chain)
            BY <5>1
          <5>3. <<preview[content[x]].by, x>> \in Patch!Id
            BY <2>3, <4>1, <5>2 DEF Chained, Backed
          <5>4. preview[content[x]].by \in Invocation
            BY <5>3 DEF Patch!Id
          <5>5. Patch!NoPreview.by = NoInvocation /\ content[x] \in Preview
            BY <2>3, <4>1 DEF Patch!NoPreview
          <5>6. QED
            BY <5>4, <5>5, PreviewFiles DEF PatchInv, PreviewsFit
        <4>3. QED
          BY <2>2, <2>3, <4>1, <4>2
      <3>3. QED
        BY <3>1, <3>2
    <2>4. \A q, r \in Preview :
            preview'[q].by = preview'[r].by /\ preview'[q].by \in Invocation => q = r
      BY <2>2 DEF PatchInv, PreviewsFit
    <2>5. QED
      BY <2>1, <2>2, <2>3, <2>4 DEF PreviewsFit
  <1>8. RecordsFit'
    <2>1. Patch!Id' = Patch!Id /\ work'.step = "idle"
      BY <1>1 DEF Patch!Id
    <2>2. ASSUME NEW id \in Patch!Id, Live(id)
          PROVE  /\ preview'[record[id].after] = preview[record[id].after]
                 /\ record[id].after \in Preview
      <3>1. record[id].after \in Preview
        BY <2>2, RecordTypes DEF PatchInv, Live
      <3>2. preview[record[id].after].status # "none"
        BY <2>2 DEF PatchInv, RecordsFit
      <3>3. QED
        BY <1>2, <1>4, <3>1, <3>2
    <2>3. QED
      BY <1>1, <2>1, <2>2 DEF PatchInv, RecordsFit, Live, Undoing, Settling
  <1>9. PreparedFits'
    <2>1. Patch!Id' = Patch!Id
      BY DEF Patch!Id
    <2>2. QED
      BY <1>1, <2>1, NothingPrepared DEF PreparedFits
  <1>10. ChainsFit'
    BY <1>1, <1>2, ChainsSaved
  <1>11. QED
    BY <1>3, <1>6, <1>7, <1>8, <1>9, <1>10 DEF PatchInv

LEMMA PatchApply ==
  ASSUME PatchInv, NEW p \in Preview, NEW i \in Invocation, Patch!Apply(p, i)
  PROVE  PatchInv'
  <1>1. /\ alive /\ work.step = "idle" /\ preview[p].status \in Ended
        /\ \A q \in Preview \ {p} : preview[q].by # i
        /\ preview' = [preview EXCEPT ![p].status = "applying", ![p].by = i]
        /\ work' = [step |-> "prepare", of |-> p, todo |-> FilesOf[p], did |-> {},
                    ok |-> TRUE]
        /\ UNCHANGED <<content, record, patches, alive, gone>>
    BY DEF Patch!Apply, Patch!Quiet, Patch!Counts, Patch!Go, Ended
  <1>2. /\ FilesOf[p] \in Seq(File) /\ FilesOf[p] # <<>> /\ Unlike(FilesOf[p])
        /\ Members(FilesOf[p]) \subseteq File
    BY PreviewFiles
  <1>3. \A x \in Members(FilesOf[p]) : content[x] = preview[p].before[x]
    <2>1. Patch!ToSet(FilesOf[p]) = Members(FilesOf[p])
      BY <1>2, ListParts
    <2>2. QED
      BY <2>1 DEF Patch!Apply
  <1> DEFINE Kind == [status : Patch!PreviewStatus, before : [File -> Patch!Text],
                      by : Invocation \cup {NoInvocation}]
  <1>4. /\ preview' \in [Preview -> Kind]
        /\ preview'[p].status = "applying" /\ preview'[p].by = i
        /\ preview'[p].before = preview[p].before
        /\ \A q \in Preview : q # p => preview'[q] = preview[q]
    <2> DEFINE new == [preview[p] EXCEPT !.status = "applying", !.by = i]
    <2>1. new \in Kind /\ new.status = "applying" /\ new.by = i
          /\ new.before = preview[p].before
      BY DEF PatchInv, PatchTyped, Patch!PreviewStatus
    <2>2. preview' = [preview EXCEPT ![p] = new]
      BY <1>1 DEF PatchInv, PatchTyped
    <2>3. preview \in [Preview -> Kind]
      BY DEF PatchInv, PatchTyped
    <2> HIDE DEF new, Kind
    <2>4. QED
      BY <2>1, <2>2, <2>3
  <1>5. Patch!Id' = Patch!Id /\ Patch!Text' = Patch!Text /\ Patch!Record' = Patch!Record
        /\ Patch!NoRecord' = Patch!NoRecord /\ Patch!PreviewStatus' = Patch!PreviewStatus
        /\ Patch!NoPreview' = Patch!NoPreview
    BY DEF Patch!Id, Patch!Text, Patch!Record, Patch!NoRecord, Patch!PreviewStatus,
           Patch!NoPreview
  <1>6. PatchTyped'
    BY <1>1, <1>4, <1>5 DEF PatchInv, PatchTyped
  <1> HIDE DEF Kind
  <1>7. work'.step = "prepare" /\ work'.of = p /\ work'.todo = FilesOf[p]
    BY <1>1
  <1>8. WorkTyped'
    BY <1>1, <1>2, <1>7 DEF WorkTyped, Applying
  <1>9. WorkFits'
    BY <1>1, <1>2, <1>3, <1>4, <1>7 DEF WorkFits, Applying, Undoing, Settling
  <1>10. PreviewsFit'
    <2>1. ASSUME NEW q \in Preview
          PROVE  /\ preview'[q].status = "none" => preview'[q] = Patch!NoPreview
                 /\ preview'[q].status \in {"none", "ready"} \/ preview'[q].by \in Invocation
                 /\ preview'[q].before = preview[q].before
                 /\ preview[q].status # "none" => preview'[q].status # "none"
      BY <1>4 DEF PatchInv, PreviewsFit
    <2>2. \A q, r \in Preview :
            preview'[q].by = preview'[r].by /\ preview'[q].by \in Invocation => q = r
      BY <1>1, <1>4 DEF PatchInv, PreviewsFit
    <2>3. \A q \in Preview, x \in File : preview'[q].before[x] \in Preview =>
            preview'[preview'[q].before[x]].status # "none"
      BY <2>1 DEF PatchInv, PreviewsFit
    <2>4. QED
      BY <1>5, <2>1, <2>2, <2>3 DEF PreviewsFit
  <1>11. RecordsFit'
    <2>1. ASSUME NEW id \in Patch!Id, Live(id)
          PROVE  /\ preview'[record[id].after] = preview[record[id].after]
                 /\ record[id].after # p
      <3>1. record[id].after \in Preview
        BY <2>1, RecordTypes DEF PatchInv, Live
      <3>2. record[id].after # p
        BY <1>1, <2>1 DEF PatchInv, RecordsFit
      <3>3. QED
        BY <1>4, <3>1, <3>2
    <2>2. QED
      BY <1>1, <1>5, <1>7, <2>1 DEF PatchInv, RecordsFit, Live
  <1>12. PreparedFits'
    BY <1>1, <1>5, NothingPrepared DEF PreparedFits
  <1>13. ChainsFit'
    BY <1>1, <1>3, <1>4, <1>7, ChainsApplied
  <1>14. QED
    BY <1>6, <1>8, <1>9, <1>10, <1>11, <1>12, <1>13 DEF PatchInv

(* The operation turns to taking back what it did.                           *)
LEMMA TurnBack ==
  ASSUME PatchInv, work.step \in {"prepare", "swap", "mark"}, NEW files \in Seq(File),
         NEW did,
         Patch!Go("back", work.of, Patch!Touched(files, did), work'.did, TRUE),
         Members(files) \subseteq Members(FilesOf[work.of]),
         \A id \in Patch!Id : Live(id) /\ record[id].after = work.of =>
           id[2] \in Members(files),
         work.step = "mark" => content[Patch!Current] # record[Patch!CurrentId].after,
         UNCHANGED <<content, record, patches, preview, alive, gone>>
  PROVE  PatchInv'
  <1>1. work.of \in Preview /\ alive /\ preview[work.of].status = "applying"
        /\ work.todo # <<>>
    BY WorkAt DEF PatchInv, WorkFits, Applying
  <1>2. /\ work' = [step |-> "back", of |-> work.of, todo |-> work'.todo, did |-> work'.did,
                    ok |-> TRUE]
        /\ work'.step = "back" /\ work'.of = work.of /\ work'.ok = TRUE
        /\ work'.todo = Patch!Touched(files, did)
    BY DEF Patch!Go
  <1>3. work'.todo \in Seq(File) /\ Members(work'.todo) = Members(files)
    BY <1>2, TouchedAre
  <1>4. Patch!Id' = Patch!Id /\ Patch!Text' = Patch!Text /\ Patch!Record' = Patch!Record
        /\ Patch!NoRecord' = Patch!NoRecord /\ Patch!PreviewStatus' = Patch!PreviewStatus
    BY DEF Patch!Id, Patch!Text, Patch!Record, Patch!NoRecord, Patch!PreviewStatus
  <1>5. PatchTyped'
    BY <1>4 DEF PatchInv, PatchTyped
  <1>6. WorkTyped'
    BY <1>1, <1>2, <1>3 DEF WorkTyped, Applying
  <1>7. WorkFits'
    BY <1>1, <1>2 DEF WorkFits, Applying, Undoing, Settling
  <1>8. PreviewsFit'
    BY PreviewsKeep
  <1>9. RecordsFit'
    <2>1. ASSUME NEW id \in Patch!Id, Live(id)
          PROVE  /\ preview[record[id].after].status \notin Ended \cup {"none"}
                 /\ work'.of = record[id].after => id[2] \in Members(work'.todo)
      BY <1>2, <1>3, <2>1 DEF PatchInv, RecordsFit
    <2>2. QED
      BY <1>2, <2>1, RecordsKeep DEF Live
  <1>10. PreparedFits'
    <2>1. ASSUME NEW id \in Patch!Id, record[id].status = "prepared",
                 content[id[2]] = record[id].after
          PROVE  FALSE
      <3>1. work.step = "mark" /\ id = Patch!CurrentId
        BY <1>1, <2>1 DEF PatchInv, PreparedFits
      <3>2. id[2] = Patch!Current
        BY <1>1, <3>1, WorkAt DEF Applying
      <3>3. QED
        BY <2>1, <3>1, <3>2
    <2>2. QED
      BY <1>4, <2>1 DEF PreparedFits
  <1>11. ChainsFit'
    BY <1>2, <1>5, ChainsKeep
  <1>12. QED
    BY <1>5, <1>6, <1>7, <1>8, <1>9, <1>10, <1>11 DEF PatchInv

LEMMA PatchPrepare ==
  ASSUME PatchInv, Patch!Prepare
  PROVE  PatchInv'
  <1> DEFINE id == Patch!CurrentId
             x == Patch!Current
             p == work.of
             files == FilesOf[work.of]
             fresh == [status |-> "prepared", before |-> content[x], after |-> p]
             usable == \/ record[id] = Patch!NoRecord
                       \/ record[id].status \in {"aborted", "undone"}
                            /\ record[id].before = fresh.before
  <1>1. /\ alive /\ work.step = "prepare"
        /\ UNCHANGED <<content, preview, alive, gone>>
        /\ \/ work' = Patch!Idle /\ UNCHANGED <<record, patches>>
           \/ /\ content[x] # "gone" /\ usable
              /\ record' = [record EXCEPT ![id] = fresh]
              /\ patches' = IF Patch!Contains(patches, id) THEN patches
                            ELSE Append(patches, id)
              /\ Patch!Onward("swap", files, {})
           \/ /\ Patch!Go("back", p, Patch!Touched(Patch!Before(x, files), {}), {}, TRUE)
              /\ UNCHANGED <<record, patches>>
    BY DEF Patch!Prepare, Patch!Counts
  <1>2. /\ p \in Preview /\ work.todo \in Seq(File) /\ work.ok \in BOOLEAN
        /\ Members(work.todo) \subseteq Members(FilesOf[p]) /\ work.todo # <<>>
        /\ preview[p].by \in Invocation
        /\ x \in File /\ x \in Members(work.todo) /\ id = <<preview[p].by, x>>
        /\ id \in Patch!Id /\ id[2] = x /\ id[1] = preview[p].by
    BY <1>1, WorkAt DEF Applying
  <1>3. /\ preview[p].status = "applying" /\ Unlike(work.todo)
        /\ \A z \in Members(work.todo) :
             content[z] \in Preview => content[z] = preview[p].before[z]
    BY <1>1 DEF PatchInv, WorkFits, Applying
  <1>4. /\ Len(work.todo) \in Nat \ {0} /\ Tail(work.todo) \in Seq(File)
        /\ Members(work.todo) = {x} \cup Members(Tail(work.todo))
        /\ Len(work.todo) # 1 => Tail(work.todo) # <<>>
        /\ Unlike(Tail(work.todo)) /\ x \notin Members(Tail(work.todo))
    BY <1>2, <1>3, ListParts DEF Patch!Current
  <1>5. files \in Seq(File) /\ files # <<>> /\ Members(files) \subseteq File
    BY <1>2, PreviewFiles
  <1>6. Patch!Id' = Patch!Id /\ Patch!Text' = Patch!Text /\ Patch!Record' = Patch!Record
        /\ Patch!NoRecord' = Patch!NoRecord /\ Patch!PreviewStatus' = Patch!PreviewStatus
    BY DEF Patch!Id, Patch!Text, Patch!Record, Patch!NoRecord, Patch!PreviewStatus
  <1>7. PreviewsFit'
    BY <1>1, PreviewsKeep
  <1> HIDE DEF id, x, p, files, fresh, usable
  <1>8. CASE work' = Patch!Idle /\ UNCHANGED <<record, patches>>
    <2>1. PatchTyped'
      BY <1>1, <1>6, <1>8 DEF PatchInv, PatchTyped
    <2>2. WorkTyped' /\ WorkFits' /\ work'.step = "idle"
      BY <1>8, WorkIdle
    <2>3. RecordsFit'
      <3>1. \A j \in Patch!Id : Live(j) =>
              preview[record[j].after].status \notin Ended \cup {"none"}
        BY DEF PatchInv, RecordsFit
      <3>2. QED
        BY <1>1, <1>8, <2>2, <3>1, RecordsKeep DEF Live, Undoing, Settling
    <2>4. PreparedFits'
      BY <1>1, <1>6, <1>8, NothingPrepared DEF PreparedFits
    <2>5. ChainsFit'
      BY <1>1, <1>8, <2>1, <2>2, ChainsKeep
    <2>6. QED
      BY <1>7, <2>1, <2>2, <2>3, <2>4, <2>5 DEF PatchInv
  <1>9. CASE /\ content[x] # "gone" /\ usable
             /\ record' = [record EXCEPT ![id] = fresh]
             /\ patches' = IF Patch!Contains(patches, id) THEN patches
                           ELSE Append(patches, id)
             /\ Patch!Onward("swap", files, {})
    <2>1. /\ record'[id] = fresh /\ \A j \in Patch!Id : j # id => record'[j] = record[j]
          /\ fresh.status = "prepared" /\ fresh.before = content[x] /\ fresh.after = p
      BY <1>2, <1>9 DEF PatchInv, PatchTyped, fresh
    <2>2. PatchTyped'
      <3>1. patches' \in Seq(Patch!Id)
        <4>1. patches \in Seq(Patch!Id)
          BY DEF PatchInv, PatchTyped
        <4>2. Append(patches, id) \in Seq(Patch!Id)
          BY <1>2, <4>1, ListExtended
        <4>3. QED
          BY <1>9, <4>1, <4>2
      <3>2. content[x] \in Patch!Text
        BY <1>2 DEF PatchInv, PatchTyped
      <3>3. fresh \in Patch!Record
        BY <1>2, <3>2 DEF fresh, Patch!Record
      <3>4. record' \in [Patch!Id -> Patch!Record \cup {Patch!NoRecord}]
        BY <1>2, <1>9, <3>3 DEF PatchInv, PatchTyped
      <3>5. QED
        BY <1>1, <1>6, <3>1, <3>4 DEF PatchInv, PatchTyped
    <2>3. \/ work' = [step |-> "swap", of |-> p, todo |-> files, did |-> {}, ok |-> work.ok]
          \/ /\ work' = [step |-> "prepare", of |-> p, todo |-> Tail(work.todo),
                         did |-> {}, ok |-> work.ok]
             /\ Len(work.todo) # 1
          \/ /\ work' = [step |-> "prepare", of |-> p, todo |-> Tail(work.todo),
                         did |-> work'.did, ok |-> work.ok]
             /\ Len(work.todo) # 1
      BY <1>1, <1>9 DEF Patch!Onward, Patch!Go, p
    <2>4. /\ work' = [step |-> work'.step, of |-> p, todo |-> work'.todo,
                      did |-> work'.did, ok |-> work.ok]
          /\ work'.of = p /\ work'.step \in {"swap", "prepare"}
          /\ work'.todo \in Seq(File) /\ work'.todo # <<>>
          /\ Members(work'.todo) \subseteq Members(files)
          /\ work'.step = "prepare" => work'.todo = Tail(work.todo)
      <3>1. CASE work' = [step |-> "swap", of |-> p, todo |-> files, did |-> {},
                          ok |-> work.ok]
        BY <1>5, <3>1
      <3>2. CASE /\ work' = [step |-> "prepare", of |-> p, todo |-> Tail(work.todo),
                             did |-> work'.did, ok |-> work.ok]
                 /\ Len(work.todo) # 1
        <4>1. work'.todo = Tail(work.todo) /\ work'.of = p /\ work'.step = "prepare"
          BY <3>2
        <4>2. Members(Tail(work.todo)) \subseteq Members(files)
          BY <1>2, <1>4 DEF files, p
        <4>3. QED
          BY <1>4, <3>2, <4>1, <4>2
      <3>3. QED
        BY <2>3, <3>1, <3>2
    <2>5. WorkTyped'
      <3>1. work' = [step |-> work'.step, of |-> work'.of, todo |-> work'.todo,
                     did |-> work'.did, ok |-> work'.ok] /\ work'.ok \in BOOLEAN
        BY <1>2, <2>4
      <3>2. QED
        BY <1>2, <2>4, <3>1 DEF WorkTyped, Applying, files, p
    <2>6. WorkFits'
      BY <1>1, <1>3, <1>4, <2>4 DEF WorkFits, Applying, Undoing, Settling
    <2>7. RecordsFit'
      <3>1. ASSUME NEW j \in Patch!Id, j # id, Live(j)
            PROVE  /\ preview[record[j].after].status \notin Ended \cup {"none"}
                   /\ work'.of = record[j].after /\ work'.step = "prepare" =>
                        j[2] \notin Members(work'.todo)
                   /\ preview[record[j].after].by = j[1]
                   /\ j[2] \in Members(FilesOf[record[j].after])
                   /\ record[j].before \in Preview =>
                        record[j].before = preview[record[j].after].before[j[2]]
        <4>1. work.of = record[j].after => j[2] \notin Members(work.todo)
          BY <1>1, <3>1 DEF PatchInv, RecordsFit
        <4>2. QED
          BY <1>4, <2>4, <3>1, <4>1 DEF PatchInv, RecordsFit, p
      <3>2. /\ preview[p].status \notin Ended \cup {"none"}
            /\ work'.step = "prepare" => id[2] \notin Members(work'.todo)
            /\ id[2] \in Members(FilesOf[p])
            /\ content[x] \in Preview => content[x] = preview[p].before[id[2]]
        BY <1>2, <1>3, <1>4, <2>4 DEF Ended
      <3>3. work'.step \notin {"back", "back-record"} \cup Undoing \cup Settling
        BY <2>4 DEF Undoing, Settling
      <3>4. ASSUME NEW j \in Patch!Id,
                   record'[j].status \in {"prepared", "applied", "uncertain"}
            PROVE  LET q == record'[j].after IN
                   /\ preview'[q].by = j[1] /\ j[2] \in Members(FilesOf[q])
                   /\ record'[j].before \in Preview =>
                        record'[j].before = preview'[q].before[j[2]]
                   /\ preview'[q].status \notin Ended \cup {"none"}
                   /\ work'.of = q /\ work'.step = "prepare" =>
                        j[2] \notin Members(work'.todo)
        <4>1. CASE j = id
          BY <1>1, <1>2, <2>1, <3>2, <4>1
        <4>2. CASE j # id
          <5>1. record'[j] = record[j] /\ Live(j)
            BY <2>1, <3>4, <4>2 DEF Live
          <5>2. QED
            BY <1>1, <3>1, <4>2, <5>1
        <4>3. QED
          BY <4>1, <4>2
      <3>5. QED
        BY <1>6, <3>3, <3>4 DEF RecordsFit, Live
    <2>8. content[x] # p
      <3>1. PICK n \in Nat : \E rank \in [Preview -> 0..n], chain \in [File -> SUBSET Preview] :
              Ranked(rank) /\ Chained(rank, chain)
        BY DEF PatchInv, ChainsFit
      <3>2. PICK rank \in [Preview -> 0..n], chain \in [File -> SUBSET Preview] :
              Ranked(rank) /\ Chained(rank, chain)
        BY <3>1
      <3>3. SUFFICES ASSUME content[x] = p PROVE FALSE
        OBVIOUS
      <3>4. preview[p].before[x] = p
        BY <1>2, <1>3, <3>3
      <3>5. rank[p] < rank[p]
        BY <1>2, <3>2, <3>4 DEF Ranked
      <3>6. rank[p] \in Nat
        BY <1>2, <3>1, <3>2
      <3>7. QED
        BY <3>5, <3>6
    <2>9. PreparedFits'
      <3>1. \A j \in Patch!Id : record'[j].status = "prepared" =>
              content[j[2]] # record'[j].after
        BY <1>1, <1>2, <2>1, <2>8, NothingPrepared
      <3>2. QED
        BY <1>1, <1>6, <3>1 DEF PreparedFits
    <2>10. ChainsFit'
      <3>1. \A j \in Patch!Id :
             \/ record'[j] = record[j]
             \/ work.step = "prepare" /\ j = Patch!CurrentId
        BY <1>1, <2>1 DEF id
      <3>2. QED
        BY <1>1, <2>2, <2>4, <3>1, ChainsKeep
    <2>11. QED
      BY <1>7, <2>2, <2>5, <2>6, <2>7, <2>9, <2>10 DEF PatchInv
  <1>10. CASE /\ Patch!Go("back", p, Patch!Touched(Patch!Before(x, files), {}), {}, TRUE)
              /\ UNCHANGED <<record, patches>>
    <2> DEFINE some == Patch!Before(x, files)
    <2>1. /\ some \in Seq(File)
          /\ Members(some) = Members(files) \cap (File \ ({x} \cup Members(work.todo)))
      <3>1. Patch!ToSet(work.todo) = Members(work.todo)
        BY <1>2, ListParts
      <3>2. some = Patch!Those(files, File \ ({x} \cup Members(work.todo)))
        BY <3>1 DEF Patch!Before
      <3>3. QED
        BY <1>5, <3>2, ThoseAre
    <2> HIDE DEF some
    <2>2. ASSUME NEW j \in Patch!Id, Live(j), record[j].after = p
          PROVE  j[2] \in Members(some)
      <3>1. j[2] \in Members(files) /\ j[2] \notin Members(work.todo) /\ j[2] \in File
        BY <1>1, <2>2, RecordTypes DEF PatchInv, RecordsFit, files, p
      <3>2. QED
        BY <1>2, <2>1, <3>1
    <2>3. Patch!Go("back", p, Patch!Touched(some, {}), work'.did, TRUE)
      BY <1>10 DEF Patch!Go, some
    <2>4. QED
      BY <1>1, <1>10, <2>1, <2>2, <2>3, TurnBack DEF files, p
  <1>11. QED
    BY <1>1, <1>8, <1>9, <1>10

LEMMA PatchSwap ==
  ASSUME PatchInv, Patch!Swap
  PROVE  PatchInv'
  <1> DEFINE id == Patch!CurrentId
             x == Patch!Current
             p == work.of
  <1>1. /\ alive /\ work.step = "swap"
        /\ UNCHANGED <<record, patches, preview, alive, gone>>
        /\ \/ /\ record[id].status = "prepared" /\ content[x] = record[id].before
              /\ content' = [content EXCEPT ![x] = p]
              /\ work' = [work EXCEPT !.step = "mark"]
           \/ /\ Patch!Go("back", p, Patch!Touched(FilesOf[p], work.did), work.did, TRUE)
              /\ UNCHANGED content
    BY DEF Patch!Swap, Patch!Counts
  <1>2. /\ p \in Preview /\ work.todo \in Seq(File) /\ work.ok \in BOOLEAN
        /\ Members(work.todo) \subseteq Members(FilesOf[p]) /\ work.todo # <<>>
        /\ preview[p].by \in Invocation
        /\ x \in File /\ id = <<preview[p].by, x>>
        /\ id \in Patch!Id /\ id[2] = x /\ id[1] = preview[p].by
    BY <1>1, WorkAt DEF Applying
  <1>3. preview[p].status = "applying"
    BY <1>1 DEF PatchInv, WorkFits, Applying
  <1>4. Patch!Id' = Patch!Id /\ Patch!Text' = Patch!Text /\ Patch!Record' = Patch!Record
        /\ Patch!NoRecord' = Patch!NoRecord /\ Patch!PreviewStatus' = Patch!PreviewStatus
    BY DEF Patch!Id, Patch!Text, Patch!Record, Patch!NoRecord, Patch!PreviewStatus
  <1> HIDE DEF id, x, p
  <1>5. CASE /\ record[id].status = "prepared" /\ content[x] = record[id].before
             /\ content' = [content EXCEPT ![x] = p]
             /\ work' = [work EXCEPT !.step = "mark"]
    <2>1. /\ work' = [step |-> "mark", of |-> work.of, todo |-> work.todo,
                      did |-> work.did, ok |-> work.ok]
      <3>1. work = [step |-> work.step, of |-> work.of, todo |-> work.todo,
                    did |-> work.did, ok |-> work.ok]
        BY <1>1 DEF PatchInv, WorkTyped, Patch!Idle
      <3>2. QED
        BY <1>5, <3>1
    <2>2. /\ work'.step = "mark" /\ work'.of = work.of /\ work'.todo = work.todo
          /\ work'.did = work.did /\ work'.ok = work.ok
      BY <2>1
    <2>3. content'[x] = p /\ \A z \in File : z # x => content'[z] = content[z]
      BY <1>2, <1>5 DEF PatchInv, PatchTyped
    <2>4. PatchTyped'
      <3>1. content' \in [File -> Patch!Text]
        BY <1>2, <1>5 DEF PatchInv, PatchTyped, Patch!Text
      <3>2. QED
        BY <1>1, <1>4, <3>1 DEF PatchInv, PatchTyped
    <2>5. WorkTyped'
      BY <1>2, <2>1, <2>2 DEF WorkTyped, Applying, p
    <2>6. Patch!CurrentId' = id
      BY <1>1, <2>2 DEF Patch!CurrentId, Patch!IdOf, Patch!Current, id
    <2>7. WorkFits'
      BY <1>1, <1>3, <1>5, <2>2, <2>6 DEF WorkFits, Applying, Undoing, Settling, p
    <2>8. PreviewsFit'
      BY <1>1, PreviewsKeep
    <2>9. RecordsFit'
      <3>1. \A j \in Patch!Id : Live(j) =>
              preview[record[j].after].status \notin Ended \cup {"none"}
        BY DEF PatchInv, RecordsFit
      <3>2. QED
        BY <1>1, <2>2, <3>1, RecordsKeep DEF Live, Undoing, Settling
    <2>10. PreparedFits'
      <3>1. ASSUME NEW j \in Patch!Id, record[j].status = "prepared",
                   content'[j[2]] = record[j].after
            PROVE  j = id
        <4>1. /\ content[j[2]] # record[j].after /\ j = <<j[1], j[2]>> /\ j[2] \in File
              /\ Live(j)
          BY <1>1, <3>1, NothingPrepared, RecordTypes DEF PatchInv, Live
        <4>2. j[2] = x /\ record[j].after = p
          BY <2>3, <3>1, <4>1
        <4>3. preview[p].by = j[1]
          BY <4>1, <4>2 DEF PatchInv, RecordsFit
        <4>4. QED
          BY <1>2, <4>1, <4>2, <4>3
      <3>2. QED
        BY <1>1, <1>4, <2>2, <2>6, <3>1 DEF PreparedFits
    <2>11. ChainsFit'
      BY <1>1, <1>5, <2>2, ChainsGrow DEF id, x, p
    <2>12. QED
      BY <2>4, <2>5, <2>7, <2>8, <2>9, <2>10, <2>11 DEF PatchInv
  <1>6. CASE /\ Patch!Go("back", p, Patch!Touched(FilesOf[p], work.did), work.did, TRUE)
             /\ UNCHANGED content
    <2>1. FilesOf[p] \in Seq(File)
      BY <1>2, PreviewFiles
    <2>2. \A j \in Patch!Id : Live(j) /\ record[j].after = p => j[2] \in Members(FilesOf[p])
      BY DEF PatchInv, RecordsFit
    <2>3. Patch!Go("back", p, Patch!Touched(FilesOf[p], work.did), work'.did, TRUE)
      BY <1>6 DEF Patch!Go
    <2>4. QED
      BY <1>1, <1>6, <2>1, <2>2, <2>3, TurnBack DEF p
  <1>7. QED
    BY <1>1, <1>5, <1>6

(* A step that ends the operation, or leads to one of its own, and leaves    *)
(* the files as they are.                                                    *)
LEMMA PatchRests ==
  ASSUME PatchInv, UNCHANGED <<content, patches>>, gone \subseteq gone',
         gone' \subseteq Patch!Id, alive' \in BOOLEAN,
         record' \in [Patch!Id -> Patch!Record \cup {Patch!NoRecord}],
         preview' \in [Preview -> [status : Patch!PreviewStatus,
                                   before : [File -> Patch!Text],
                                   by : Invocation \cup {NoInvocation}]],
         \A p \in Preview :
           /\ preview'[p].by = preview[p].by /\ preview'[p].before = preview[p].before
           /\ \/ preview'[p] = preview[p]
              \/ /\ preview[p].status \notin {"none", "ready"}
                 /\ preview'[p].status \notin {"none", "ready"},
         \A id \in Patch!Id : record'[id].status \in {"prepared", "applied", "uncertain"} =>
           /\ Live(id) /\ record'[id].before = record[id].before
           /\ record'[id].after = record[id].after
           /\ preview'[record[id].after] = preview[record[id].after]
                \/ preview'[record[id].after].status \notin Ended
           /\ record[id].after = work'.of
                /\ work'.step \in {"back", "back-record"} \cup Undoing \cup Settling =>
                id[2] \in Members(work'.todo),
         alive' => \A id \in Patch!Id : record'[id].status = "prepared" =>
                     content[id[2]] # record'[id].after,
         \A id \in Patch!Id :
           \/ record'[id] = record[id]
           \/ record'[id].status = "applied" /\ Live(id)
           \/ record'[id].status = "none" /\ id \in gone'
           \/ record[id].status = "prepared" /\ content[id[2]] # record[id].after
           \/ work.step = "latest-record" /\ id = work.of,
         WorkTyped', WorkFits', work'.step \in {"idle", "swap", "undo", "settle"}
  PROVE  PatchInv'
  <1>1. Patch!Id' = Patch!Id /\ Patch!Text' = Patch!Text /\ Patch!Record' = Patch!Record
        /\ Patch!NoRecord' = Patch!NoRecord /\ Patch!PreviewStatus' = Patch!PreviewStatus
    BY DEF Patch!Id, Patch!Text, Patch!Record, Patch!NoRecord, Patch!PreviewStatus
  <1>2. PatchTyped'
    BY <1>1 DEF PatchInv, PatchTyped
  <1>3. PreviewsFit'
    BY PreviewsKeep
  <1>4. RecordsFit'
    <2>1. ASSUME NEW id \in Patch!Id,
                 record'[id].status \in {"prepared", "applied", "uncertain"}
          PROVE  preview'[record[id].after].status \notin Ended \cup {"none"}
      <3>1. Live(id) /\ record[id].after \in Preview
        BY <2>1, RecordTypes DEF PatchInv, Live
      <3>2. preview[record[id].after].status \notin Ended \cup {"none"}
        BY <3>1 DEF PatchInv, RecordsFit
      <3>3. QED
        BY <2>1, <3>1, <3>2
    <2>2. QED
      BY <2>1, RecordsKeep
  <1>5. PreparedFits'
    BY <1>1 DEF PreparedFits
  <1>6. ChainsFit'
    <2>1. \A id \in Patch!Id :
           \/ record'[id] = record[id]
           \/ record'[id].status = "applied" /\ Live(id)
                /\ record'[id].before = record[id].before
           \/ record'[id].status = "none" /\ id \in gone'
           \/ record[id].status = "prepared" /\ content[id[2]] # record[id].after
           \/ work.step = "latest-record" /\ id = work.of
      OBVIOUS
    <2>2. QED
      BY <1>2, <2>1, ChainsKeep
  <1>7. QED
    BY <1>2, <1>3, <1>4, <1>5, <1>6 DEF PatchInv

LEMMA PatchMark ==
  ASSUME PatchInv, Patch!Mark
  PROVE  PatchInv'
  <1> DEFINE id == Patch!CurrentId
             x == Patch!Current
             p == work.of
  <1>1. /\ alive /\ work.step = "mark"
        /\ UNCHANGED <<content, patches, alive, gone>>
        /\ \/ /\ content[x] # record[id].after
              /\ Patch!Go("back", p, Patch!Touched(FilesOf[p], work.did), work.did, TRUE)
              /\ UNCHANGED <<record, preview>>
           \/ /\ Patch!SetRecord(id, "applied")
              /\ \/ work' = Patch!Idle /\ Patch!SetStatus(p, "applied")
                 \/ /\ Len(work.todo) # 1 /\ UNCHANGED preview
                    /\ Patch!Go("swap", p, Tail(work.todo), work.did \cup {x}, TRUE)
    BY DEF Patch!Mark, Patch!Counts
  <1>2. /\ p \in Preview /\ work.todo \in Seq(File) /\ work.ok \in BOOLEAN
        /\ Members(work.todo) \subseteq Members(FilesOf[p]) /\ work.todo # <<>>
        /\ preview[p].by \in Invocation /\ x \in File /\ id \in Patch!Id /\ id[2] = x
        /\ Live(id) => record[id].after = p
    BY <1>1, WorkAt DEF Applying
  <1>3. preview[p].status = "applying" /\ record[id].status = "prepared"
    BY <1>1 DEF PatchInv, WorkFits, Applying
  <1> HIDE DEF id, x, p
  <1>4. CASE /\ content[x] # record[id].after
             /\ Patch!Go("back", p, Patch!Touched(FilesOf[p], work.did), work.did, TRUE)
             /\ UNCHANGED <<record, preview>>
    <2>1. FilesOf[p] \in Seq(File)
      BY <1>2, PreviewFiles
    <2>2. \A j \in Patch!Id : Live(j) /\ record[j].after = p => j[2] \in Members(FilesOf[p])
      BY DEF PatchInv, RecordsFit
    <2>3. Patch!Go("back", p, Patch!Touched(FilesOf[p], work.did), work'.did, TRUE)
      BY <1>4 DEF Patch!Go
    <2>4. QED
      BY <1>1, <1>4, <2>1, <2>2, <2>3, TurnBack DEF p, x, id
  <1>5. CASE /\ Patch!SetRecord(id, "applied")
             /\ \/ work' = Patch!Idle /\ Patch!SetStatus(p, "applied")
                \/ /\ Len(work.todo) # 1 /\ UNCHANGED preview
                   /\ Patch!Go("swap", p, Tail(work.todo), work.did \cup {x}, TRUE)
    <2>1. /\ record' \in [Patch!Id -> Patch!Record \cup {Patch!NoRecord}]
          /\ \A j \in Patch!Id : j # id => record'[j] = record[j]
          /\ record'[id].status = "applied" /\ record'[id].before = record[id].before
          /\ record'[id].after = record[id].after
      BY <1>2, <1>3, <1>5, RecordSet DEF PatchInv
    <2>2. /\ preview' \in [Preview -> [status : Patch!PreviewStatus,
                                       before : [File -> Patch!Text],
                                       by : Invocation \cup {NoInvocation}]]
          /\ \A q \in Preview : /\ preview'[q].by = preview[q].by
                                /\ preview'[q].before = preview[q].before
                                /\ q # p => preview'[q] = preview[q]
          /\ preview' = preview \/ preview'[p].status = "applied"
      <3>1. CASE UNCHANGED preview
        BY <3>1 DEF PatchInv, PatchTyped
      <3>2. CASE Patch!SetStatus(p, "applied")
        <4>1. "applied" \in Patch!PreviewStatus
          BY DEF Patch!PreviewStatus
        <4>2. QED
          BY <1>2, <3>2, <4>1, StatusSet DEF PatchInv
      <3>3. QED
        BY <1>5, <3>1, <3>2
    <2>3. \/ work' = Patch!Idle
          \/ /\ work' = [step |-> "swap", of |-> p, todo |-> Tail(work.todo),
                         did |-> work.did \cup {x}, ok |-> TRUE]
             /\ Len(work.todo) # 1 /\ preview' = preview
      BY <1>5 DEF Patch!Go
    <2>4. WorkTyped' /\ WorkFits' /\ work'.step \in {"idle", "swap"}
      <3>1. CASE work' = Patch!Idle
        BY <3>1, WorkIdle
      <3>2. CASE /\ work' = [step |-> "swap", of |-> p, todo |-> Tail(work.todo),
                             did |-> work.did \cup {x}, ok |-> TRUE]
                 /\ Len(work.todo) # 1 /\ preview' = preview
        <4>1. work'.step = "swap" /\ work'.of = p /\ work'.todo = Tail(work.todo)
          BY <3>2
        <4>2. /\ Tail(work.todo) \in Seq(File) /\ Tail(work.todo) # <<>>
              /\ Members(Tail(work.todo)) \subseteq Members(FilesOf[p])
          BY <1>2, <3>2, ListParts
        <4>3. WorkTyped'
          BY <1>2, <3>2, <4>1, <4>2 DEF WorkTyped, Applying
        <4>4. WorkFits'
          BY <1>1, <1>3, <3>2, <4>1 DEF WorkFits, Applying, Undoing, Settling
        <4>5. QED
          BY <4>1, <4>3, <4>4
      <3>3. QED
        BY <2>3, <3>1, <3>2
    <2>5. \A j \in Patch!Id : j # id /\ record[j].status = "prepared" =>
            content[j[2]] # record[j].after
      BY <1>1 DEF PatchInv, PreparedFits, id
    <2>6. \A j \in Patch!Id : record'[j].status = "prepared" =>
            content[j[2]] # record'[j].after
      BY <2>1, <2>5
    <2>7. ASSUME NEW j \in Patch!Id,
                 record'[j].status \in {"prepared", "applied", "uncertain"}
          PROVE  /\ Live(j) /\ record'[j].before = record[j].before
                 /\ record'[j].after = record[j].after
                 /\ \/ preview'[record[j].after] = preview[record[j].after]
                    \/ preview'[record[j].after].status \notin Ended
      <3>1. /\ Live(j) /\ record'[j].before = record[j].before
            /\ record'[j].after = record[j].after
        BY <1>3, <2>1, <2>7 DEF Live
      <3>2. record[j].after \in Preview
        BY <3>1, RecordTypes DEF PatchInv, Live
      <3>3. QED
        BY <2>2, <3>1, <3>2 DEF Ended
    <2>8. \A q \in Preview :
            \/ preview'[q] = preview[q]
            \/ /\ preview[q].status \notin {"none", "ready"}
               /\ preview'[q].status \notin {"none", "ready"}
      BY <1>3, <2>2
    <2>9. \A j \in Patch!Id : \/ record'[j] = record[j]
                              \/ record'[j].status = "applied" /\ Live(j)
      BY <1>3, <2>1 DEF Live
    <2>10. work'.step \notin {"back", "back-record"} \cup Undoing \cup Settling
      BY <2>4 DEF Undoing, Settling
    <2>11. alive' \in BOOLEAN /\ gone \subseteq gone' /\ gone' \subseteq Patch!Id
      BY <1>1 DEF PatchInv, PatchTyped
    <2>12. QED
      BY <1>1, <2>1, <2>2, <2>4, <2>6, <2>7, <2>8, <2>9, <2>10, <2>11, PatchRests
  <1>6. QED
    BY <1>1, <1>4, <1>5

LEMMA PatchBack ==
  ASSUME PatchInv, Patch!Back
  PROVE  PatchInv'
  <1> DEFINE id == Patch!CurrentId
             x == Patch!Current
             p == work.of
  <1>1. /\ alive /\ work.step = "back" /\ UNCHANGED <<patches, alive, gone>>
    BY DEF Patch!Back, Patch!Counts
  <1>2. preview[p].status = "applying" /\ p \in Preview
    BY <1>1, WorkAt DEF PatchInv, WorkFits, Applying
  <1>3. CASE work.todo = <<>>
    <2>1. /\ work' = Patch!Idle /\ Patch!SetStatus(p, "rolled-back")
          /\ UNCHANGED <<content, record>>
      BY <1>3 DEF Patch!Back
    <2>2. work.ok /\ Members(work.todo) = {}
      <3>1. work.ok
        BY <1>1, <1>3, WorkAt DEF Applying
      <3>2. Len(<<>>) = 0
        OBVIOUS
      <3>3. QED
        BY <1>3, <3>1, <3>2 DEF Members
    <2>3. WorkTyped' /\ WorkFits' /\ work'.step = "idle"
      BY <2>1, WorkIdle
    <2>4. /\ preview' \in [Preview -> [status : Patch!PreviewStatus,
                                       before : [File -> Patch!Text],
                                       by : Invocation \cup {NoInvocation}]]
          /\ \A q \in Preview : /\ preview'[q].by = preview[q].by
                                /\ preview'[q].before = preview[q].before
                                /\ q # p => preview'[q] = preview[q]
          /\ preview'[p].status = "rolled-back"
      <3>1. "rolled-back" \in Patch!PreviewStatus
        BY DEF Patch!PreviewStatus
      <3>2. QED
        BY <1>2, <2>1, <3>1, StatusSet DEF PatchInv
    <2>5. ASSUME NEW j \in Patch!Id, Live(j)
          PROVE  preview'[record[j].after] = preview[record[j].after]
      <3>1. record[j].after \in Preview
        BY <2>5, RecordTypes DEF PatchInv, Live
      <3>2. record[j].after # p
        BY <1>1, <2>2, <2>5 DEF PatchInv, RecordsFit
      <3>3. QED
        BY <2>4, <3>1, <3>2
    <2>6. \A j \in Patch!Id : record[j].status = "prepared" =>
            content[j[2]] # record[j].after
      BY <1>1, NothingPrepared
    <2>7. \A q \in Preview :
            \/ preview'[q] = preview[q]
            \/ /\ preview[q].status \notin {"none", "ready"}
               /\ preview'[q].status \notin {"none", "ready"}
      BY <1>2, <2>4
    <2>8. /\ alive' \in BOOLEAN /\ gone \subseteq gone' /\ gone' \subseteq Patch!Id
          /\ record' \in [Patch!Id -> Patch!Record \cup {Patch!NoRecord}]
      BY <1>1, <2>1 DEF PatchInv, PatchTyped
    <2>9. work'.step \notin {"back", "back-record"} \cup Undoing \cup Settling
      BY <2>3 DEF Undoing, Settling
    <2> HIDE DEF p
    <2>10. QED
      BY <1>1, <2>1, <2>3, <2>4, <2>5, <2>6, <2>7, <2>8, <2>9, PatchRests DEF Live
  <1>4. CASE work.todo # <<>>
    <2>1. id \in Patch!Id /\ id[2] = x
      BY <1>1, <1>4, WorkAt DEF Applying
    <2>2. \/ /\ record[id].status = "applied"
             /\ Patch!PutBack(id, x, "back-record") /\ UNCHANGED preview
          \/ /\ Patch!Abort(id, x) /\ UNCHANGED content
             /\ Patch!Done(TRUE, "back", "rolled-back", "uncertain")
          \/ /\ Patch!Done(FALSE, "back", "rolled-back", "uncertain")
             /\ UNCHANGED <<content, record>>
      BY <1>4 DEF Patch!Back
    <2> HIDE DEF id, x, p
    <2>3. CASE /\ record[id].status = "applied"
               /\ Patch!PutBack(id, x, "back-record") /\ UNCHANGED preview
      <3>1. /\ content[x] = record[id].after
            /\ content' = [content EXCEPT ![x] = record[id].before]
            /\ work' = [work EXCEPT !.step = "back-record"]
            /\ UNCHANGED record
        BY <2>3 DEF Patch!PutBack
      <3>2. \E then \in {"back-record", "undo-record", "settle-record"} :
              /\ work' = [work EXCEPT !.step = then]
              /\ work.step = "back" <=> then = "back-record"
              /\ work.step = "undo" <=> then = "undo-record"
        BY <1>1, <3>1
      <3>3. QED
        BY <1>1, <1>4, <2>1, <2>3, <3>1, <3>2, FileBack DEF id
    <2>4. CASE /\ Patch!Abort(id, x) /\ UNCHANGED content
               /\ Patch!Done(TRUE, "back", "rolled-back", "uncertain")
      <3>1. record[id].status = "prepared" /\ Patch!SetRecord(id, "aborted")
        BY <2>4 DEF Patch!Abort
      <3>2. QED
        BY <1>1, <1>4, <2>4, <3>1, OneBack DEF id
    <2>5. CASE /\ Patch!Done(FALSE, "back", "rolled-back", "uncertain")
               /\ UNCHANGED <<content, record>>
      BY <1>1, <1>4, <2>5, OneBack
    <2>6. QED
      BY <2>2, <2>3, <2>4, <2>5
  <1>5. QED
    BY <1>3, <1>4

LEMMA PatchBackRecord ==
  ASSUME PatchInv, Patch!BackRecord \/ Patch!UndoRecord
  PROVE  PatchInv'
  <1>1. /\ alive /\ Patch!SetRecord(Patch!CurrentId, "undone")
        /\ \/ /\ work.step = "back-record"
              /\ Patch!Done(TRUE, "back", "rolled-back", "uncertain")
           \/ /\ work.step = "undo-record"
              /\ Patch!Done(TRUE, "undo", "undone", "uncertain")
        /\ UNCHANGED <<content, patches, alive, gone>>
    BY DEF Patch!BackRecord, Patch!UndoRecord, Patch!Counts
  <1>2. work.todo # <<>> /\ record[Patch!CurrentId].status = "applied"
    BY <1>1, WorkAt DEF PatchInv, WorkFits, Applying, Undoing
  <1>3. CASE work.step = "back-record"
    <2>1. Patch!Done(TRUE, "back", "rolled-back", "uncertain")
      BY <1>1, <1>3
    <2>2. QED
      BY <1>1, <1>2, <1>3, <2>1, OneBack
  <1>4. CASE work.step = "undo-record"
    <2>1. Patch!Done(TRUE, "undo", "undone", "uncertain")
      BY <1>1, <1>4
    <2>2. QED
      BY <1>1, <1>2, <1>4, <2>1, OneBack
  <1>5. QED
    BY <1>1, <1>3, <1>4

LEMMA PatchUndo ==
  ASSUME PatchInv, NEW p \in Preview, Patch!Undo(p)
  PROVE  PatchInv'
  <1>1. /\ alive /\ work.step = "idle" /\ preview[p].status = "applied"
        /\ Patch!SetStatus(p, "undoing")
        /\ work' = [step |-> "undo", of |-> p, todo |-> Patch!Reverse(FilesOf[p]),
                    did |-> {}, ok |-> TRUE]
        /\ UNCHANGED <<content, record, patches, alive, gone>>
    BY DEF Patch!Undo, Patch!Quiet, Patch!Counts, Patch!Go
  <1>2. /\ Patch!Reverse(FilesOf[p]) \in Seq(File) /\ Patch!Reverse(FilesOf[p]) # <<>>
        /\ Members(Patch!Reverse(FilesOf[p])) = Members(FilesOf[p])
    BY PreviewFiles, ListReversed
  <1>3. /\ preview' \in [Preview -> [status : Patch!PreviewStatus,
                                     before : [File -> Patch!Text],
                                     by : Invocation \cup {NoInvocation}]]
        /\ \A q \in Preview : /\ preview'[q].by = preview[q].by
                              /\ preview'[q].before = preview[q].before
                              /\ q # p => preview'[q] = preview[q]
        /\ preview'[p].status = "undoing"
    <2>1. "undoing" \in Patch!PreviewStatus
      BY DEF Patch!PreviewStatus
    <2>2. QED
      BY <1>1, <2>1, StatusSet DEF PatchInv
  <1>4. work'.step = "undo" /\ work'.of = p /\ Members(work'.todo) = Members(FilesOf[p])
    BY <1>1, <1>2
  <1>5. WorkTyped'
    BY <1>1, <1>2, <1>4 DEF WorkTyped, Undoing
  <1>6. WorkFits'
    BY <1>1, <1>3, <1>4 DEF WorkFits, Applying, Undoing, Settling
  <1>7. ASSUME NEW id \in Patch!Id, Live(id)
        PROVE  /\ preview'[record[id].after] = preview[record[id].after]
                    \/ preview'[record[id].after].status \notin Ended
               /\ record[id].after = p => id[2] \in Members(work'.todo)
    <2>1. record[id].after \in Preview
      BY <1>7, RecordTypes DEF PatchInv, Live
    <2>2. record[id].after = p => id[2] \in Members(FilesOf[p])
      BY <1>7 DEF PatchInv, RecordsFit
    <2>3. QED
      BY <1>3, <1>4, <2>1, <2>2 DEF Ended
  <1>8. \A id \in Patch!Id : record[id].status = "prepared" =>
          content[id[2]] # record[id].after
    BY <1>1, NothingPrepared
  <1>9. \A q \in Preview :
          \/ preview'[q] = preview[q]
          \/ /\ preview[q].status \notin {"none", "ready"}
             /\ preview'[q].status \notin {"none", "ready"}
    BY <1>1, <1>3
  <1>10. /\ alive' \in BOOLEAN /\ gone \subseteq gone' /\ gone' \subseteq Patch!Id
         /\ record' \in [Patch!Id -> Patch!Record \cup {Patch!NoRecord}]
    BY <1>1 DEF PatchInv, PatchTyped
  <1>11. QED
    BY <1>1, <1>3, <1>4, <1>5, <1>6, <1>7, <1>8, <1>9, <1>10, PatchRests DEF Live

LEMMA PatchUndoFile ==
  ASSUME PatchInv, Patch!UndoFile
  PROVE  PatchInv'
  <1> DEFINE id == Patch!CurrentId
             x == Patch!Current
             p == work.of
  <1>1. /\ alive /\ work.step = "undo" /\ UNCHANGED <<patches, alive, gone>>
        /\ \/ /\ Patch!Undoable(id, x) /\ Patch!PutBack(id, x, "undo-record")
              /\ UNCHANGED preview
           \/ /\ work' = Patch!Idle /\ Patch!SetStatus(p, "uncertain")
              /\ UNCHANGED <<content, record>>
    BY DEF Patch!UndoFile, Patch!Counts
  <1>2. /\ preview[p].status = "undoing" /\ p \in Preview /\ work.todo # <<>>
        /\ id \in Patch!Id /\ id[2] = x
    BY <1>1, WorkAt DEF PatchInv, WorkFits, Undoing
  <1> HIDE DEF id, x, p
  <1>3. CASE /\ Patch!Undoable(id, x) /\ Patch!PutBack(id, x, "undo-record")
             /\ UNCHANGED preview
    <2>1. /\ record[id].status = "applied" /\ content[x] = record[id].after
          /\ content' = [content EXCEPT ![x] = record[id].before]
          /\ work' = [work EXCEPT !.step = "undo-record"]
          /\ UNCHANGED record
      BY <1>3 DEF Patch!PutBack, Patch!Undoable
    <2>2. \E then \in {"back-record", "undo-record", "settle-record"} :
            /\ work' = [work EXCEPT !.step = then]
            /\ work.step = "back" <=> then = "back-record"
            /\ work.step = "undo" <=> then = "undo-record"
      BY <1>1, <2>1
    <2>3. QED
      BY <1>1, <1>2, <1>3, <2>1, <2>2, FileBack DEF id
  <1>4. CASE /\ work' = Patch!Idle /\ Patch!SetStatus(p, "uncertain")
             /\ UNCHANGED <<content, record>>
    <2>1. /\ preview' \in [Preview -> [status : Patch!PreviewStatus,
                                       before : [File -> Patch!Text],
                                       by : Invocation \cup {NoInvocation}]]
          /\ \A q \in Preview : /\ preview'[q].by = preview[q].by
                                /\ preview'[q].before = preview[q].before
                                /\ q # p => preview'[q] = preview[q]
          /\ preview'[p].status = "uncertain"
      <3>1. "uncertain" \in Patch!PreviewStatus
        BY DEF Patch!PreviewStatus
      <3>2. QED
        BY <1>2, <1>4, <3>1, StatusSet DEF PatchInv
    <2>2. WorkTyped' /\ WorkFits' /\ work'.step = "idle"
      BY <1>4, WorkIdle
    <2>3. ASSUME NEW j \in Patch!Id, Live(j)
          PROVE  \/ preview'[record[j].after] = preview[record[j].after]
                 \/ preview'[record[j].after].status \notin Ended
      <3>1. record[j].after \in Preview
        BY <2>3, RecordTypes DEF PatchInv, Live
      <3>2. QED
        BY <2>1, <3>1 DEF Ended
    <2>4. \A j \in Patch!Id : record[j].status = "prepared" =>
            content[j[2]] # record[j].after
      BY <1>1, NothingPrepared
    <2>5. \A q \in Preview :
            \/ preview'[q] = preview[q]
            \/ /\ preview[q].status \notin {"none", "ready"}
               /\ preview'[q].status \notin {"none", "ready"}
      BY <1>2, <2>1
    <2>6. /\ alive' \in BOOLEAN /\ gone \subseteq gone' /\ gone' \subseteq Patch!Id
          /\ record' \in [Patch!Id -> Patch!Record \cup {Patch!NoRecord}]
      BY <1>1, <1>4 DEF PatchInv, PatchTyped
    <2>7. work'.step \notin {"back", "back-record"} \cup Undoing \cup Settling
      BY <2>2 DEF Undoing, Settling
    <2>8. QED
      BY <1>1, <1>4, <2>1, <2>2, <2>3, <2>4, <2>5, <2>6, <2>7, PatchRests DEF Live
  <1>5. QED
    BY <1>1, <1>3, <1>4

LEMMA PatchUndoLatest ==
  ASSUME PatchInv, Patch!UndoLatest
  PROVE  PatchInv'
  <1> DEFINE done == {j \in Patch!Id : record[j].status = "applied"}
             applied == Patch!Those(patches, done)
             id == Patch!Last(applied)
  <1>1. /\ alive /\ work.step = "idle" /\ applied # <<>>
        /\ content[id[2]] = record[id].after
        /\ content' = [content EXCEPT ![id[2]] = record[id].before]
        /\ work' = [step |-> "latest-record", of |-> id, todo |-> <<>>, did |-> {},
                    ok |-> TRUE]
        /\ UNCHANGED <<record, patches, preview, alive, gone>>
    BY DEF Patch!UndoLatest, Patch!Quiet, Patch!Counts, Patch!Go
  <1>2. applied \in Seq(Patch!Id) /\ Members(applied) = Members(patches) \cap done
    <2>1. patches \in Seq(Patch!Id)
      BY DEF PatchInv, PatchTyped
    <2> HIDE DEF done
    <2>2. QED
      BY <2>1, ThoseAre
  <1>3. id \in Members(applied)
    <2> HIDE DEF applied
    <2>1. QED
      BY <1>1, <1>2, LastIsIn
  <1>4. id \in Patch!Id /\ record[id].status = "applied"
    BY <1>2, <1>3
  <1> HIDE DEF id, applied, done
  <1>5. QED
    BY <1>1, <1>4, FileBack

LEMMA PatchLatestRecord ==
  ASSUME PatchInv, Patch!LatestRecord
  PROVE  PatchInv'
  <1>1. /\ alive /\ work.step = "latest-record" /\ Patch!SetRecord(work.of, "undone")
        /\ work' = Patch!Idle /\ UNCHANGED <<content, patches, preview, alive, gone>>
    BY DEF Patch!LatestRecord, Patch!Counts
  <1>2. work.of \in Patch!Id /\ record[work.of].status = "applied"
    BY <1>1 DEF PatchInv, WorkTyped, Patch!Idle, Applying, Undoing, Settling
  <1>3. PICK id \in Patch!Id : id = work.of
    BY <1>2
  <1>4. /\ record' \in [Patch!Id -> Patch!Record \cup {Patch!NoRecord}]
        /\ \A j \in Patch!Id : j # id => record'[j] = record[j]
        /\ record'[id].status = "undone"
    BY <1>1, <1>2, <1>3, RecordSet DEF PatchInv
  <1>5. WorkTyped' /\ WorkFits' /\ work'.step = "idle"
    BY <1>1, WorkIdle
  <1>6. \A j \in Patch!Id : record'[j].status \in {"prepared", "applied", "uncertain"} =>
          Live(j) /\ record'[j] = record[j]
    BY <1>4 DEF Live
  <1>7. \A j \in Patch!Id : record'[j].status = "prepared" =>
          content[j[2]] # record'[j].after
    <2>1. \A j \in Patch!Id : record[j].status = "prepared" =>
            content[j[2]] # record[j].after
      BY <1>1, NothingPrepared
    <2>2. QED
      BY <1>4, <2>1
  <1>8. /\ alive' \in BOOLEAN /\ gone \subseteq gone' /\ gone' \subseteq Patch!Id
        /\ preview' \in [Preview -> [status : Patch!PreviewStatus,
                                     before : [File -> Patch!Text],
                                     by : Invocation \cup {NoInvocation}]]
    BY <1>1 DEF PatchInv, PatchTyped
  <1>9. work'.step \notin {"back", "back-record"} \cup Undoing \cup Settling
    BY <1>5 DEF Undoing, Settling
  <1>10. \A j \in Patch!Id : record'[j] = record[j]
                             \/ (work.step = "latest-record" /\ j = work.of)
    BY <1>1, <1>3, <1>4
  <1>11. QED
    BY <1>1, <1>4, <1>5, <1>6, <1>7, <1>8, <1>9, <1>10, PatchRests

LEMMA PatchBoot ==
  ASSUME PatchInv, Patch!Boot
  PROVE  PatchInv'
  <1>1. /\ ~alive /\ work.step = "idle"
        /\ record' = [id \in Patch!Id |-> Patch!Settled(id)]
        /\ UNCHANGED <<content, patches, preview, gone>>
        /\ \/ alive' = TRUE /\ UNCHANGED work
           \/ /\ \E p \in Patch!Unsettled :
                   Patch!Go("settle", p, Patch!Reverse(FilesOf[p]),
                            Patch!Unsettled \ {p}, TRUE)
              /\ UNCHANGED alive
    BY DEF Patch!Boot, Patch!Counts
  <1>2. ASSUME NEW id \in Patch!Id
        PROVE  /\ record'[id] \in Patch!Record \cup {Patch!NoRecord}
               /\ record'[id].status # "prepared"
               /\ record'[id].status \in {"prepared", "applied", "uncertain"} =>
                    /\ Live(id) /\ record'[id].before = record[id].before
                    /\ record'[id].after = record[id].after
               /\ \/ record'[id] = record[id]
                  \/ record'[id].status = "applied" /\ Live(id)
                  \/ record[id].status = "prepared" /\ content[id[2]] # record[id].after
    <2>1. record'[id] = Patch!Settled(id)
      BY <1>1
    <2>2. CASE record[id].status # "prepared"
      <3>1. Patch!Settled(id) = record[id]
        BY <2>2 DEF Patch!Settled
      <3>2. QED
        BY <2>1, <2>2, <3>1 DEF PatchInv, PatchTyped, Live
    <2>3. CASE record[id].status = "prepared"
      <3> DEFINE s == IF content[id[2]] = record[id].after THEN "applied"
                      ELSE IF content[id[2]] = record[id].before THEN "aborted"
                      ELSE "uncertain"
      <3>1. Patch!Settled(id) = [record[id] EXCEPT !.status = s]
        BY <2>3 DEF Patch!Settled
      <3>2. /\ s \in {"applied", "aborted", "uncertain"}
            /\ s = "applied" \/ content[id[2]] # record[id].after
        OBVIOUS
      <3> HIDE DEF s
      <3>3. record[id] \in Patch!Record
        BY <2>3, RecordTypes DEF PatchInv
      <3>4. /\ record'[id] \in Patch!Record /\ record'[id].status = s
            /\ record'[id].before = record[id].before
            /\ record'[id].after = record[id].after
        BY <2>1, <3>1, <3>2, <3>3 DEF Patch!Record
      <3>5. QED
        BY <2>3, <3>2, <3>4 DEF Live
    <2>4. QED
      BY <2>2, <2>3
  <1>3. record' \in [Patch!Id -> Patch!Record \cup {Patch!NoRecord}]
    BY <1>1, <1>2
  <1>4. work = Patch!Idle
    BY <1>1 DEF PatchInv, WorkTyped, Applying, Undoing, Settling
  <1>5. /\ WorkTyped' /\ WorkFits' /\ work'.step \in {"idle", "settle"}
        /\ work'.step = "settle" => \A id \in Patch!Id :
             record[id].after = work'.of /\ Live(id) => id[2] \in Members(work'.todo)
    <2>1. CASE UNCHANGED work
      BY <1>4, <2>1, WorkIdle
    <2>2. ASSUME NEW p \in Patch!Unsettled,
                 work' = [step |-> "settle", of |-> p, todo |-> Patch!Reverse(FilesOf[p]),
                          did |-> Patch!Unsettled \ {p}, ok |-> TRUE],
                 UNCHANGED alive
          PROVE  /\ WorkTyped' /\ WorkFits' /\ work'.step \in {"idle", "settle"}
                 /\ work'.step = "settle" => \A id \in Patch!Id :
                      record[id].after = work'.of /\ Live(id) =>
                        id[2] \in Members(work'.todo)
      <3>1. /\ p \in Preview /\ preview[p].status \in Open
            /\ Patch!Unsettled \subseteq Preview
            /\ \A q \in Patch!Unsettled : preview[q].status \in Open
        BY DEF Patch!Unsettled, Open
      <3>2. /\ Patch!Reverse(FilesOf[p]) \in Seq(File) /\ Patch!Reverse(FilesOf[p]) # <<>>
            /\ Members(Patch!Reverse(FilesOf[p])) = Members(FilesOf[p])
        BY <3>1, PreviewFiles, ListReversed
      <3>3. /\ work'.step = "settle" /\ work'.of = p
            /\ work'.todo = Patch!Reverse(FilesOf[p])
            /\ work'.did = Patch!Unsettled \ {p}
        BY <2>2
      <3>4. WorkTyped'
        BY <2>2, <3>1, <3>2, <3>3 DEF WorkTyped, Settling
      <3>5. Patch!Id' = Patch!Id
        BY DEF Patch!Id
      <3>6. WorkFits'
        BY <1>1, <1>2, <2>2, <3>1, <3>3, <3>5 DEF WorkFits, Applying, Undoing, Settling
      <3>7. \A id \in Patch!Id : record[id].after = p /\ Live(id) =>
              id[2] \in Members(FilesOf[p])
        BY DEF PatchInv, RecordsFit
      <3>8. QED
        BY <3>2, <3>3, <3>4, <3>6, <3>7
    <2>3. QED
      BY <1>1, <2>1, <2>2 DEF Patch!Go
  <1>6. work'.step \in {"back", "back-record"} \cup Undoing \cup Settling =>
          work'.step = "settle"
    BY <1>5 DEF Undoing, Settling
  <1>7. /\ alive' \in BOOLEAN /\ gone \subseteq gone' /\ gone' \subseteq Patch!Id
        /\ preview' \in [Preview -> [status : Patch!PreviewStatus,
                                     before : [File -> Patch!Text],
                                     by : Invocation \cup {NoInvocation}]]
    BY <1>1 DEF PatchInv, PatchTyped
  <1>8. QED
    BY <1>1, <1>2, <1>3, <1>5, <1>6, <1>7, PatchRests

LEMMA PatchSettle ==
  ASSUME PatchInv, Patch!Settle \/ Patch!SettleRecord
  PROVE  PatchInv'
  <1> DEFINE id == Patch!CurrentId
             x == Patch!Current
  <1>1. /\ work.step \in {"settle", "settle-record"} /\ UNCHANGED <<patches, gone>>
        /\ \/ /\ work.step = "settle" /\ record[id].status = "applied"
              /\ Patch!PutBack(id, x, "settle-record") /\ UNCHANGED <<preview, alive>>
           \/ /\ work.step = "settle" /\ Patch!SettleDone(FALSE)
              /\ UNCHANGED <<content, record>>
           \/ /\ work.step = "settle" /\ record[id].status \in {"none", "aborted", "undone"}
              /\ Patch!SettleDone(TRUE) /\ UNCHANGED <<content, record>>
           \/ /\ work.step = "settle-record" /\ Patch!SetRecord(id, "undone")
              /\ Patch!SettleDone(TRUE) /\ UNCHANGED content
    BY DEF Patch!Settle, Patch!SettleRecord, Patch!Counts
  <1>2. work.todo # <<>> /\ id \in Patch!Id /\ id[2] = x
    BY <1>1, WorkAt DEF Settling
  <1> HIDE DEF id, x
  <1>3. CASE /\ work.step = "settle" /\ record[id].status = "applied"
             /\ Patch!PutBack(id, x, "settle-record") /\ UNCHANGED <<preview, alive>>
    <2>1. /\ content[x] = record[id].after
          /\ content' = [content EXCEPT ![x] = record[id].before]
          /\ work' = [work EXCEPT !.step = "settle-record"]
          /\ UNCHANGED record
      BY <1>3 DEF Patch!PutBack
    <2>2. \E then \in {"back-record", "undo-record", "settle-record"} :
            /\ work' = [work EXCEPT !.step = then]
            /\ work.step = "back" <=> then = "back-record"
            /\ work.step = "undo" <=> then = "undo-record"
      BY <1>3, <2>1
    <2>3. QED
      BY <1>1, <1>2, <1>3, <2>1, <2>2, FileBack DEF id
  <1>4. CASE /\ work.step = "settle" /\ Patch!SettleDone(FALSE)
             /\ UNCHANGED <<content, record>>
    BY <1>1, <1>4, OneSettled DEF Settling
  <1>5. CASE /\ work.step = "settle" /\ record[id].status \in {"none", "aborted", "undone"}
             /\ Patch!SettleDone(TRUE) /\ UNCHANGED <<content, record>>
    BY <1>1, <1>5, OneSettled DEF Settling, Live, id
  <1>6. CASE /\ work.step = "settle-record" /\ Patch!SetRecord(id, "undone")
             /\ Patch!SettleDone(TRUE) /\ UNCHANGED content
    BY <1>1, <1>6, OneSettled DEF Settling, id
  <1>7. QED
    BY <1>1, <1>3, <1>4, <1>5, <1>6

(* A file gets a text that is no preview's: the user edits it, or the kill   *)
(* comes between the two moves that replace it.                              *)
LEMMA PatchEdited ==
  ASSUME PatchInv, NEW x \in File, NEW t \in Patch!Text, t \notin Preview,
         content' = [content EXCEPT ![x] = t],
         UNCHANGED <<record, patches, preview, gone>>,
         \/ work' = work /\ alive' = alive
         \/ work' = Patch!Idle /\ alive' = FALSE
  PROVE  PatchInv'
  <1>1. content'[x] = t /\ \A z \in File : z # x => content'[z] = content[z]
    BY DEF PatchInv, PatchTyped
  <1>2. Patch!Id' = Patch!Id /\ Patch!Text' = Patch!Text /\ Patch!Record' = Patch!Record
        /\ Patch!NoRecord' = Patch!NoRecord /\ Patch!PreviewStatus' = Patch!PreviewStatus
        /\ Patch!Idle' = Patch!Idle
    BY DEF Patch!Id, Patch!Text, Patch!Record, Patch!NoRecord, Patch!PreviewStatus, Patch!Idle
  <1>3. PatchTyped'
    BY <1>2 DEF PatchInv, PatchTyped
  <1>4. WorkTyped' /\ WorkFits'
    <2>1. CASE work' = Patch!Idle
      BY <2>1, WorkIdle
    <2>2. CASE work' = work /\ alive' = alive
      <3>1. Patch!CurrentId' = Patch!CurrentId
        BY <2>2 DEF Patch!CurrentId, Patch!IdOf, Patch!Current
      <3>2. WorkTyped'
        BY <1>2, <2>2 DEF PatchInv, WorkTyped
      <3>3. work.step = "prepare" => work.todo \in Seq(File) /\ Members(work.todo) \subseteq File
        <4>1. work.step = "prepare" => work.todo \in Seq(File)
          BY WorkAt DEF Applying
        <4>2. QED
          BY <4>1, ListParts
      <3>4. work.step = "prepare" => \A z \in Members(work.todo) :
              content'[z] \in Preview => content'[z] = preview[work.of].before[z]
        BY <1>1, <3>3 DEF PatchInv, WorkFits
      <3>5. WorkFits'
        BY <1>2, <2>2, <3>1, <3>4 DEF PatchInv, WorkFits
      <3>6. QED
        BY <3>2, <3>5
    <2>3. QED
      BY <2>1, <2>2
  <1>5. PreviewsFit'
    BY PreviewsKeep
  <1>6. RecordsFit'
    <2>1. CASE work' = Patch!Idle
      <3>1. work'.step = "idle"
        BY <2>1, WorkIdle
      <3>2. QED
        BY <1>2, <3>1 DEF PatchInv, RecordsFit, Live, Undoing, Settling
    <2>2. CASE work' = work
      BY <1>2, <2>2 DEF PatchInv, RecordsFit, Live
    <2>3. QED
      BY <2>1, <2>2
  <1>7. PreparedFits'
    <2>1. CASE work' = work /\ alive' = alive
      <3>1. Patch!CurrentId' = Patch!CurrentId
        BY <2>1 DEF Patch!CurrentId, Patch!IdOf, Patch!Current
      <3>2. ASSUME NEW j \in Patch!Id, record[j].status = "prepared",
                   content'[j[2]] = record[j].after
            PROVE  content[j[2]] = record[j].after
        <4>1. j[2] \in File /\ record[j].after \in Preview
          BY <3>2, RecordTypes DEF PatchInv
        <4>2. QED
          BY <1>1, <3>2, <4>1
      <3>3. QED
        BY <1>2, <2>1, <3>1, <3>2 DEF PatchInv, PreparedFits
    <2>2. CASE alive' = FALSE
      BY <2>2 DEF PreparedFits
    <2>3. QED
      BY <2>1, <2>2
  <1>8. ChainsFit'
    BY ChainsCut
  <1>9. QED
    BY <1>3, <1>4, <1>5, <1>6, <1>7, <1>8 DEF PatchInv

LEMMA PatchEdit ==
  ASSUME PatchInv, NEW x \in File, Patch!Edit(x)
  PROVE  PatchInv'
  <1>1. PICK t \in {"base", "user", "gone"} : content' = [content EXCEPT ![x] = t]
    BY DEF Patch!Edit
  <1>2. t \in Patch!Text /\ t \notin Preview
    BY PreviewFiles DEF Patch!Text
  <1>3. UNCHANGED <<record, patches, preview, gone, work, alive>>
    BY DEF Patch!Edit
  <1>4. QED
    BY <1>1, <1>2, <1>3, PatchEdited

LEMMA PatchKillInSwap ==
  ASSUME PatchInv, Patch!KillInSwap
  PROVE  PatchInv'
  <1>1. /\ work.step = "swap" /\ content' = [content EXCEPT ![Patch!Current] = "gone"]
        /\ work' = Patch!Idle /\ alive' = FALSE
        /\ UNCHANGED <<record, patches, preview, gone>>
    BY DEF Patch!KillInSwap, Patch!Down
  <1>2. Patch!Current \in File
    BY <1>1, WorkAt DEF Applying
  <1>3. "gone" \in Patch!Text /\ "gone" \notin Preview
    BY PreviewFiles DEF Patch!Text
  <1>4. QED
    BY <1>1, <1>2, <1>3, PatchEdited

LEMMA PatchKill ==
  ASSUME PatchInv, Patch!Kill \/ Patch!KillInRecord
  PROVE  PatchInv'
  <1> DEFINE id == Patch!CurrentId
  <1>1. /\ work' = Patch!Idle /\ alive' = FALSE /\ UNCHANGED <<content, patches, preview>>
        /\ \/ UNCHANGED <<record, gone>>
           \/ /\ work.step \in {"mark", "back-record", "undo-record", "settle-record"}
              /\ record' = [record EXCEPT ![id] = Patch!NoRecord]
              /\ gone' = gone \cup {id}
    BY DEF Patch!Kill, Patch!KillInRecord, Patch!Down
  <1>2. work.step \in {"mark", "back-record", "undo-record", "settle-record"} =>
          id \in Patch!Id
    BY WorkAt DEF Applying, Undoing, Settling
  <1> HIDE DEF id
  <1>3. /\ record' \in [Patch!Id -> Patch!Record \cup {Patch!NoRecord}]
        /\ \A j \in Patch!Id : record'[j] = record[j]
                               \/ (record'[j] = Patch!NoRecord /\ j \in gone')
        /\ gone \subseteq gone' /\ gone' \subseteq Patch!Id
    <2>1. CASE UNCHANGED <<record, gone>>
      BY <2>1 DEF PatchInv, PatchTyped
    <2>2. CASE /\ work.step \in {"mark", "back-record", "undo-record", "settle-record"}
               /\ record' = [record EXCEPT ![id] = Patch!NoRecord]
               /\ gone' = gone \cup {id}
      BY <1>2, <2>2 DEF PatchInv, PatchTyped
    <2>3. QED
      BY <1>1, <2>1, <2>2
  <1>4. Patch!NoRecord.status = "none"
    BY DEF Patch!NoRecord
  <1>5. /\ \A j \in Patch!Id : record'[j].status \in {"prepared", "applied", "uncertain"} =>
             Live(j) /\ record'[j] = record[j]
        /\ \A j \in Patch!Id : record'[j] = record[j]
                               \/ (record'[j].status = "none" /\ j \in gone')
    BY <1>3, <1>4 DEF Live
  <1>6. WorkTyped' /\ WorkFits' /\ work'.step = "idle"
    BY <1>1, WorkIdle
  <1>7. work'.step \notin {"back", "back-record"} \cup Undoing \cup Settling
    BY <1>6 DEF Undoing, Settling
  <1>8. preview' \in [Preview -> [status : Patch!PreviewStatus,
                                  before : [File -> Patch!Text],
                                  by : Invocation \cup {NoInvocation}]]
    BY <1>1 DEF PatchInv, PatchTyped
  <1>9. QED
    BY <1>1, <1>3, <1>5, <1>6, <1>7, <1>8, PatchRests

LEMMA PatchStep == Patch!Next => (PatchInv => PatchInv')
  <1> SUFFICES ASSUME Patch!Next, PatchInv
               PROVE  PatchInv'
    OBVIOUS
  <1>1. CASE \E p \in Preview : Patch!Save(p) \/ Patch!Undo(p)
    BY <1>1, PatchSave, PatchUndo
  <1>2. CASE \E p \in Preview, i \in Invocation : Patch!Apply(p, i)
    BY <1>2, PatchApply
  <1>3. CASE Patch!Prepare
    BY <1>3, PatchPrepare
  <1>4. CASE Patch!Swap
    BY <1>4, PatchSwap
  <1>5. CASE Patch!Mark
    BY <1>5, PatchMark
  <1>6. CASE Patch!Back
    BY <1>6, PatchBack
  <1>7. CASE Patch!BackRecord \/ Patch!UndoRecord
    BY <1>7, PatchBackRecord
  <1>8. CASE Patch!UndoFile
    BY <1>8, PatchUndoFile
  <1>9. CASE Patch!UndoLatest
    BY <1>9, PatchUndoLatest
  <1>10. CASE Patch!LatestRecord
    BY <1>10, PatchLatestRecord
  <1>11. CASE Patch!Boot
    BY <1>11, PatchBoot
  <1>12. CASE Patch!Settle \/ Patch!SettleRecord
    BY <1>12, PatchSettle
  <1>13. CASE \E x \in File : Patch!Edit(x)
    BY <1>13, PatchEdit
  <1>14. CASE Patch!Kill \/ Patch!KillInRecord
    BY <1>14, PatchKill
  <1>15. CASE Patch!KillInSwap
    BY <1>15, PatchKillInSwap
  <1>16. QED
    BY <1>1, <1>2, <1>3, <1>4, <1>5, <1>6, <1>7, <1>8, <1>9, <1>10, <1>11, <1>12, <1>13,
       <1>14, <1>15 DEF Patch!Next

(* Whatever is left of a preview that was taken back was lost with its       *)
(* record.                                                                   *)
LEMMA PatchShow == PatchInv => Patch!PatchIsWhole
  <1> SUFFICES ASSUME PatchInv, NEW p \in Preview,
                      preview[p].status \in {"rolled-back", "undone"},
                      NEW x \in Patch!ToSet(FilesOf[p]), content[x] = p
               PROVE  Patch!IdOf(p, x) \in gone
    BY DEF Patch!PatchIsWhole
  <1>1. x \in Members(FilesOf[p]) /\ x \in File
    BY PreviewFiles, ListParts
  <1>2. PICK n \in Nat : \E rank \in [Preview -> 0..n], chain \in [File -> SUBSET Preview] :
          Ranked(rank) /\ Chained(rank, chain)
    BY DEF PatchInv, ChainsFit
  <1>3. PICK rank \in [Preview -> 0..n], chain \in [File -> SUBSET Preview] :
          Ranked(rank) /\ Chained(rank, chain)
    BY <1>2
  <1> DEFINE id == <<preview[p].by, x>>
  <1>4. /\ id \in Patch!Id /\ id[1] = preview[p].by
        /\ \/ record[id].status = "none" /\ id \in gone
           \/ record[id].status \in {"applied", "prepared"}
    BY <1>1, <1>3 DEF Chained, Backed
  <1>5. preview[p].by \in Invocation
    BY <1>4 DEF Patch!Id
  <1> HIDE DEF id
  <1>6. record[id].status \notin {"applied", "prepared"}
    <2>1. SUFFICES ASSUME record[id].status \in {"applied", "prepared"} PROVE FALSE
      OBVIOUS
    <2>2. Live(id) /\ record[id].after \in Preview
      BY <1>4, <2>1, RecordTypes DEF PatchInv, Live
    <2>3. record[id].after = p
      BY <1>4, <1>5, <2>2 DEF PatchInv, RecordsFit, PreviewsFit
    <2>4. QED
      BY <1>4, <2>2, <2>3 DEF PatchInv, RecordsFit, Ended
  <1>7. id \in gone
    BY <1>4, <1>6
  <1>8. QED
    BY <1>7 DEF Patch!IdOf, id
=============================================================================
