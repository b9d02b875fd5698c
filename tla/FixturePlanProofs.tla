-------------------------- MODULE FixturePlanProofs -------------------------
(***************************************************************************)
(* Proofs about FixturePlan for every set of inputs.                       *)
(***************************************************************************)
EXTENDS FixturePlan, FiniteSetTheorems, SequenceTheorems, TLAPS

-----------------------------------------------------------------------------
(***************************************************************************)
(* The inductive invariant.  Kahn's algorithm counts; the invariant says   *)
(* what the counters count, so that "ready" is the set of names all of     *)
(* whose dependencies are planned.                                         *)
(***************************************************************************)
TypeOK ==
    /\ nodes \in Inputs
    /\ phase \in {"check", "link", "loop", "done"}
    /\ err \in {"none", "empty", "duplicate", "unknown", "cycle"}
    /\ out \in Seq(Names)

\* The dependencies of a name that are not planned yet, by their place in its list.
Pending(name) == {j \in 1 .. Len(DependsOn(name)) : DependsOn(name)[j] \notin Planned}

Distinct == \A i, j \in Index : nodes[i].name = nodes[j].name => i = j

Started == phase \in {"check", "link"} => out = << >> /\ err = "none"

Checked == phase \in {"link", "loop"} => NoName \notin Names /\ Distinct

Counting ==
    phase = "loop" =>
        /\ ~Unknown /\ err = "none"
        /\ incoming = [c \in Names |-> Cardinality(Pending(c))]
        /\ ready = [c \in Names |-> IF c \notin Planned /\ incoming[c] = 0 THEN 1 ELSE 0]

\* No name is planned twice.
Once == Cardinality(Planned) = Len(out)

\* A name that is part of a circle is never planned.
OutOfCircles ==
    \A circle \in SUBSET Names :
        (\A name \in circle : Needs(name) \cap circle # {}) => circle \cap Planned = {}

Answered ==
    phase = "done" =>
        /\ err \in {"empty", "duplicate", "unknown"} => ~Valid
        /\ err = "cycle" => Valid /\ Cyclic
        /\ err = "none" => Valid /\ ~Cyclic /\ Planned = Names /\ Len(out) = Len(nodes)

IInv == /\ TypeOK /\ Started /\ Checked /\ Counting /\ Once /\ OutOfCircles
        /\ DependenciesFirst /\ Deterministic /\ Answered

-----------------------------------------------------------------------------
(***************************************************************************)
(* The nodes.                                                              *)
(***************************************************************************)
LEMMA CountTo ==
    ASSUME NEW n \in Nat
    PROVE  IsFiniteSet(1 .. n) /\ Cardinality(1 .. n) = n
<1> DEFINE card == Cardinality(1 .. n)
<1>1. 1 \in Int /\ n \in Int
  OBVIOUS
<1>2. IsFiniteSet(1 .. n) /\ card = (IF 1 > n THEN 0 ELSE n - 1 + 1)
  BY <1>1, FS_Interval, Zenon
<1> HIDE DEF card
<1>3. card = n
  BY <1>2
<1> QED
  BY <1>2, <1>3, Zenon DEF card

LEMMA NodeFacts ==
    ASSUME nodes \in Inputs
    PROVE  /\ Len(nodes) \in Nat
           /\ Names \subseteq Nat
           /\ \A name \in Names : /\ DependsOn(name) \in Seq(Nat)
                                  /\ Len(DependsOn(name)) \in Nat
                                  /\ ~Unknown => Needs(name) \subseteq Names
<1>1. nodes \in Seq([name : Nat, dependsOn : Seq(Nat)])
  BY InputsAssumption
<1>2. Len(nodes) \in Nat /\ \A i \in Index : nodes[i] \in [name : Nat, dependsOn : Seq(Nat)]
  BY <1>1, LenProperties, ElementOfSeq DEF Index
<1>3. Names \subseteq Nat
  BY <1>2 DEF Names
<1>4. ASSUME NEW name \in Names
      PROVE  /\ DependsOn(name) \in Seq(Nat)
             /\ Len(DependsOn(name)) \in Nat
             /\ ~Unknown => Needs(name) \subseteq Names
  <2> DEFINE i == CHOOSE i \in Index : nodes[i].name = name
  <2>1. i \in Index /\ DependsOn(name) = nodes[i].dependsOn
    BY DEF Names, DependsOn
  <2> HIDE DEF i
  <2>2. DependsOn(name) \in Seq(Nat) /\ Len(DependsOn(name)) \in Nat
    BY <1>2, <2>1
  <2>3. ~Unknown => Needs(name) \subseteq Names
    BY <2>1 DEF Unknown, Needs
  <2>4. QED
    BY <2>2, <2>3
<1>5. QED
  BY <1>2, <1>3, <1>4

\* The names are as many as the nodes exactly when none of them is taken twice.
LEMMA AsManyNames ==
    ASSUME nodes \in Inputs
    PROVE  /\ IsFiniteSet(Names)
           /\ Cardinality(Names) = Len(nodes) <=> Distinct
<1> DEFINE f == [i \in Index |-> nodes[i].name]
<1>1. f \in Surjection(Index, Names)
  BY DEF Surjection, Names
<1>2. IsFiniteSet(Index) /\ Cardinality(Index) = Len(nodes)
  <2>1. Len(nodes) \in Nat
    BY NodeFacts
  <2>2. IsFiniteSet(1 .. Len(nodes)) /\ Cardinality(1 .. Len(nodes)) = Len(nodes)
    BY <2>1, CountTo
  <2>3. QED
    BY <2>2 DEF Index
<1>3. /\ IsFiniteSet(Names)
      /\ Cardinality(Names) = Len(nodes) <=> f \in Injection(Index, Names)
  BY <1>1, <1>2, FS_Surjection
<1>4. f \in Injection(Index, Names) <=> Distinct
  <2>1. f \in [Index -> Names] /\ \A i \in Index : f[i] = nodes[i].name
    BY DEF Names
  <2> HIDE DEF f
  <2>2. QED
    BY <2>1 DEF Injection, IsInjective, Distinct
<1>5. QED
  BY <1>3, <1>4

-----------------------------------------------------------------------------
(***************************************************************************)
(* The counters.                                                           *)
(***************************************************************************)
LEMMA PendingFacts ==
    ASSUME nodes \in Inputs, NEW name \in Names
    PROVE  /\ IsFiniteSet(Pending(name)) /\ Cardinality(Pending(name)) \in Nat
           /\ Cardinality(Pending(name)) = 0 <=> Needs(name) \subseteq Planned
<1>1. IsFiniteSet(1 .. Len(DependsOn(name)))
  BY NodeFacts, CountTo
<1>2. Pending(name) \in SUBSET (1 .. Len(DependsOn(name)))
  BY DEF Pending
<1>3. IsFiniteSet(Pending(name))
  BY <1>1, <1>2, FS_Subset
<1>4. Pending(name) = {} <=> Needs(name) \subseteq Planned
  BY DEF Pending, Needs
<1>5. QED
  BY <1>3, <1>4, FS_CardinalityType, FS_EmptySet

\* While the loop runs, the names in the list are those that could come next.
LEMMA ReadyFacts ==
    ASSUME TypeOK, Counting, phase = "loop"
    PROVE  Ready = {name \in Names : name \notin Planned /\ Needs(name) \subseteq Planned}
<1>1. \A c \in Names : ready[c] > 0 <=> c \notin Planned /\ Cardinality(Pending(c)) = 0
  BY DEF Counting
<1>2. DOMAIN ready = Names
  BY DEF Counting
<1>3. QED
  BY <1>1, <1>2, PendingFacts DEF Ready, TypeOK

-----------------------------------------------------------------------------
(***************************************************************************)
(* One name is planned.                                                    *)
(***************************************************************************)
LEMMA OneMore ==
    ASSUME TypeOK, NEW name \in Names, out' = Append(out, name)
    PROVE  /\ out' \in Seq(Names) /\ Len(out) \in Nat /\ Len(out') = Len(out) + 1
           /\ out'[Len(out) + 1] = name
           /\ \A i \in 1 .. Len(out) : out'[i] = out[i]
           /\ Planned' = Planned \cup {name}
<1>1. /\ out' \in Seq(Names) /\ Len(out) \in Nat /\ Len(out') = Len(out) + 1
      /\ out'[Len(out) + 1] = name
      /\ \A i \in 1 .. Len(out) : out'[i] = out[i]
  BY AppendProperties DEF TypeOK
<1>2. Planned' = Planned \cup {name}
  BY <1>1 DEF Planned
<1>3. QED
  BY <1>1, <1>2

LEMMA PlannedFinite == TypeOK => IsFiniteSet(Planned) /\ Planned \subseteq Names
<1> SUFFICES ASSUME TypeOK PROVE IsFiniteSet(Planned) /\ Planned \subseteq Names
  OBVIOUS
<1>1. Planned \in SUBSET Names
  BY DEF Planned, TypeOK
<1>2. QED
  BY <1>1, AsManyNames, FS_Subset DEF TypeOK

\* The counters count on: a name's children lose as many as they listed it.
LEMMA CountsDown ==
    ASSUME TypeOK, Counting, phase = "loop", NEW name \in Names, name \notin Planned,
           Needs(name) \subseteq Planned, Plan(name), \A c \in Planned : Needs(c) \subseteq Planned
    PROVE  Counting'
<1>1. UNCHANGED <<nodes, phase, err>> /\ Names' = Names /\ Unknown' = Unknown
  BY DEF Plan, Names, Index, Unknown
<1>2. \A c : DependsOn(c)' = DependsOn(c)
  BY <1>1 DEF DependsOn, Index
<1>3. Planned' = Planned \cup {name}
  BY OneMore DEF Plan
<1>4. ASSUME NEW c \in Names
      PROVE  /\ Cardinality(Pending(c)') = Cardinality(Pending(c)) - Children(name, c)
             /\ Cardinality(Pending(c)') \in Nat
  <2> DEFINE listed == {j \in 1 .. Len(DependsOn(c)) : DependsOn(c)[j] = name}
  <2>1. Pending(c)' = Pending(c) \ listed /\ Pending(c) \cap listed = listed
    BY <1>2, <1>3 DEF Pending
  <2>2. IsFiniteSet(Pending(c)) /\ Children(name, c) = Cardinality(listed)
    BY PendingFacts DEF TypeOK, Children
  <2>3. QED
    <3> HIDE DEF listed
    <3>1. /\ IsFiniteSet(Pending(c) \ listed)
          /\ Cardinality(Pending(c) \ listed) = Cardinality(Pending(c)) - Cardinality(Pending(c) \cap listed)
      BY <2>2, FS_Difference
    <3>2. /\ IsFiniteSet(Pending(c)')
          /\ Cardinality(Pending(c)') = Cardinality(Pending(c)) - Cardinality(listed)
      BY <2>1, <3>1
    <3>3. QED
      BY <2>2, <3>1, <3>2, FS_CardinalityType
<1>5. incoming' = [c \in Names |-> Cardinality(Pending(c)')]
  BY <1>4 DEF Plan, Counting
<1>6. ASSUME NEW c \in Names
      PROVE  ready'[c] = IF c \notin Planned' /\ incoming'[c] = 0 THEN 1 ELSE 0
  <2>1. /\ incoming[c] = Cardinality(Pending(c)) /\ incoming[c] \in Nat
        /\ incoming'[c] = Cardinality(Pending(c)') /\ incoming'[c] \in Nat
        /\ Children(name, c) = incoming[c] - incoming'[c] /\ incoming'[c] <= incoming[c]
    <3>1. Children(name, c) \in Nat
      <4>1. IsFiniteSet({j \in 1 .. Len(DependsOn(c)) : DependsOn(c)[j] = name})
        <5>1. IsFiniteSet(1 .. Len(DependsOn(c)))
          BY NodeFacts, CountTo DEF TypeOK
        <5>2. {j \in 1 .. Len(DependsOn(c)) : DependsOn(c)[j] = name} \in SUBSET (1 .. Len(DependsOn(c)))
          OBVIOUS
        <5>3. QED
          BY <5>1, <5>2, FS_Subset
      <4>2. QED
        BY <4>1, FS_CardinalityType DEF Children
    <3>2. QED
      BY <1>4, <1>5, <3>1, PendingFacts DEF Counting, TypeOK
  <2>2. ready[c] = IF c \notin Planned /\ incoming[c] = 0 THEN 1 ELSE 0
    BY DEF Counting
  <2>3. ready'[c] = ready[c] - (IF c = name THEN 1 ELSE 0)
                    + (IF incoming[c] > 0 /\ incoming'[c] <= 0 THEN 1 ELSE 0)
    BY DEF Plan
  <2>4. CASE c = name
    <3>1. incoming[c] = 0
      BY <2>1, <2>4, PendingFacts DEF TypeOK
    <3>2. QED
      BY <1>3, <2>1, <2>2, <2>3, <2>4, <3>1
  <2>5. CASE c # name /\ c \in Planned
    <3>1. c \in Planned' /\ incoming[c] = 0
      BY <1>3, <2>1, <2>5, PendingFacts DEF TypeOK
    <3>2. QED
      BY <2>1, <2>2, <2>3, <2>5, <3>1
  <2>6. CASE c # name /\ c \notin Planned
    BY <1>3, <2>1, <2>2, <2>3, <2>6
  <2>7. QED
    BY <2>4, <2>5, <2>6
<1>7. ready' = [c \in Names |-> IF c \notin Planned' /\ incoming'[c] = 0 THEN 1 ELSE 0]
  BY <1>6 DEF Plan
<1>8. QED
  BY <1>1, <1>5, <1>7 DEF Counting

-----------------------------------------------------------------------------
(***************************************************************************)
(* The phases.                                                             *)
(***************************************************************************)
\* Nothing is planned: at the start, and when an error is returned.
Blank == /\ out \in Seq(Names) /\ Planned = {} /\ Len(out) = 0
         /\ Once /\ OutOfCircles /\ DependenciesFirst /\ Deterministic

LEMMA NothingPlanned == out = << >> => Blank
<1> SUFFICES ASSUME out = << >> PROVE Blank
  OBVIOUS
<1>1. out \in Seq(Names) /\ Len(out) = 0
  BY EmptySeq
<1>2. Planned = {}
  BY <1>1 DEF Planned
<1>3. Once
  BY <1>1, <1>2, FS_EmptySet DEF Once
<1>4. QED
  BY <1>1, <1>2, <1>3 DEF Blank, OutOfCircles, DependenciesFirst, Deterministic

LEMMA NothingPlannedNext == (out = << >>)' => Blank'
  BY NothingPlanned, PTL

LEMMA SameNodes ==
    ASSUME UNCHANGED nodes
    PROVE  /\ Names' = Names /\ Index' = Index /\ Unknown' = Unknown /\ Distinct' = Distinct
           /\ Valid' = Valid /\ Cyclic' = Cyclic
           /\ \A c : DependsOn(c)' = DependsOn(c) /\ Needs(c)' = Needs(c)
<1>1. Names' = Names /\ Index' = Index /\ Unknown' = Unknown /\ Distinct' = Distinct
  BY DEF Names, Index, Unknown, Distinct
<1>2. \A c : DependsOn(c)' = DependsOn(c) /\ Needs(c)' = Needs(c)
  BY DEF DependsOn, Needs, Index
<1>3. Valid' = Valid /\ Cyclic' = Cyclic
  BY <1>1, <1>2 DEF Valid, Cyclic
<1>4. QED
  BY <1>1, <1>2, <1>3

LEMMA RefuseKeeps ==
    ASSUME TypeOK, NEW problem \in {"empty", "duplicate", "unknown", "cycle"}, Refuse(problem),
           problem = "cycle" => Valid /\ Cyclic,
           problem # "cycle" => ~Valid
    PROVE  IInv'
<1>1. /\ Names' = Names /\ nodes' \in Inputs /\ out' = << >>
      /\ phase' = "done" /\ err' = problem /\ Valid' = Valid /\ Cyclic' = Cyclic
  BY SameNodes DEF Refuse, TypeOK
<1>2. /\ (out \in Seq(Names))' /\ Once' /\ OutOfCircles' /\ DependenciesFirst' /\ Deterministic'
  BY <1>1, NothingPlannedNext DEF Blank
<1>3. QED
  BY <1>1, <1>2 DEF IInv, TypeOK, Started, Checked, Counting, Answered

LEMMA CheckKeeps == ASSUME IInv, Check PROVE IInv'
<1>1. ASSUME NEW i \in Index, nodes[i].name = NoName \/ Taken(i),
             Refuse(IF nodes[i].name = NoName THEN "empty" ELSE "duplicate")
      PROVE  IInv'
  <2>1. CASE nodes[i].name = NoName
    <3>1. ~Valid
      BY <2>1 DEF Valid, Names
    <3>2. QED
      BY <1>1, <2>1, <3>1, RefuseKeeps DEF IInv
  <2>2. CASE nodes[i].name # NoName
    <3>1. PICK j \in 1 .. i - 1 : nodes[j].name = nodes[i].name
      BY <1>1, <2>2 DEF Taken
    <3>2. ~Distinct
      BY <3>1, NodeFacts DEF Distinct, Index, IInv, TypeOK
    <3>3. ~Valid
      BY <3>2, AsManyNames DEF Valid, IInv, TypeOK
    <3>4. QED
      BY <1>1, <2>2, <3>3, RefuseKeeps DEF IInv
  <2>3. QED
    BY <2>1, <2>2
<1>2. ASSUME \A i \in Index : nodes[i].name # NoName /\ ~Taken(i),
             phase' = "link", UNCHANGED <<nodes, incoming, ready, out, err>>
      PROVE  IInv'
  <2>1. Distinct /\ NoName \notin Names
    <3>1. ASSUME NEW i \in Index, NEW j \in Index, nodes[i].name = nodes[j].name PROVE i = j
      <4>1. ~(i < j) /\ ~(j < i)
        BY <1>2, <3>1, NodeFacts DEF Taken, Index, IInv, TypeOK
      <4>2. QED
        BY <4>1, NodeFacts DEF Index, IInv, TypeOK
    <3>2. QED
      BY <1>2, <3>1 DEF Distinct, Names
  <2>2. Names' = Names /\ Distinct' = Distinct
    BY <1>2, SameNodes
  <2>3. out' = << >> /\ nodes' \in Inputs /\ err' = "none"
    BY <1>2 DEF Check, IInv, Started, TypeOK
  <2>4. (out \in Seq(Names))' /\ Once' /\ OutOfCircles' /\ DependenciesFirst' /\ Deterministic'
    BY <2>3, NothingPlannedNext DEF Blank
  <2>5. QED
    BY <1>2, <2>1, <2>2, <2>3, <2>4 DEF IInv, TypeOK, Started, Checked, Counting, Answered
<1>3. QED
  BY <1>1, <1>2 DEF Check

LEMMA LinkKeeps == ASSUME IInv, Link PROVE IInv'
<1>1. CASE Unknown /\ Refuse("unknown")
  BY <1>1, RefuseKeeps DEF Valid, IInv
<1>2. CASE /\ ~Unknown
           /\ incoming' = [name \in Names |-> Len(DependsOn(name))]
           /\ ready' = [name \in Names |-> IF incoming'[name] = 0 THEN 1 ELSE 0]
           /\ phase' = "loop" /\ UNCHANGED <<nodes, out, err>>
  <2>1. /\ Names' = Names /\ Distinct' = Distinct /\ Unknown' = Unknown
        /\ \A c : DependsOn(c)' = DependsOn(c)
    BY <1>2, SameNodes
  <2>2. out' = << >> /\ nodes' \in Inputs /\ err' = "none" /\ NoName \notin Names /\ Distinct
    BY <1>2 DEF Link, IInv, Started, Checked, TypeOK
  <2>3. /\ (out \in Seq(Names))' /\ Once' /\ OutOfCircles' /\ DependenciesFirst' /\ Deterministic'
        /\ Planned' = {}
    BY <2>2, NothingPlannedNext DEF Blank
  <2>4. ASSUME NEW c \in Names PROVE Cardinality(Pending(c)') = Len(DependsOn(c))
    <3>1. Pending(c)' = 1 .. Len(DependsOn(c))
      BY <2>1, <2>3 DEF Pending
    <3>2. Len(DependsOn(c)) \in Nat
      BY NodeFacts DEF IInv, TypeOK
    <3>3. QED
      <4>1. Cardinality(1 .. Len(DependsOn(c))) = Len(DependsOn(c))
        BY <3>2, CountTo
      <4>2. QED
        BY <3>1, <4>1
  <2>5. Counting'
    BY <1>2, <2>1, <2>2, <2>3, <2>4 DEF Counting
  <2>6. QED
    BY <1>2, <2>1, <2>2, <2>3, <2>5 DEF IInv, TypeOK, Started, Checked, Answered
<1>3. QED
  BY <1>1, <1>2 DEF Link

\* The name that is planned next is the first of those that can be.
LEMMA TakeKeeps == ASSUME IInv, Take PROVE IInv'
<1>1. PICK name \in Ready : (\A other \in Ready : name <= other) /\ Plan(name)
  BY DEF Take
<1>2. phase = "loop" /\ UNCHANGED <<nodes, phase, err>> /\ out' = Append(out, name)
  BY <1>1 DEF Take, Plan
<1>3. /\ Ready = {c \in Names : c \notin Planned /\ Needs(c) \subseteq Planned}
      /\ name \in Names /\ name \notin Planned /\ Needs(name) \subseteq Planned
  BY <1>1, <1>2, ReadyFacts DEF IInv
<1>4. /\ Names' = Names /\ Distinct' = Distinct
      /\ \A c : Needs(c)' = Needs(c)
  BY <1>2, SameNodes
<1>5. /\ out' \in Seq(Names) /\ Len(out) \in Nat /\ Len(out') = Len(out) + 1
      /\ out'[Len(out) + 1] = name
      /\ \A i \in 1 .. Len(out) : out'[i] = out[i]
      /\ Planned' = Planned \cup {name}
  BY <1>2, <1>3, OneMore DEF IInv
<1> DEFINE Before(i) == {out[j] : j \in 1 .. i - 1}
           BeforeNow(i) == {out'[j] : j \in 1 .. i - 1}
<1>6. /\ \A i \in 1 .. Len(out) : BeforeNow(i) = Before(i)
      /\ BeforeNow(Len(out) + 1) = Planned
  <2>1. ASSUME NEW i \in 1 .. Len(out) PROVE BeforeNow(i) = Before(i)
    <3>1. \A j \in 1 .. i - 1 : out'[j] = out[j]
      BY <1>5
    <3>2. QED
      BY <3>1
  <2>2. BeforeNow(Len(out) + 1) = Planned
    <3>1. Len(out) + 1 - 1 = Len(out)
      BY <1>5
    <3>2. QED
      BY <1>5, <3>1 DEF Planned
  <2>3. QED
    BY <2>1, <2>2
<1>7. \A i \in 1 .. Len(out') : i \in 1 .. Len(out) \/ i = Len(out) + 1
  BY <1>5
<1>8. DependenciesFirst'
  <2>1. \A i \in 1 .. Len(out) : Needs(out[i]) \subseteq Before(i)
    BY DEF IInv, DependenciesFirst
  <2>2. ASSUME NEW i \in 1 .. Len(out') PROVE Needs(out'[i]) \subseteq BeforeNow(i)
    <3>1. CASE i \in 1 .. Len(out)
      BY <1>5, <1>6, <2>1, <3>1
    <3>2. CASE i = Len(out) + 1
      BY <1>3, <1>5, <1>6, <3>2
    <3>3. QED
      BY <1>7, <3>1, <3>2
  <2>3. QED
    BY <1>4, <2>2 DEF DependenciesFirst
<1>9. Deterministic'
  <2>1. \A i \in 1 .. Len(out) : \A c \in Names : c \notin Before(i) /\ Needs(c) \subseteq Before(i) => out[i] <= c
    BY DEF IInv, Deterministic
  <2>2. ASSUME NEW i \in 1 .. Len(out'), NEW c \in Names, c \notin BeforeNow(i), Needs(c) \subseteq BeforeNow(i)
        PROVE  out'[i] <= c
    <3>1. CASE i \in 1 .. Len(out)
      BY <1>5, <1>6, <2>1, <2>2, <3>1
    <3>2. CASE i = Len(out) + 1
      BY <1>1, <1>3, <1>5, <1>6, <2>2, <3>2
    <3>3. QED
      BY <1>7, <3>1, <3>2
  <2>3. QED
    BY <1>4, <2>2 DEF Deterministic
<1>10. Once'
  <2>1. IsFiniteSet(Planned)
    BY PlannedFinite DEF IInv
  <2>2. Cardinality(Planned \cup {name}) = Cardinality(Planned) + 1
    BY <1>3, <2>1, FS_AddElement
  <2>3. QED
    BY <1>5, <2>2 DEF IInv, Once
<1>11. OutOfCircles'
  <2>1. ASSUME NEW circle \in SUBSET Names, \A c \in circle : Needs(c) \cap circle # {}
        PROVE  circle \cap Planned' = {}
    <3>1. circle \cap Planned = {}
      BY <2>1 DEF IInv, OutOfCircles
    <3>2. name \notin circle
      BY <1>3, <2>1, <3>1
    <3>3. QED
      BY <1>5, <3>1, <3>2
  <2>2. QED
    BY <1>4, <2>1 DEF OutOfCircles
<1>12. Counting'
  <2>1. \A c \in Planned : Needs(c) \subseteq Planned
    <3>1. ASSUME NEW i \in 1 .. Len(out) PROVE Needs(out[i]) \subseteq Planned
      <4>1. Before(i) \subseteq Planned
        BY <1>5 DEF Planned
      <4>2. QED
        BY <4>1 DEF IInv, DependenciesFirst
    <3>2. QED
      BY <3>1 DEF Planned
  <2>2. QED
    BY <1>1, <1>2, <1>3, <2>1, CountsDown DEF IInv
<1>13. TypeOK' /\ Started' /\ Checked' /\ Answered'
  BY <1>2, <1>4, <1>5 DEF IInv, TypeOK, Started, Checked, Answered
<1>14. QED
  BY <1>8, <1>9, <1>10, <1>11, <1>12, <1>13 DEF IInv

\* The list is empty: what is left, if anything, is a circle.
LEMMA FinishKeeps == ASSUME IInv, Finish PROVE IInv'
<1>1. /\ TypeOK /\ phase = "loop" /\ NoName \notin Names /\ Distinct /\ ~Unknown /\ err = "none"
      /\ Planned \subseteq Names /\ Cardinality(Planned) = Len(out)
  BY PlannedFinite DEF IInv, Finish, Checked, Counting, Once
<1>2. /\ IsFiniteSet(Names) /\ Cardinality(Names) = Len(nodes) /\ Valid
  BY <1>1, AsManyNames DEF TypeOK, Valid
<1>3. \A c \in Names \ Planned : ~(Needs(c) \subseteq Planned)
  BY <1>1, ReadyFacts DEF Finish, IInv
<1>4. CASE Len(out) # Len(nodes) /\ Refuse("cycle")
  <2>1. Names \ Planned # {}
    BY <1>1, <1>2, <1>4
  <2>2. \A c \in Names \ Planned : Needs(c) \cap (Names \ Planned) # {}
    BY <1>1, <1>3, NodeFacts DEF TypeOK
  <2>3. Cyclic
    BY <2>1, <2>2 DEF Cyclic
  <2>4. QED
    BY <1>1, <1>2, <1>4, <2>3, RefuseKeeps
<1>5. CASE Len(out) = Len(nodes) /\ phase' = "done" /\ UNCHANGED <<nodes, incoming, ready, out, err>>
  <2>1. Planned = Names
    BY <1>1, <1>2, <1>5, FS_Subset
  <2>2. ~Cyclic
    BY <2>1 DEF IInv, OutOfCircles, Cyclic
  <2>3. /\ Names' = Names /\ Valid' = Valid /\ Cyclic' = Cyclic /\ Planned' = Planned
        /\ \A c : Needs(c)' = Needs(c)
    BY <1>5, SameNodes DEF Planned
  <2>4. TypeOK' /\ Started' /\ Checked' /\ Counting' /\ Once'
    BY <1>1, <1>5, <2>3 DEF TypeOK, Started, Checked, Counting, Once
  <2>5. OutOfCircles' /\ DependenciesFirst' /\ Deterministic'
    <3>1. OutOfCircles'
      BY <2>3 DEF IInv, OutOfCircles
    <3>2. DependenciesFirst'
      BY <1>5, <2>3 DEF IInv, DependenciesFirst
    <3>3. Deterministic'
      BY <1>5, <2>3 DEF IInv, Deterministic
    <3>4. QED
      BY <3>1, <3>2, <3>3
  <2>6. Answered'
    BY <1>1, <1>2, <1>5, <2>1, <2>2, <2>3 DEF Answered
  <2>7. QED
    BY <2>4, <2>5, <2>6 DEF IInv
<1>6. QED
  BY <1>4, <1>5 DEF Finish

LEMMA StutterKeeps == ASSUME IInv, UNCHANGED vars PROVE IInv'
<1> USE DEF vars
<1>1. /\ Names' = Names /\ Distinct' = Distinct /\ Unknown' = Unknown /\ Valid' = Valid
      /\ Cyclic' = Cyclic /\ Planned' = Planned
      /\ \A c : DependsOn(c)' = DependsOn(c) /\ Needs(c)' = Needs(c)
  BY SameNodes DEF Planned
<1>2. \A c : Pending(c)' = Pending(c)
  BY <1>1 DEF Pending
<1>3. TypeOK' /\ Started' /\ Checked' /\ Counting' /\ Once' /\ Answered'
  BY <1>1, <1>2 DEF IInv, TypeOK, Started, Checked, Counting, Once, Answered
<1>4. OutOfCircles'
  BY <1>1 DEF IInv, OutOfCircles
<1>5. DependenciesFirst'
  BY <1>1 DEF IInv, DependenciesFirst
<1>6. Deterministic'
  BY <1>1 DEF IInv, Deterministic
<1>7. QED
  BY <1>3, <1>4, <1>5, <1>6 DEF IInv

LEMMA InitEstablishes == Init => IInv
BY NothingPlanned DEF Init, Blank, IInv, TypeOK, Started, Checked, Counting, Answered

LEMMA StepKeeps == IInv /\ [Next]_vars => IInv'
BY CheckKeeps, LinkKeeps, TakeKeeps, FinishKeeps, StutterKeeps DEF Next, Step, Returned

-----------------------------------------------------------------------------
\* What the counters of Plan count, and what its list of ready names is, holds at
\* every moment (plan.go:17-58).
THEOREM InvariantHolds == Spec => []IInv
  BY InitEstablishes, StepKeeps, PTL DEF Spec

\* For every list of fixtures: each comes after all it depends on
\* (plan.go:46-58).
THEOREM DependenciesComeFirst == Spec => []DependenciesFirst
<1>1. IInv => DependenciesFirst
  BY DEF IInv
<1>2. QED
  BY <1>1, InvariantHolds, PTL

\* For every list of fixtures: of those that could come next it is the first by
\* name, so that neither the order of the list nor that of a map can be seen in
\* the plan (plan.go:14, 40-45, 57).
THEOREM PlanIsDeterministic == Spec => []Deterministic
<1>1. IInv => Deterministic
  BY DEF IInv
<1>2. QED
  BY <1>1, InvariantHolds, PTL

\* For every list of fixtures: when Plan returns, it returns them all, or an
\* error, and that of a circle exactly if there is one (plan.go:21-34, 59-62).
THEOREM PlanOrErrorHolds == Spec => []PlanOrError
<1>1. IInv => PlanOrError
  BY DEF IInv, TypeOK, Answered, PlanOrError
<1>2. QED
  BY <1>1, InvariantHolds, PTL
=============================================================================
