-------------------------- MODULE ProfileCheckProofs -------------------------
(***************************************************************************)
(* Proofs about ProfileCheck for all documents that decode.                *)
(***************************************************************************)
EXTENDS ProfileCheck, FiniteSetTheorems, TLAPS

-----------------------------------------------------------------------------
(***************************************************************************)
(* What Validate has to say of a document, whatever order the tables come  *)
(* in; and the inductive invariant: it has said so much of it.             *)
(***************************************************************************)
HeaderProblems ==
    Diagnose(doc.version # SupportedVersion, "version", 0, "", "unsupported") \cup
    Diagnose(~Identifier(doc.schema), "database", 0, "schema", "identifier") \cup
    Diagnose(~doc.disposable, "database", 0, "require_disposable", "must be true") \cup
    validateIdentity("owner", doc.owner) \cup
    validateIdentity("adversary", doc.adversary)

FixturesProblems ==
    (UNION {FixtureProblems(f) : f \in FixtureIndex}) \cup
    Diagnose(doc.fixtures = << >>, "fixtures", 0, "", "empty")

AttacksProblems ==
    (UNION {AttackProblems(a) : a \in AttackIndex}) \cup
    Diagnose(doc.attacks = << >>, "attacks", 0, "", "empty")

Tables == {doc.fixtures[f].table : f \in FixtureIndex}

TableProblems(table) ==
    IF Targets(table) = {}
    THEN {<<"fixtures", f, "table", "no attack">> : f \in OfTable(table)}
    ELSE UNION {KeyProblems(table, f) : f \in OfTable(table)}

Problems ==
    HeaderProblems \cup FixturesProblems \cup AttacksProblems \cup
    UNION {TableProblems(table) : table \in Tables}

TypeOK ==
    /\ doc \in Documents /\ tables \subseteq Tables
    /\ phase \in {"header", "fixtures", "attacks", "keys", "accepted", "rejected"}
    /\ phase # "keys" => tables = {}

Said ==
    CASE phase = "header"   -> {}
      [] phase = "fixtures" -> HeaderProblems
      [] phase = "attacks"  -> HeaderProblems \cup FixturesProblems
      [] OTHER -> HeaderProblems \cup FixturesProblems \cup AttacksProblems \cup
                  UNION {TableProblems(table) : table \in Tables \ tables}

Verdict ==
    /\ phase = "accepted" => diagnostics = {}
    /\ phase = "rejected" => diagnostics # {}

IInv == TypeOK /\ diagnostics = Said /\ Verdict

-----------------------------------------------------------------------------
LEMMA InitHolds == Init => IInv
BY DEF Init, IInv, TypeOK, Said, Verdict

\* No part of what there is to say depends on anything but the document.
LEMMA SameProblems ==
    doc' = doc =>
        /\ HeaderProblems' = HeaderProblems /\ FixturesProblems' = FixturesProblems
        /\ AttacksProblems' = AttacksProblems /\ Tables' = Tables
        /\ \A table : TableProblems(table)' = TableProblems(table)
<1>1. SUFFICES ASSUME doc' = doc
               PROVE  /\ HeaderProblems' = HeaderProblems /\ FixturesProblems' = FixturesProblems
                      /\ AttacksProblems' = AttacksProblems /\ Tables' = Tables
                      /\ \A table : TableProblems(table)' = TableProblems(table)
  OBVIOUS
<1>2. HeaderProblems' = HeaderProblems
  BY <1>1 DEF HeaderProblems
<1>3. /\ FixtureIndex' = FixtureIndex /\ AttackIndex' = AttackIndex
      /\ \A table : OfTable(table)' = OfTable(table) /\ Targets(table)' = Targets(table)
  BY <1>1 DEF FixtureIndex, AttackIndex, OfTable, Targets
<1>4. \A f : FixtureProblems(f)' = FixtureProblems(f)
  BY <1>1 DEF FixtureProblems
<1>5. \A a : AttackProblems(a)' = AttackProblems(a)
  BY <1>1, <1>3 DEF AttackProblems
<1>6. \A table : KeyOf(table)' = KeyOf(table)
  BY <1>1, <1>3 DEF KeyOf
<1>7. \A f, key : HasKey(f, key)' = HasKey(f, key)
  BY <1>1 DEF HasKey
<1>8. \A table, f : KeyProblems(table, f)' = KeyProblems(table, f)
  BY <1>1, <1>3, <1>6, <1>7 DEF KeyProblems
<1>9. \A table : TableProblems(table)' = TableProblems(table)
  BY <1>3, <1>8 DEF TableProblems
<1>10. Tables' = Tables
  BY <1>1, <1>3 DEF Tables
<1>11. FixturesProblems' = FixturesProblems
  BY <1>1, <1>3, <1>4 DEF FixturesProblems
<1>12. AttacksProblems' = AttacksProblems
  BY <1>1, <1>3, <1>5 DEF AttacksProblems
<1> QED
  BY <1>2, <1>9, <1>10, <1>11, <1>12

LEMMA NextKeeps == IInv /\ [Next]_vars => IInv'
<1>1. SUFFICES ASSUME IInv, [Next]_vars PROVE IInv'
  OBVIOUS
<1> USE <1>1 DEF IInv
<1>2. doc' = doc
  BY DEF Next, vars, CheckHeader, CheckFixtures, CheckAttacks, CheckKeys, Decide, Decided
<1>3. /\ HeaderProblems' = HeaderProblems /\ FixturesProblems' = FixturesProblems
      /\ AttacksProblems' = AttacksProblems /\ Tables' = Tables
      /\ \A table : TableProblems(table)' = TableProblems(table)
  BY <1>2, SameProblems
<1>4. CASE CheckHeader
  BY <1>2, <1>3, <1>4 DEF CheckHeader, TypeOK, Said, Verdict, HeaderProblems
<1>5. CASE CheckFixtures
  BY <1>2, <1>3, <1>5 DEF CheckFixtures, TypeOK, Said, Verdict, FixturesProblems
<1>6. CASE CheckAttacks
  <2>1. /\ phase = "attacks" /\ phase' = "keys" /\ tables' = Tables
        /\ diagnostics' = diagnostics \cup AttacksProblems
    BY <1>6 DEF CheckAttacks, AttacksProblems, Tables
  <2>2. diagnostics' = HeaderProblems \cup FixturesProblems \cup AttacksProblems
    BY <2>1 DEF Said
  <2>3. Tables' \ tables' = {}
    BY <1>3, <2>1
  <2>4. UNION {TableProblems(table) : table \in Tables \ tables}' = {}
    BY <2>3
  <2>5. diagnostics' = Said'
    BY <1>3, <2>1, <2>2, <2>4 DEF Said
  <2> QED
    BY <1>2, <1>3, <2>1, <2>5 DEF TypeOK, Verdict
<1>7. CASE CheckKeys
  <2>1. PICK table \in tables : /\ tables' = tables \ {table}
                                /\ diagnostics' = diagnostics \cup TableProblems(table)
    BY <1>7 DEF CheckKeys, TableProblems
  <2>2. phase = "keys" /\ phase' = "keys"
    BY <1>7 DEF CheckKeys
  <2>3. Tables' \ tables' = (Tables \ tables) \cup {table} /\ tables \subseteq Tables
    BY <1>3, <2>1 DEF TypeOK
  <2>4. UNION {TableProblems(t) : t \in (Tables \ tables) \cup {table}} =
            (UNION {TableProblems(t) : t \in Tables \ tables}) \cup TableProblems(table)
    OBVIOUS
  <2>5. {TableProblems(t) : t \in Tables \ tables}' =
            {TableProblems(t) : t \in (Tables \ tables) \cup {table}}
    BY <1>3, <2>3
  <2>6. diagnostics' = Said'
    BY <1>3, <2>1, <2>2, <2>4, <2>5 DEF Said
  <2> QED
    BY <1>2, <1>3, <2>1, <2>2, <2>3, <2>6 DEF TypeOK, Verdict
<1>8. CASE Decide
  <2>1. /\ phase = "keys" /\ tables = {} /\ UNCHANGED <<doc, tables, diagnostics>>
        /\ phase' = IF diagnostics = {} THEN "accepted" ELSE "rejected"
    BY <1>8 DEF Decide
  <2>2. {TableProblems(t) : t \in Tables \ tables}' = {TableProblems(t) : t \in Tables \ tables}
    BY <1>3, <2>1
  <2>3. diagnostics' = Said'
    BY <1>3, <2>1, <2>2 DEF Said
  <2> QED
    BY <1>3, <2>1, <2>3 DEF TypeOK, Verdict
<1>9. CASE UNCHANGED vars
  <2>1. UNCHANGED <<doc, phase, tables, diagnostics>>
    BY <1>9 DEF vars
  <2>2. {TableProblems(t) : t \in Tables \ tables}' = {TableProblems(t) : t \in Tables \ tables}
    BY <1>3, <2>1
  <2>3. diagnostics' = Said'
    BY <1>3, <2>1, <2>2 DEF Said
  <2> QED
    BY <1>3, <2>1, <2>3 DEF TypeOK, Verdict
<1> QED
  BY <1>4, <1>5, <1>6, <1>7, <1>8, <1>9 DEF Next, Decided

\* The invariant holds in every state: the diagnostics are those of the parts that
\* were gone over, whatever the order of the tables (validate.go:43-153).
THEOREM InvariantHolds == Spec => []IInv
BY InitHolds, NextKeeps, PTL DEF Spec

\* The outcome is a function of the document: it is accepted exactly if there is
\* nothing to say about it, and what is said of it is the same for every order in
\* which a map is gone over (validate.go:118-153).
THEOREM OrderIsIrrelevant ==
    Spec => [](phase \in {"accepted", "rejected"} =>
                  diagnostics = Problems /\ (phase = "accepted" <=> Problems = {}))
<1>1. IInv => (phase \in {"accepted", "rejected"} =>
                  diagnostics = Problems /\ (phase = "accepted" <=> Problems = {}))
  <2>1. SUFFICES ASSUME IInv, phase \in {"accepted", "rejected"}
                 PROVE  diagnostics = Problems /\ (phase = "accepted" <=> Problems = {})
    OBVIOUS
  <2>2. Tables \ tables = Tables
    BY <2>1 DEF IInv, TypeOK
  <2>3. diagnostics = Problems
    BY <2>1, <2>2 DEF IInv, Said, Problems
  <2> QED
    BY <2>1, <2>3 DEF IInv, Verdict
<1> QED
  BY <1>1, InvariantHolds, PTL

-----------------------------------------------------------------------------
(***************************************************************************)
(* Least and greatest positions: what CHOOSE finds.                        *)
(***************************************************************************)
LEMMA HasLeast ==
    ASSUME NEW S, S \subseteq Nat, S # {}
    PROVE  \E x \in S : \A y \in S : x <= y
<1> DEFINE less == OpToRel(<, Nat)
<1>1. IsWellFoundedOn(less, Nat)
  BY NatLessThanWellFounded
<1>2. \A x, y \in Nat : y < x => <<y, x>> \in less
  BY DEF OpToRel
<1> HIDE DEF less
<1>3. PICK x \in S : \A y \in S : ~(<<y, x>> \in less)
  BY <1>1, WFMin
<1>4. \A y \in S : ~(y < x) /\ y \in Nat /\ x \in Nat
  BY <1>2, <1>3
<1>5. \A y \in S : x <= y
  BY <1>4
<1> QED
  BY <1>5

LEMMA HasGreatest ==
    ASSUME NEW n \in Nat, NEW S, S \subseteq 1 .. n, S # {}
    PROVE  \E x \in S : \A y \in S : y <= x
<1> DEFINE T == {t \in 0 .. n : n - t \in S}
<1>1. T \subseteq Nat
  OBVIOUS
<1>2. \A y \in S : y \in Nat /\ n - y \in 0 .. n /\ n - (n - y) = y
  OBVIOUS
<1>3. T # {}
  BY <1>2
<1>4. PICK t \in T : \A u \in T : t <= u
  BY <1>1, <1>3, HasLeast
<1>5. \A y \in S : n - y \in T
  BY <1>2
<1>6. \A y \in S : y <= n - t
  BY <1>2, <1>4, <1>5
<1> QED
  BY <1>4, <1>6

LEMMA DocumentFacts ==
    ASSUME doc \in Documents
    PROVE  /\ doc.disposable \in BOOLEAN
           /\ Len(doc.fixtures) \in Nat /\ Len(doc.attacks) \in Nat
           /\ doc.fixtures # << >> => Len(doc.fixtures) >= 1
           /\ doc.attacks # << >> => Len(doc.attacks) >= 1
           /\ \A a \in AttackIndex : IsList(doc.attacks[a].operations)
<1>1. IsDocument(doc)
  BY DocumentsAssumption
<1>2. IsList(doc.fixtures) /\ IsList(doc.attacks)
  BY <1>1 DEF IsDocument
<1>3. \A s : IsList(s) => /\ Len(s) \in Nat /\ DOMAIN s = 1 .. Len(s)
                          /\ s # << >> => Len(s) >= 1
  BY DEF IsList
<1> QED
  BY <1>1, <1>2, <1>3 DEF IsDocument, AttackIndex

LEMMA Positions ==
    ASSUME doc \in Documents, NEW table
    PROVE  /\ OfTable(table) # {} =>
                  \E f \in OfTable(table) : \A g \in OfTable(table) : g <= f
           /\ Targets(table) # {} =>
                  \E a \in Targets(table) : \A b \in Targets(table) : a <= b
<1>1. Len(doc.fixtures) \in Nat /\ Len(doc.attacks) \in Nat
  BY DocumentFacts
<1>2. OfTable(table) \subseteq 1 .. Len(doc.fixtures)
  BY DEF OfTable, FixtureIndex
<1>3. Targets(table) \subseteq Nat
  BY <1>1 DEF Targets, AttackIndex
<1> QED
  BY <1>1, <1>2, <1>3, HasLeast, HasGreatest

\* The key of a table is that of one of its attacks.
LEMMA KeyOfTarget ==
    ASSUME doc \in Documents, NEW table, Targets(table) # {}
    PROVE  \E a \in Targets(table) : KeyOf(table) = doc.attacks[a].key
<1> DEFINE a == CHOOSE a \in Targets(table) : \A b \in Targets(table) : a <= b
<1>1. \E x \in Targets(table) : \A b \in Targets(table) : x <= b
  BY Positions
<1>2. a \in Targets(table)
  BY <1>1
<1>3. KeyOf(table) = doc.attacks[a].key
  BY DEF KeyOf
<1> QED
  BY <1>2, <1>3

LEMMA LastFacts ==
    ASSUME doc \in Documents, NEW a \in AttackIndex, OfTable(doc.attacks[a].table) # {}
    PROVE  /\ LastOf(a) \in OfTable(doc.attacks[a].table)
           /\ \A g \in OfTable(doc.attacks[a].table) : g <= LastOf(a)
<1>1. \E f \in OfTable(doc.attacks[a].table) : \A g \in OfTable(doc.attacks[a].table) : g <= f
  BY Positions
<1> QED
  BY <1>1 DEF LastOf

-----------------------------------------------------------------------------
(***************************************************************************)
(* What it means that there is nothing to say.                             *)
(***************************************************************************)
CleanHeader ==
    /\ doc.version = SupportedVersion /\ Identifier(doc.schema) /\ doc.disposable
    /\ Identifier(doc.owner.role) /\ Identifier(doc.adversary.role)

CleanFixture(f) ==
    LET fixture == doc.fixtures[f]
    IN  /\ Identifier(fixture.table) /\ DOMAIN fixture.row # {}
        /\ \A c \in DOMAIN fixture.row : Identifier(c)

CleanAttack(a) ==
    LET attack == doc.attacks[a]
    IN  /\ Identifier(attack.table) /\ ~\E b \in Targets(attack.table) : b < a
        /\ attack.key # << >> /\ \A c \in Elements(attack.key) : Identifier(c)
        /\ attack.operations # << >> /\ Elements(attack.operations) \subseteq Operations
        /\ OfTable(attack.table) # {}

CleanKey(f) ==
    LET table == doc.fixtures[f].table
    IN  /\ Targets(table) # {} /\ HasKey(f, KeyOf(table))
        /\ ~\E g \in OfTable(table) : /\ g < f /\ HasKey(g, KeyOf(table))
                                      /\ \A c \in Elements(KeyOf(table)) :
                                            doc.fixtures[g].row[c] = doc.fixtures[f].row[c]

Clean ==
    /\ doc \in Documents /\ CleanHeader
    /\ doc.fixtures # << >> /\ doc.attacks # << >>
    /\ \A f \in FixtureIndex : CleanFixture(f) /\ CleanKey(f)
    /\ \A a \in AttackIndex : CleanAttack(a)

LEMMA Silent ==
    ASSUME NEW condition, NEW part, NEW index, NEW field, NEW message,
           Diagnose(condition, part, index, field, message) = {}
    PROVE  ~condition
BY DEF Diagnose

LEMMA NoProblems ==
    ASSUME doc \in Documents, Problems = {}
    PROVE  Clean
<1>1. /\ HeaderProblems = {} /\ FixturesProblems = {} /\ AttacksProblems = {}
      /\ \A table \in Tables : TableProblems(table) = {}
  BY DEF Problems
<1>2. CleanHeader
  <2>1. doc.disposable \in BOOLEAN
    BY DocumentFacts
  <2>2. /\ Diagnose(doc.version # SupportedVersion, "version", 0, "", "unsupported") = {}
        /\ Diagnose(~Identifier(doc.schema), "database", 0, "schema", "identifier") = {}
        /\ Diagnose(~doc.disposable, "database", 0, "require_disposable", "must be true") = {}
        /\ validateIdentity("owner", doc.owner) = {}
        /\ validateIdentity("adversary", doc.adversary) = {}
    BY <1>1 DEF HeaderProblems
  <2>3. \A part, who : validateIdentity(part, who) = {} => Identifier(who.role)
    BY Silent DEF validateIdentity
  <2> QED
    BY <2>1, <2>2, <2>3, Silent DEF CleanHeader
<1>3. /\ \A f \in FixtureIndex : FixtureProblems(f) = {}
      /\ Diagnose(doc.fixtures = << >>, "fixtures", 0, "", "empty") = {}
  BY <1>1 DEF FixturesProblems
<1>4. /\ \A a \in AttackIndex : AttackProblems(a) = {}
      /\ Diagnose(doc.attacks = << >>, "attacks", 0, "", "empty") = {}
  BY <1>1 DEF AttacksProblems
<1>5. ASSUME NEW f \in FixtureIndex PROVE CleanFixture(f)
  <2> DEFINE fixture == doc.fixtures[f]
  <2>1. FixtureProblems(f) = {}
    BY <1>3
  <2>2. /\ Diagnose(~Identifier(fixture.table), "fixtures", f, "table", "identifier") = {}
        /\ Diagnose(DOMAIN fixture.row = {}, "fixtures", f, "owner_row", "empty") = {}
        /\ Diagnose(\E c \in DOMAIN fixture.row : ~Identifier(c),
                    "fixtures", f, "owner_row", "identifier") = {}
    BY <2>1 DEF FixtureProblems
  <2> QED
    BY <2>2, Silent DEF CleanFixture
<1>6. ASSUME NEW a \in AttackIndex PROVE CleanAttack(a)
  <2> DEFINE attack == doc.attacks[a]
  <2>1. AttackProblems(a) = {}
    BY <1>4
  <2>2. /\ Diagnose(~Identifier(attack.table), "attacks", a, "table", "identifier") = {}
        /\ Diagnose(\E b \in Targets(attack.table) : b < a, "attacks", a, "table", "duplicate") = {}
        /\ Diagnose(attack.key = << >>, "attacks", a, "primary_key", "empty") = {}
        /\ validateColumns("attacks", a, "primary_key", attack.key) = {}
        /\ Diagnose(attack.operations = << >>, "attacks", a, "operations", "empty") = {}
        /\ Diagnose(\E op \in Elements(attack.operations) : op \notin Operations,
                    "attacks", a, "operations", "unsupported") = {}
        /\ Diagnose(OfTable(attack.table) = {}, "attacks", a, "table", "no fixture") = {}
    BY <2>1 DEF AttackProblems
  <2>3. \A c \in Elements(attack.key) : Identifier(c)
    BY <2>2, Silent DEF validateColumns
  <2> HIDE DEF attack
  <2>4. /\ Identifier(attack.table) /\ attack.key # << >> /\ attack.operations # << >>
        /\ OfTable(attack.table) # {} /\ ~(\E b \in Targets(attack.table) : b < a)
        /\ ~(\E op \in Elements(attack.operations) : op \notin Operations)
    <3>1. Identifier(attack.table) /\ attack.key # << >>
      BY <2>2, Silent
    <3>2. attack.operations # << >> /\ OfTable(attack.table) # {}
      BY <2>2, Silent
    <3>3. ~(\E b \in Targets(attack.table) : b < a)
      BY <2>2, Silent
    <3>4. ~(\E op \in Elements(attack.operations) : op \notin Operations)
      BY <2>2, Silent
    <3> QED
      BY <3>1, <3>2, <3>3, <3>4
  <2>5. Elements(attack.operations) \subseteq Operations
    BY <2>4
  <2> QED
    BY <2>3, <2>4, <2>5 DEF CleanAttack, attack
<1>7. ASSUME NEW f \in FixtureIndex PROVE CleanKey(f)
  <2> DEFINE table == doc.fixtures[f].table
             key   == KeyOf(table)
             row   == doc.fixtures[f].row
  <2>1. table \in Tables /\ f \in OfTable(table)
    BY DEF Tables, OfTable
  <2>2. TableProblems(table) = {}
    BY <1>1, <2>1
  <2>3. Targets(table) # {}
    BY <2>1, <2>2 DEF TableProblems
  <2>4. KeyProblems(table, f) = {}
    BY <2>1, <2>2, <2>3 DEF TableProblems
  <2>5. /\ Diagnose(~HasKey(f, key), "fixtures", f, "owner_row", "key column missing") = {}
        /\ Diagnose(HasKey(f, key) /\ \E g \in OfTable(table) : g < f /\ HasKey(g, key) /\
                        \A c \in Elements(key) : doc.fixtures[g].row[c] = row[c],
                    "fixtures", f, "owner_row", "duplicate key") = {}
    BY <2>4 DEF KeyProblems
  <2>6. HasKey(f, key)
    BY <2>5, Silent
  <2>7. ~(\E g \in OfTable(table) : g < f /\ HasKey(g, key) /\
            \A c \in Elements(key) : doc.fixtures[g].row[c] = row[c])
    BY <2>5, <2>6, Silent
  <2> QED
    BY <2>3, <2>6, <2>7 DEF CleanKey
<1> QED
  BY <1>2, <1>3, <1>4, <1>5, <1>6, <1>7, Silent DEF Clean

LEMMA AcceptedIsClean == IInv /\ phase = "accepted" => Clean
<1>1. SUFFICES ASSUME IInv, phase = "accepted" PROVE Clean
  OBVIOUS
<1>2. Tables \ tables = Tables /\ doc \in Documents
  BY <1>1 DEF IInv, TypeOK
<1>3. Problems = {}
  BY <1>1, <1>2 DEF IInv, Said, Verdict, Problems
<1> QED
  BY <1>2, <1>3, NoProblems

-----------------------------------------------------------------------------
(***************************************************************************)
(* What follows for the run.                                               *)
(***************************************************************************)
\* Attack a is the attack on its table, and no other is.
LEMMA OneAttack ==
    ASSUME Clean, NEW a \in AttackIndex
    PROVE  /\ a \in Nat /\ Targets(doc.attacks[a].table) = {a}
           /\ KeyOf(doc.attacks[a].table) = doc.attacks[a].key
           /\ OfTable(doc.attacks[a].table) # {}
<1> DEFINE table == doc.attacks[a].table
<1>1. AttackIndex \subseteq Nat
  BY DocumentFacts DEF AttackIndex, Clean
<1>2. ASSUME NEW b \in Targets(table) PROVE b = a
  <2>1. b \in AttackIndex /\ doc.attacks[b].table = table
    BY DEF Targets
  <2>2. a \in Targets(doc.attacks[b].table) /\ b \in Targets(doc.attacks[a].table)
    BY <2>1 DEF Targets
  <2>3. ~(a < b) /\ ~(b < a)
    BY <2>1, <2>2 DEF Clean, CleanAttack
  <2> QED
    BY <1>1, <2>1, <2>3
<1>3. a \in Targets(table)
  BY DEF Targets
<1>4. Targets(table) = {a}
  BY <1>2, <1>3
<1>5. \E b \in Targets(table) : KeyOf(table) = doc.attacks[b].key
  BY <1>3, KeyOfTarget DEF Clean
<1>6. OfTable(table) # {}
  BY DEF Clean, CleanAttack
<1> QED
  BY <1>1, <1>4, <1>5, <1>6

\* Every fixture of the table has the columns of the key.
LEMMA KeysThere ==
    ASSUME Clean, NEW a \in AttackIndex, NEW f \in OfTable(doc.attacks[a].table)
    PROVE  /\ f \in FixtureIndex /\ doc.fixtures[f].table = doc.attacks[a].table
           /\ HasKey(f, doc.attacks[a].key)
<1>1. f \in FixtureIndex /\ doc.fixtures[f].table = doc.attacks[a].table
  BY DEF OfTable
<1>2. CleanKey(f)
  BY <1>1 DEF Clean
<1> QED
  BY <1>1, <1>2, OneAttack DEF CleanKey

LEMMA LoweredIdentity ==
    ASSUME doc \in Documents, NEW who \in {doc.owner, doc.adversary}, Identifier(who.role)
    PROVE  Lower(who) \in Identity
<1>1. IsDocument(doc)
  BY DocumentsAssumption
<1>2. /\ who.role \in Roles
      /\ \A g \in Gucs \cap DOMAIN who.settings : who.settings[g] \in GucValues
  BY <1>1 DEF IsDocument
<1>3. [g \in Gucs |-> IF g \in DOMAIN who.settings THEN who.settings[g] ELSE Unset]
          \in [Gucs -> GucValues \cup {Unset}]
  BY <1>2
<1> QED
  BY <1>2, <1>3 DEF Lower, Identity

LEMMA FunctionIsSequence ==
    ASSUME NEW S, NEW n \in Nat, NEW f \in [1 .. n -> S]
    PROVE  f \in Seq(S) /\ Len(f) = n
OBVIOUS

LEMMA ProfileAccepted ==
    ASSUME Clean
    PROVE  IsProfile(ProfileOf)
<1> DEFINE attempts == [a \in AttackIndex |-> doc.attacks[a].operations]
           attackOf == [f \in FixtureIndex |->
                          CHOOSE a \in AttackIndex : doc.attacks[a].table = doc.fixtures[f].table]
<1>1. /\ doc \in Documents /\ Len(doc.attacks) \in Nat /\ Len(doc.fixtures) \in Nat
      /\ Len(doc.attacks) >= 1 /\ Len(doc.fixtures) >= 1
  BY DocumentFacts DEF Clean
<1>2. doc.disposable = TRUE
  <2>1. doc.disposable \in BOOLEAN /\ doc.disposable
    BY DocumentFacts DEF Clean, CleanHeader
  <2> QED
    BY <2>1
<1>3. Lower(doc.owner) \in Identity /\ Lower(doc.adversary) \in Identity
  BY <1>1, LoweredIdentity DEF Clean, CleanHeader
<1>4. ASSUME NEW a \in AttackIndex
      PROVE  doc.attacks[a].operations \in Seq(Operations) /\ doc.attacks[a].operations # << >>
  <2>1. IsList(doc.attacks[a].operations)
    BY <1>1, DocumentFacts
  <2>2. Elements(doc.attacks[a].operations) \subseteq Operations /\ doc.attacks[a].operations # << >>
    BY DEF Clean, CleanAttack
  <2>3. \A s : IsList(s) /\ Elements(s) \subseteq Operations => s \in Seq(Operations)
    BY DEF IsList, Elements
  <2> QED
    BY <2>1, <2>2, <2>3
<1>5. attempts \in Seq(Seq(Operations)) /\ Len(attempts) = Len(doc.attacks)
  <2>1. attempts \in [1 .. Len(doc.attacks) -> Seq(Operations)]
    BY <1>4 DEF AttackIndex
  <2> HIDE DEF attempts
  <2> QED
    BY <1>1, <2>1, FunctionIsSequence
<1>6. ASSUME NEW f \in FixtureIndex
      PROVE  /\ attackOf[f] \in AttackIndex
             /\ doc.attacks[attackOf[f]].table = doc.fixtures[f].table
  <2>1. \E a \in AttackIndex : doc.attacks[a].table = doc.fixtures[f].table
    BY DEF Clean, CleanKey, Targets
  <2> QED
    BY <2>1
<1>7. attackOf \in Seq(AttackIndex) /\ Len(attackOf) = Len(doc.fixtures)
  <2>1. attackOf \in [1 .. Len(doc.fixtures) -> AttackIndex]
    BY <1>6 DEF FixtureIndex
  <2> HIDE DEF attackOf
  <2> QED
    BY <1>1, <2>1, FunctionIsSequence
<1>8. ASSUME NEW a \in AttackIndex PROVE \E f \in FixtureIndex : attackOf[f] = a
  <2>1. PICK f \in OfTable(doc.attacks[a].table) : TRUE
    BY OneAttack
  <2>2. f \in FixtureIndex /\ doc.fixtures[f].table = doc.attacks[a].table
    BY DEF OfTable
  <2>3. attackOf[f] \in Targets(doc.attacks[a].table)
    BY <1>6, <2>2 DEF Targets
  <2> QED
    BY <2>2, <2>3, OneAttack
<1>9. \A a \in AttackIndex : attempts[a] # << >>
  BY <1>4
<1> DEFINE refused == {try \in AttackIndex \X {"update", "insert"} :
                         ~Builds(try[1], doc.fixtures[LastOf(try[1])].row, try[2])}
<1>10. refused \subseteq AttackIndex \X {"update", "insert"}
  OBVIOUS
<1>11. /\ ProfileOf.disposable = TRUE
       /\ ProfileOf.owner \in Identity /\ ProfileOf.adversary \in Identity
       /\ ProfileOf.ops = attempts /\ ProfileOf.fixtures = attackOf
       /\ ProfileOf.unbuildable = refused
  BY <1>2, <1>3 DEF ProfileOf
<1> HIDE DEF attempts, attackOf, refused
<1>12. Attacks(ProfileOf) = AttackIndex /\ Fixtures(ProfileOf) = FixtureIndex
  BY <1>5, <1>7, <1>11 DEF Attacks, Fixtures, AttackIndex, FixtureIndex
<1>13. attempts # << >> /\ attackOf # << >>
  BY <1>1, <1>5, <1>7
<1> QED
  BY <1>5, <1>7, <1>8, <1>9, <1>10, <1>11, <1>12, <1>13 DEF IsProfile

\* An accepted document is a profile as the model of Execute assumes it: this is what
\* the proofs about Runner and Gate start from (validate.go:43-153).
THEOREM AcceptedIsProfileHolds == Spec => []AcceptedIsProfile
<1>1. ASSUME Clean
      PROVE  /\ \A f \in FixtureIndex : Targets(doc.fixtures[f].table) # {}
             /\ \A a, b \in AttackIndex : a # b => doc.attacks[a].table # doc.attacks[b].table
  <2>1. \A f \in FixtureIndex : Targets(doc.fixtures[f].table) # {}
    BY <1>1 DEF Clean, CleanKey
  <2>2. ASSUME NEW a \in AttackIndex, NEW b \in AttackIndex, doc.attacks[a].table = doc.attacks[b].table
        PROVE  a = b
    <3>1. b \in Targets(doc.attacks[a].table)
      BY <2>2 DEF Targets
    <3> QED
      BY <1>1, <3>1, OneAttack
  <2> QED
    BY <2>1, <2>2
<1>2. IInv => AcceptedIsProfile
  BY <1>1, AcceptedIsClean, ProfileAccepted DEF AcceptedIsProfile
<1> QED
  BY <1>2, InvariantHolds, PTL

LEMMA SelectsBuild ==
    ASSUME Clean, NEW a \in AttackIndex, NEW f \in OfTable(doc.attacks[a].table)
    PROVE  /\ Qualified(doc.schema, doc.attacks[a].table)
           /\ Predicate(doc.attacks[a].key, doc.fixtures[f].row)
<1>1. HasKey(f, doc.attacks[a].key)
  BY KeysThere
<1>2. CleanAttack(a) /\ CleanHeader
  BY DEF Clean
<1> QED
  BY <1>1, <1>2 DEF CleanAttack, CleanHeader, HasKey, Qualified, Predicate

\* Every statement of a run of an accepted profile can be built, payloads excepted
\* (seeder.go:20-28, control.go:13-16, attacks/run.go:24-100).
THEOREM StatementsBuildHolds == Spec => []StatementsBuild
<1>1. ASSUME Clean, NEW f \in FixtureIndex
      PROVE  InsertBuilds(doc.schema, doc.fixtures[f].table, doc.fixtures[f].row)
  BY <1>1 DEF Clean, CleanHeader, CleanFixture, InsertBuilds, Qualified
<1>2. ASSUME Clean, NEW a \in AttackIndex
      PROVE  /\ SelectBuilds(doc.schema, doc.attacks[a].table, doc.attacks[a].key,
                             doc.fixtures[LastOf(a)].row)
             /\ \A op \in Elements(doc.attacks[a].operations) :
                   \/ Builds(a, doc.fixtures[LastOf(a)].row, op)
                   \/ op = "insert"
                   \/ op = "update" /\ ~IsMutation(doc.attacks[a].mutation)
  <2>1. OfTable(doc.attacks[a].table) # {} /\ doc \in Documents
    BY <1>2, OneAttack DEF Clean
  <2>2. LastOf(a) \in OfTable(doc.attacks[a].table)
    BY <2>1, LastFacts
  <2>3. /\ Qualified(doc.schema, doc.attacks[a].table)
        /\ Predicate(doc.attacks[a].key, doc.fixtures[LastOf(a)].row)
    BY <1>2, <2>2, SelectsBuild
  <2>4. Elements(doc.attacks[a].operations) \subseteq Operations
    BY <1>2 DEF Clean, CleanAttack
  <2>5. ASSUME NEW op \in Elements(doc.attacks[a].operations), op # "insert",
               op = "update" => IsMutation(doc.attacks[a].mutation)
        PROVE  Builds(a, doc.fixtures[LastOf(a)].row, op)
    <3>1. op \in {"select", "update", "delete"}
      BY <2>4, <2>5 DEF Operations
    <3> QED
      BY <2>3, <2>5, <3>1 DEF Builds, SelectBuilds, DeleteBuilds, UpdateBuilds, IsMutation
  <2> QED
    BY <2>3, <2>5 DEF SelectBuilds
<1>3. IInv => StatementsBuild
  BY <1>1, <1>2, AcceptedIsClean DEF StatementsBuild
<1> QED
  BY <1>3, InvariantHolds, PTL

\* The WHERE clause of an attack picks the fixture that is remembered for its table, or
\* none at all (validate.go:126-140, sqlsafe/sql.go:111-133).
THEOREM AttacksPickOneHolds == Spec => []AttacksPickOneFixture
<1>1. ASSUME Clean, NEW a \in AttackIndex
      PROVE  LET key == doc.attacks[a].key
                 row == doc.fixtures[LastOf(a)].row
             IN  {f \in OfTable(doc.attacks[a].table) : Picks(key, row, doc.fixtures[f].row)} =
                     IF \E c \in Elements(key) : row[c] = Null THEN {} ELSE {LastOf(a)}
  <2> DEFINE table  == doc.attacks[a].table
             key    == doc.attacks[a].key
             row    == doc.fixtures[LastOf(a)].row
             picked == {f \in OfTable(table) : Picks(key, row, doc.fixtures[f].row)}
  <2>1. OfTable(table) # {} /\ doc \in Documents /\ KeyOf(table) = key
    BY <1>1, OneAttack DEF Clean
  <2>2. LastOf(a) \in OfTable(table) /\ \A g \in OfTable(table) : g <= LastOf(a)
    BY <2>1, LastFacts
  <2>3. /\ \A f \in OfTable(table) : f \in FixtureIndex /\ doc.fixtures[f].table = table /\ HasKey(f, key)
        /\ CleanAttack(a)
    BY <1>1, KeysThere DEF Clean
  <2>4. FixtureIndex \subseteq Nat
    BY <2>1, DocumentFacts DEF FixtureIndex
  <2>5. ASSUME NEW f \in picked PROVE f = LastOf(a) /\ \A c \in Elements(key) : row[c] # Null
    <3>1. f \in OfTable(table) /\ \A c \in Elements(key) : row[c] = doc.fixtures[f].row[c] /\ row[c] # Null
      BY DEF Picks
    <3>2. CleanKey(LastOf(a))
      BY <1>1, <2>2, <2>3 DEF Clean
    <3>3. doc.fixtures[LastOf(a)].table = table
      BY <2>2, <2>3
    <3>4. ~(f < LastOf(a))
      BY <2>1, <2>3, <3>1, <3>2, <3>3 DEF CleanKey
    <3>5. f \in Nat /\ LastOf(a) \in Nat /\ f <= LastOf(a)
      BY <2>2, <2>3, <2>4, <3>1
    <3> QED
      BY <3>1, <3>4, <3>5
  <2>6. ASSUME \A c \in Elements(key) : row[c] # Null PROVE LastOf(a) \in picked
    <3>1. HasKey(LastOf(a), key)
      BY <2>2, <2>3
    <3> QED
      BY <2>2, <2>6, <3>1 DEF Picks, HasKey
  <2> HIDE DEF picked
  <2>7. picked = IF \E c \in Elements(key) : row[c] = Null THEN {} ELSE {LastOf(a)}
    <3>1. CASE \E c \in Elements(key) : row[c] = Null
      BY <2>5, <3>1
    <3>2. CASE ~\E c \in Elements(key) : row[c] = Null
      BY <2>5, <2>6, <3>2
    <3> QED
      BY <3>1, <3>2
  <2> QED
    BY <2>7 DEF picked
<1>2. IInv => AttacksPickOneFixture
  BY <1>1, AcceptedIsClean DEF AttacksPickOneFixture
<1> QED
  BY <1>2, InvariantHolds, PTL

-----------------------------------------------------------------------------
(***************************************************************************)
(* Every diagnostic has a reason.                                          *)
(***************************************************************************)
HeaderReason ==
    \/ doc.version # SupportedVersion \/ ~doc.disposable \/ ~Identifier(doc.schema)
    \/ \E who \in {doc.owner, doc.adversary} :
          ~Identifier(who.role) \/ (DOMAIN who.settings) \ SettingNames # {}

FixtureReason(f) ==
    LET fixture == doc.fixtures[f]
    IN  \/ ~InsertBuilds(doc.schema, fixture.table, fixture.row)
        \/ \E c \in Elements(fixture.sensitive) : ~Identifier(c)
        \/ Cardinality(Targets(fixture.table)) # 1

AttackReason(a) ==
    LET attack == doc.attacks[a]
    IN  \/ OfTable(attack.table) = {}
        \/ attack.operations = << >> \/ ~(Elements(attack.operations) \subseteq Operations)
        \/ \E columns \in {attack.key, attack.protected} :
              \/ Cardinality(Elements(columns)) # Len(columns)
              \/ \E c \in Elements(columns) : ~Identifier(c)
        \/ \E f \in OfTable(attack.table) :
              ~SelectBuilds(doc.schema, attack.table, attack.key, doc.fixtures[f].row)
        \/ \E f, g \in OfTable(attack.table) :
              f # g /\ \A c \in Elements(attack.key) :
                          doc.fixtures[f].row[c] = doc.fixtures[g].row[c]

Reason ==
    \/ HeaderReason \/ doc.fixtures = << >> \/ doc.attacks = << >>
    \/ \E f \in FixtureIndex : FixtureReason(f)
    \/ \E a \in AttackIndex : AttackReason(a)

LEMMA Spoken ==
    ASSUME NEW condition, NEW part, NEW index, NEW field, NEW message,
           Diagnose(condition, part, index, field, message) # {}
    PROVE  condition
BY DEF Diagnose

LEMMA OnlyOne ==
    ASSUME doc \in Documents, NEW table, Cardinality(Targets(table)) = 1
    PROVE  \E a \in AttackIndex : Targets(table) = {a}
<1>1. Len(doc.attacks) \in Nat
  BY DocumentFacts
<1>2. IsFiniteSet(1 .. Len(doc.attacks))
  BY <1>1, FS_Interval
<1>3. Targets(table) \in SUBSET (1 .. Len(doc.attacks))
  BY DEF Targets, AttackIndex
<1>4. IsFiniteSet(Targets(table))
  BY <1>2, <1>3, FS_Subset
<1>5. \E a : Targets(table) = {a}
  BY <1>4, FS_Singleton
<1> QED
  BY <1>3, <1>5 DEF AttackIndex

LEMMA HeaderHasReason ==
    ASSUME HeaderProblems # {}
    PROVE  HeaderReason
<1>1. \/ Diagnose(doc.version # SupportedVersion, "version", 0, "", "unsupported") # {}
      \/ Diagnose(~Identifier(doc.schema), "database", 0, "schema", "identifier") # {}
      \/ Diagnose(~doc.disposable, "database", 0, "require_disposable", "must be true") # {}
      \/ validateIdentity("owner", doc.owner) # {}
      \/ validateIdentity("adversary", doc.adversary) # {}
  BY DEF HeaderProblems
<1>2. \A part, who : validateIdentity(part, who) # {} =>
          ~Identifier(who.role) \/ (DOMAIN who.settings) \ SettingNames # {}
  BY Spoken DEF validateIdentity
<1> QED
  BY <1>1, <1>2, Spoken DEF HeaderReason

LEMMA FixtureHasReason ==
    ASSUME NEW f \in FixtureIndex, FixtureProblems(f) # {}
    PROVE  FixtureReason(f)
<1> DEFINE fixture == doc.fixtures[f]
<1>1. \/ Diagnose(~Identifier(fixture.table), "fixtures", f, "table", "identifier") # {}
      \/ Diagnose(DOMAIN fixture.row = {}, "fixtures", f, "owner_row", "empty") # {}
      \/ Diagnose(\E c \in DOMAIN fixture.row : ~Identifier(c),
                  "fixtures", f, "owner_row", "identifier") # {}
      \/ Diagnose(\E c \in Elements(fixture.sensitive) : ~Identifier(c),
                  "fixtures", f, "sensitive_columns", "identifier") # {}
  BY DEF FixtureProblems
<1>2. \/ ~Identifier(fixture.table) \/ DOMAIN fixture.row = {}
      \/ \E c \in DOMAIN fixture.row : ~Identifier(c)
      \/ \E c \in Elements(fixture.sensitive) : ~Identifier(c)
  BY <1>1, Spoken
<1> QED
  BY <1>2 DEF FixtureReason, InsertBuilds, Qualified

LEMMA AttackHasReason ==
    ASSUME doc \in Documents, NEW a \in AttackIndex, AttackProblems(a) # {}
    PROVE  AttackReason(a) \/ \E f \in FixtureIndex : FixtureReason(f)
<1> DEFINE attack == doc.attacks[a]
<1> SUFFICES ASSUME OfTable(attack.table) # {}
             PROVE  AttackReason(a) \/ \E f \in FixtureIndex : FixtureReason(f)
  BY DEF AttackReason
<1>1. PICK f \in OfTable(attack.table) : TRUE
  OBVIOUS
<1>2. f \in FixtureIndex /\ doc.fixtures[f].table = attack.table
  BY <1>1 DEF OfTable
<1>3. \/ Diagnose(~Identifier(attack.table), "attacks", a, "table", "identifier") # {}
      \/ Diagnose(\E b \in Targets(attack.table) : b < a, "attacks", a, "table", "duplicate") # {}
      \/ Diagnose(attack.key = << >>, "attacks", a, "primary_key", "empty") # {}
      \/ validateColumns("attacks", a, "primary_key", attack.key) # {}
      \/ validateColumns("attacks", a, "protected_columns", attack.protected) # {}
      \/ Diagnose(attack.operations = << >>, "attacks", a, "operations", "empty") # {}
      \/ Diagnose(\E op \in Elements(attack.operations) : op \notin Operations,
                  "attacks", a, "operations", "unsupported") # {}
      \/ Diagnose(OfTable(attack.table) = {}, "attacks", a, "table", "no fixture") # {}
  BY DEF AttackProblems
<1>4. \A field, columns : validateColumns("attacks", a, field, columns) # {} =>
          \/ Cardinality(Elements(columns)) # Len(columns)
          \/ \E c \in Elements(columns) : ~Identifier(c)
  BY Spoken DEF validateColumns
<1>5. CASE ~Identifier(attack.table) \/ attack.key = << >>
  <2>1. ~SelectBuilds(doc.schema, attack.table, attack.key, doc.fixtures[f].row)
    BY <1>5 DEF SelectBuilds, Qualified, Predicate
  <2> QED
    BY <1>1, <2>1 DEF AttackReason
<1>6. CASE \E b \in Targets(attack.table) : b < a
  <2>1. PICK b \in Targets(attack.table) : b < a
    BY <1>6
  <2>2. a \in Targets(attack.table) /\ AttackIndex \subseteq Nat /\ b \in AttackIndex
    BY <2>1, DocumentFacts DEF Targets, AttackIndex
  <2>3. a # b
    BY <2>1, <2>2
  <2>4. Cardinality(Targets(attack.table)) # 1
    BY <2>1, <2>2, <2>3, OnlyOne
  <2> QED
    BY <1>2, <2>4 DEF FixtureReason
<1>7. CASE \/ validateColumns("attacks", a, "primary_key", attack.key) # {}
           \/ validateColumns("attacks", a, "protected_columns", attack.protected) # {}
  BY <1>4, <1>7 DEF AttackReason
<1>8. CASE \/ attack.operations = << >>
           \/ \E op \in Elements(attack.operations) : op \notin Operations
  <2>1. attack.operations = << >> \/ ~(Elements(attack.operations) \subseteq Operations)
    BY <1>8
  <2> QED
    BY <2>1 DEF AttackReason
<1> HIDE DEF attack
<1>9. \/ ~Identifier(attack.table) \/ attack.key = << >>
      \/ \E b \in Targets(attack.table) : b < a
      \/ validateColumns("attacks", a, "primary_key", attack.key) # {}
      \/ validateColumns("attacks", a, "protected_columns", attack.protected) # {}
      \/ attack.operations = << >>
      \/ \E op \in Elements(attack.operations) : op \notin Operations
  BY <1>3, Spoken
<1> QED
  BY <1>5, <1>6, <1>7, <1>8, <1>9 DEF attack

LEMMA TableHasReason ==
    ASSUME doc \in Documents, NEW table \in Tables, TableProblems(table) # {}
    PROVE  Reason
<1>1. PICK e \in FixtureIndex : doc.fixtures[e].table = table
  BY DEF Tables
<1>2. CASE Targets(table) = {}
  <2>1. Cardinality(Targets(table)) # 1
    BY <1>2, OnlyOne
  <2> QED
    BY <1>1, <2>1 DEF Reason, FixtureReason
<1>3. CASE Targets(table) # {}
  <2>1. PICK a \in Targets(table) : KeyOf(table) = doc.attacks[a].key
    BY <1>3, KeyOfTarget
  <2>2. a \in AttackIndex /\ doc.attacks[a].table = table
    BY <2>1 DEF Targets
  <2>3. PICK f \in OfTable(table) : KeyProblems(table, f) # {}
    BY <1>3 DEF TableProblems
  <2> DEFINE key == KeyOf(table)
             row == doc.fixtures[f].row
             twin == \E g \in OfTable(table) : g < f /\ HasKey(g, key) /\
                        \A c \in Elements(key) : doc.fixtures[g].row[c] = row[c]
  <2>4. \/ Diagnose(~HasKey(f, key), "fixtures", f, "owner_row", "key column missing") # {}
        \/ Diagnose(HasKey(f, key) /\ twin, "fixtures", f, "owner_row", "duplicate key") # {}
    BY <2>3 DEF KeyProblems
  <2>5. ~HasKey(f, key) \/ twin
    BY <2>4, Spoken
  <2>6. CASE ~HasKey(f, key)
    <3>1. ~SelectBuilds(doc.schema, table, key, doc.fixtures[f].row)
      BY <2>6 DEF HasKey, SelectBuilds, Predicate
    <3>2. AttackReason(a)
      BY <2>1, <2>2, <2>3, <3>1 DEF AttackReason
    <3> QED
      BY <2>2, <3>2 DEF Reason
  <2>7. CASE twin
    <3>1. PICK g \in OfTable(table) :
              g < f /\ \A c \in Elements(key) : doc.fixtures[g].row[c] = row[c]
      BY <2>7
    <3>2. FixtureIndex \subseteq Nat
      BY DocumentFacts DEF FixtureIndex
    <3>3. g # f
      <4>1. f \in Nat /\ g \in Nat
        BY <2>3, <3>1, <3>2 DEF OfTable
      <4>2. g < f
        BY <3>1
      <4> HIDE DEF key, row, twin
      <4> QED
        BY <4>1, <4>2
    <3>4. AttackReason(a)
      BY <2>1, <2>2, <2>3, <3>1, <3>3 DEF AttackReason
    <3> QED
      BY <2>2, <3>4 DEF Reason
  <2> QED
    BY <2>5, <2>6, <2>7
<1> QED
  BY <1>2, <1>3

LEMMA EveryProblemHasReason ==
    ASSUME doc \in Documents, Problems # {}
    PROVE  Reason
<1>1. \/ HeaderProblems # {} \/ FixturesProblems # {} \/ AttacksProblems # {}
      \/ \E table \in Tables : TableProblems(table) # {}
  BY DEF Problems
<1>2. CASE HeaderProblems # {}
  BY <1>2, HeaderHasReason DEF Reason
<1>3. CASE FixturesProblems # {}
  <2>1. \/ \E f \in FixtureIndex : FixtureProblems(f) # {}
        \/ Diagnose(doc.fixtures = << >>, "fixtures", 0, "", "empty") # {}
    BY <1>3 DEF FixturesProblems
  <2> QED
    BY <2>1, FixtureHasReason, Spoken DEF Reason
<1>4. CASE AttacksProblems # {}
  <2>1. \/ \E a \in AttackIndex : AttackProblems(a) # {}
        \/ Diagnose(doc.attacks = << >>, "attacks", 0, "", "empty") # {}
    BY <1>4 DEF AttacksProblems
  <2> QED
    BY <2>1, AttackHasReason, Spoken DEF Reason
<1>5. CASE \E table \in Tables : TableProblems(table) # {}
  BY <1>5, TableHasReason
<1> QED
  BY <1>1, <1>2, <1>3, <1>4, <1>5

\* A document is rejected only for something a package behind Validate would stumble
\* over, or that is there twice (validate.go:43-153).
THEOREM RejectedForReasonHolds == Spec => []RejectedForReason
<1>1. Reason => RejectedForReason
  BY DEF Reason, HeaderReason, FixtureReason, AttackReason, RejectedForReason
<1>2. IInv => RejectedForReason
  <2>1. SUFFICES ASSUME IInv, phase = "rejected" PROVE RejectedForReason
    BY DEF RejectedForReason
  <2>2. doc \in Documents /\ Tables \ tables = Tables
    BY <2>1 DEF IInv, TypeOK
  <2>3. Problems # {}
    BY <2>1, <2>2 DEF IInv, Said, Verdict, Problems
  <2> QED
    BY <1>1, <2>2, <2>3, EveryProblemHasReason
<1> QED
  BY <1>2, InvariantHolds, PTL
=============================================================================
