---------------------------- MODULE ProfileCheck ----------------------------
(***************************************************************************)
(* internal/profile.Validate: from a decoded document to the profile that  *)
(* Execute relies on.  A document is a record                              *)
(*   version, schema, disposable                                           *)
(*   owner, adversary   [role, settings], settings by name                 *)
(*   fixtures           a sequence of [table, row, sensitive]              *)
(*   attacks            a sequence of [table, key, protected, operations,  *)
(*                      mutation, insert]                                  *)
(***************************************************************************)
EXTENDS Domain, Statements

CONSTANTS
    Documents,       \* documents that decode
    SettingNames     \* the names isSettingName lets through

IsList(s) == s \in Seq({s[i] : i \in DOMAIN s})

\* What decoding has seen to; role names and values are those of Domain.
IsDocument(d) ==
    /\ d.disposable \in BOOLEAN
    /\ \A who \in {d.owner, d.adversary} :
          /\ Identifier(who.role) => who.role \in Roles
          /\ \A g \in Gucs \cap DOMAIN who.settings : who.settings[g] \in GucValues
    /\ IsList(d.fixtures) /\ IsList(d.attacks)
    /\ \A a \in DOMAIN d.attacks : IsList(d.attacks[a].operations)

ASSUME DocumentsAssumption == \A d \in Documents : IsDocument(d)

SupportedVersion == 1

VARIABLES
    doc,
    phase,         \* "header" | "fixtures" | "attacks" | "keys" | "accepted" | "rejected"
    tables,        \* fixture tables the last loop has not been over yet
    diagnostics    \* <<part, index, field, message>>

vars == <<doc, phase, tables, diagnostics>>

Init == doc \in Documents /\ phase = "header" /\ tables = {} /\ diagnostics = {}

FixtureIndex == 1 .. Len(doc.fixtures)

AttackIndex == 1 .. Len(doc.attacks)

OfTable(table) == {f \in FixtureIndex : doc.fixtures[f].table = table}

Targets(table) == {a \in AttackIndex : doc.attacks[a].table = table}

Diagnose(condition, part, index, field, message) ==
    IF condition THEN {<<part, index, field, message>>} ELSE {}

validateIdentity(part, identity) ==
    Diagnose(~Identifier(identity.role), part, 0, "role", "identifier") \cup
    Diagnose((DOMAIN identity.settings) \ SettingNames # {}, part, 0, "settings", "setting name")

\* A column that is no identifier, and a column that was there before.
validateColumns(part, index, field, columns) ==
    Diagnose(\E c \in Elements(columns) : ~Identifier(c), part, index, field, "identifier") \cup
    Diagnose(Cardinality(Elements(columns)) # Len(columns), part, index, field, "duplicate")

CheckHeader ==
    /\ phase = "header" /\ phase' = "fixtures"
    /\ diagnostics' =
          Diagnose(doc.version # SupportedVersion, "version", 0, "", "unsupported") \cup
          Diagnose(~Identifier(doc.schema), "database", 0, "schema", "identifier") \cup
          Diagnose(~doc.disposable, "database", 0, "require_disposable", "must be true") \cup
          validateIdentity("owner", doc.owner) \cup
          validateIdentity("adversary", doc.adversary)
    /\ UNCHANGED <<doc, tables>>

FixtureProblems(f) ==
    LET fixture == doc.fixtures[f]
    IN  Diagnose(~Identifier(fixture.table), "fixtures", f, "table", "identifier") \cup
        Diagnose(DOMAIN fixture.row = {}, "fixtures", f, "owner_row", "empty") \cup
        Diagnose(\E c \in DOMAIN fixture.row : ~Identifier(c),
                 "fixtures", f, "owner_row", "identifier") \cup
        Diagnose(\E c \in Elements(fixture.sensitive) : ~Identifier(c),
                 "fixtures", f, "sensitive_columns", "identifier")

CheckFixtures ==
    /\ phase = "fixtures" /\ phase' = "attacks"
    /\ diagnostics' = diagnostics \cup (UNION {FixtureProblems(f) : f \in FixtureIndex}) \cup
                      Diagnose(doc.fixtures = << >>, "fixtures", 0, "", "empty")
    /\ UNCHANGED <<doc, tables>>

AttackProblems(a) ==
    LET attack == doc.attacks[a]
    IN  Diagnose(~Identifier(attack.table), "attacks", a, "table", "identifier") \cup
        Diagnose(\E b \in Targets(attack.table) : b < a, "attacks", a, "table", "duplicate") \cup
        Diagnose(attack.key = << >>, "attacks", a, "primary_key", "empty") \cup
        validateColumns("attacks", a, "primary_key", attack.key) \cup
        validateColumns("attacks", a, "protected_columns", attack.protected) \cup
        Diagnose(attack.operations = << >>, "attacks", a, "operations", "empty") \cup
        Diagnose(\E op \in Elements(attack.operations) : op \notin Operations,
                 "attacks", a, "operations", "unsupported") \cup
        Diagnose(OfTable(attack.table) = {}, "attacks", a, "table", "no fixture")

CheckAttacks ==
    /\ phase = "attacks" /\ phase' = "keys"
    /\ diagnostics' = diagnostics \cup (UNION {AttackProblems(a) : a \in AttackIndex}) \cup
                      Diagnose(doc.attacks = << >>, "attacks", 0, "", "empty")
    /\ tables' = {doc.fixtures[f].table : f \in FixtureIndex}
    /\ UNCHANGED doc

\* The first attack on a table is the one its fixtures are held against.
KeyOf(table) ==
    doc.attacks[CHOOSE a \in Targets(table) : \A b \in Targets(table) : a <= b].key

HasKey(f, key) == Elements(key) \subseteq DOMAIN doc.fixtures[f].row

\* Mutant: a fixture that lacks a key column is left to the builder.
KeyProblemsOfTwins(table, f) ==
    LET key == KeyOf(table)
        row == doc.fixtures[f].row
    IN  Diagnose(HasKey(f, key) /\ \E g \in OfTable(table) : g < f /\ HasKey(g, key) /\
                    \A c \in Elements(key) : doc.fixtures[g].row[c] = row[c],
                 "fixtures", f, "owner_row", "duplicate key")

\* Mutant: keys are compared as whole rows.
KeyProblemsByRow(table, f) ==
    LET key == KeyOf(table)
        row == doc.fixtures[f].row
    IN  Diagnose(~HasKey(f, key), "fixtures", f, "owner_row", "key column missing") \cup
        Diagnose(\E g \in OfTable(table) : g < f /\ doc.fixtures[g].row = row,
                 "fixtures", f, "owner_row", "duplicate key")

\* Mutant: only the first column of a key is compared.
KeyProblemsByFirst(table, f) ==
    LET key == KeyOf(table)
        row == doc.fixtures[f].row
    IN  Diagnose(~HasKey(f, key), "fixtures", f, "owner_row", "key column missing") \cup
        Diagnose(HasKey(f, key) /\ \E g \in OfTable(table) : g < f /\ HasKey(g, key) /\
                    \A c \in {key[i] : i \in {1} \cap 1 .. Len(key)} : doc.fixtures[g].row[c] = row[c],
                 "fixtures", f, "owner_row", "duplicate key")

KeyProblems(table, f) ==
    LET key == KeyOf(table)
        row == doc.fixtures[f].row
    IN  Diagnose(~HasKey(f, key), "fixtures", f, "owner_row", "key column missing") \cup
        Diagnose(HasKey(f, key) /\ \E g \in OfTable(table) : g < f /\ HasKey(g, key) /\
                    \A c \in Elements(key) : doc.fixtures[g].row[c] = row[c],
                 "fixtures", f, "owner_row", "duplicate key")

\* Mutant: a fixture of a table that is not attacked is left alone.
CheckAttackedKeys ==
    /\ phase = "keys"
    /\ \E table \in tables :
          /\ tables' = tables \ {table}
          /\ diagnostics' = diagnostics \cup
                IF Targets(table) = {} THEN {}
                ELSE UNION {KeyProblems(table, f) : f \in OfTable(table)}
    /\ UNCHANGED <<doc, phase>>

\* Tables come in the order of a map.
CheckKeys ==
    /\ phase = "keys"
    /\ \E table \in tables :
          /\ tables' = tables \ {table}
          /\ diagnostics' = diagnostics \cup
                IF Targets(table) = {}
                THEN {<<"fixtures", f, "table", "no attack">> : f \in OfTable(table)}
                ELSE UNION {KeyProblems(table, f) : f \in OfTable(table)}
    /\ UNCHANGED <<doc, phase>>

Decide ==
    /\ phase = "keys" /\ tables = {}
    /\ phase' = IF diagnostics = {} THEN "accepted" ELSE "rejected"
    /\ UNCHANGED <<doc, tables, diagnostics>>

Decided == phase \in {"accepted", "rejected"} /\ UNCHANGED vars

Next == CheckHeader \/ CheckFixtures \/ CheckAttacks \/ CheckKeys \/ Decide \/ Decided

Spec == Init /\ [][Next]_vars

-----------------------------------------------------------------------------
\* The profile Execute gets, as Runner takes it: attack a is the attack on table a.
Lower(identity) ==
    [role |-> identity.role,
     settings |-> [g \in Gucs |-> IF g \in DOMAIN identity.settings
                                  THEN identity.settings[g] ELSE Unset]]

Builds(a, row, operation) ==
    LET attack == doc.attacks[a]
    IN  CASE operation = "select" -> SelectBuilds(doc.schema, attack.table, attack.key, row)
          [] operation = "delete" -> DeleteBuilds(doc.schema, attack.table, attack.key, row)
          [] operation = "update" ->
                UpdateBuilds(doc.schema, attack.table, attack.key, row, attack.mutation)
          [] operation = "insert" -> InsertBuilds(doc.schema, attack.table, attack.insert)

\* The row seeder.Seed remembers for the table of an attack: the last one.
LastOf(a) == CHOOSE f \in OfTable(doc.attacks[a].table) :
                \A g \in OfTable(doc.attacks[a].table) : g <= f

ProfileOf ==
    [disposable |-> doc.disposable, owner |-> Lower(doc.owner), adversary |-> Lower(doc.adversary),
     ops |-> [a \in AttackIndex |-> doc.attacks[a].operations],
     fixtures |-> [f \in FixtureIndex |->
                     CHOOSE a \in AttackIndex : doc.attacks[a].table = doc.fixtures[f].table],
     unbuildable |->
        {try \in AttackIndex \X {"update", "insert"} :
            ~Builds(try[1], doc.fixtures[LastOf(try[1])].row, try[2])}]

\* What Validate accepts is a profile in the sense the model of Execute assumes, in
\* which attacks have distinct tables and every fixture and attack a partner
\* (validate.go:43-153, runner.go:46-70).
AcceptedIsProfile ==
    phase = "accepted" =>
        /\ \A f \in FixtureIndex : Targets(doc.fixtures[f].table) # {}
        /\ \A a, b \in AttackIndex : a # b => doc.attacks[a].table # doc.attacks[b].table
        /\ IsProfile(ProfileOf)

IsMutation(mutation) ==
    Cardinality(DOMAIN mutation) = 1 /\ \A c \in DOMAIN mutation : Identifier(c)

\* Every statement the run sends for an accepted profile can be built, with the row
\* that was remembered last for the table; only the payloads of updates and inserts
\* are not looked at (seeder.go:20-28, control.go:13-16, attacks/run.go:24-100).
StatementsBuild ==
    phase = "accepted" =>
        /\ \A f \in FixtureIndex :
              InsertBuilds(doc.schema, doc.fixtures[f].table, doc.fixtures[f].row)
        /\ \A a \in AttackIndex :
              /\ SelectBuilds(doc.schema, doc.attacks[a].table, doc.attacks[a].key,
                              doc.fixtures[LastOf(a)].row)
              /\ \A op \in Elements(doc.attacks[a].operations) :
                    \/ Builds(a, doc.fixtures[LastOf(a)].row, op)
                    \/ op = "insert"
                    \/ op = "update" /\ ~IsMutation(doc.attacks[a].mutation)

\* Of the fixtures of a table, the WHERE clause of an attack picks the one that is
\* remembered and no other; none at all if a value of its key is null, and then the
\* negative control fails (validate.go:126-140, sqlsafe/sql.go:111-133).
AttacksPickOneFixture ==
    phase = "accepted" =>
        \A a \in AttackIndex :
            LET key == doc.attacks[a].key
                row == doc.fixtures[LastOf(a)].row
            IN  {f \in OfTable(doc.attacks[a].table) : Picks(key, row, doc.fixtures[f].row)} =
                    IF \E c \in Elements(key) : row[c] = Null THEN {} ELSE {LastOf(a)}

\* A profile that could be run is not rejected: every diagnostic of a rejected one is
\* about something one of the packages behind it would stumble over, or about a
\* second attack, fixture or column of the same name (validate.go:43-153).
RejectedForReason ==
    phase = "rejected" =>
        \/ doc.version # SupportedVersion \/ ~doc.disposable \/ ~Identifier(doc.schema)
        \/ \E who \in {doc.owner, doc.adversary} :
              ~Identifier(who.role) \/ (DOMAIN who.settings) \ SettingNames # {}
        \/ doc.fixtures = << >> \/ doc.attacks = << >>
        \/ \E f \in FixtureIndex :
              LET fixture == doc.fixtures[f]
              IN  \/ ~InsertBuilds(doc.schema, fixture.table, fixture.row)
                  \/ \E c \in Elements(fixture.sensitive) : ~Identifier(c)
                  \/ Cardinality(Targets(fixture.table)) # 1
        \/ \E a \in AttackIndex :
              LET attack == doc.attacks[a]
              IN  \/ OfTable(attack.table) = {}
                  \/ attack.operations = << >> \/ ~(Elements(attack.operations) \subseteq Operations)
                  \/ \E columns \in {attack.key, attack.protected} :
                        \/ Cardinality(Elements(columns)) # Len(columns)
                        \/ \E c \in Elements(columns) : ~Identifier(c)
                  \/ \E f \in OfTable(attack.table) :
                        ~SelectBuilds(doc.schema, attack.table, attack.key, doc.fixtures[f].row)
                  \/ \E f, g \in OfTable(attack.table) :
                        f # g /\ \A c \in Elements(attack.key) :
                                    doc.fixtures[f].row[c] = doc.fixtures[g].row[c]
=============================================================================
