--------------------------- MODULE MCProfileCheck ---------------------------
(***************************************************************************)
(* Documents for ProfileCheck: at most two attacks and three fixtures on   *)
(* two tables, with every list of key columns, missing and null values,    *)
(* names that are none, and one thing wrong at a time in the header.       *)
(***************************************************************************)
EXTENDS ProfileCheck

\* Names Validate lets through; "Id" and "Notes" are not.
GoodNames    == {"public", "notes", "tags", "id", "org", "app"}
GoodSettings == {"app.user"}

Who(role, settings) == [role |-> role, settings |-> settings]

Setting(name, value) == [s \in {name} |-> value]

Good ==
    [version |-> 1, schema |-> "public", disposable |-> TRUE,
     owner |-> Who("app", Setting("app.user", "alice")),
     adversary |-> Who("app", Setting("app.user", "bob"))]

Headers ==
    { Good, [Good EXCEPT !.version = 2], [Good EXCEPT !.schema = "Notes"],
      [Good EXCEPT !.disposable = FALSE], [Good EXCEPT !.owner.role = "Notes"],
      [Good EXCEPT !.adversary.settings = Setting("user", "bob")],
      [Good EXCEPT !.adversary.settings = << >>] }

Rows ==
    [{"id"} -> {"k1", "k2", Null}] \cup [{"id", "org"} -> {"k1", "k2"}] \cup
    { << >>, [org |-> "k1"], [id |-> "k1", Id |-> "k1"], [id |-> "k1", org |-> Null] }

Fixture(table, row) == [table |-> table, row |-> row, sensitive |-> << >>]

FixtureLists ==
    { << >>, <<Fixture("Notes", [id |-> "k1"])>>,
      <<[Fixture("notes", [id |-> "k1"]) EXCEPT !.sensitive = <<"Id">>]>> } \cup
    { <<Fixture("notes", r)>> : r \in Rows } \cup
    { <<Fixture("notes", r), Fixture(t, s)>> : r \in Rows, s \in Rows, t \in {"notes", "tags"} } \cup
    { <<Fixture("notes", r), Fixture("tags", r), Fixture("notes", s)>> : r \in Rows, s \in Rows }

Attack(table, key) ==
    [table |-> table, key |-> key, protected |-> << >>, operations |-> <<"select", "update">>,
     mutation |-> [org |-> "k2"], insert |-> [org |-> "k2"]]

OfNotes == Attack("notes", <<"id">>)

AttackLists ==
    { << >> } \cup
    { <<Attack("notes", key)>> :
        key \in {<< >>, <<"id">>, <<"org">>, <<"id", "org">>, <<"id", "id">>, <<"Id">>} } \cup
    { <<a>> : a \in { [OfNotes EXCEPT !.protected = <<"Id">>], [OfNotes EXCEPT !.operations = << >>],
                      [OfNotes EXCEPT !.operations = <<"truncate">>],
                      [OfNotes EXCEPT !.operations = <<"insert", "delete", "update">>, !.mutation = << >>],
                      [OfNotes EXCEPT !.mutation = [Id |-> "k1"], !.insert = << >>] } } \cup
    { <<OfNotes, Attack(table, key)>> : table \in {"tags", "notes", "Notes"}, key \in {<<"id">>, <<"org">>} }

Document(header, fixtures, attacks) ==
    [version |-> header.version, schema |-> header.schema, disposable |-> header.disposable,
     owner |-> header.owner, adversary |-> header.adversary,
     fixtures |-> fixtures, attacks |-> attacks]

SomeFixtures ==
    { <<Fixture("notes", r)>> : r \in {[id |-> "k1"], << >>} }

SomeDocuments ==
    { Document(Good, f, a) : f \in FixtureLists, a \in AttackLists } \cup
    { Document(h, f, a) : h \in Headers, f \in SomeFixtures, a \in AttackLists }
=============================================================================
