------------------------------ MODULE MCRunner ------------------------------
(***************************************************************************)
(* Small worlds for TLC: identities, profiles and targets that make every  *)
(* case of Execute happen with at most two tables, two fixtures and two    *)
(* settings.                                                               *)
(***************************************************************************)
EXTENDS DocClaims, RunnerInvariant

CONSTANTS login, app, admin, dba,   \* roles
          user, tenant,             \* settings
          alice, bob                \* setting values

Id(r, u, t) ==
    [role |-> r,
     settings |-> [g \in Gucs |-> IF g = user THEN u ELSE IF g = tenant THEN t ELSE Unset]]

\* One role told apart by a setting, as in the usage guide; two roles; an owner
\* whose second setting the adversary does not overwrite.
SameRole   == [owner |-> Id(app, alice, Unset),   adversary |-> Id(app, bob, Unset)]
TwoRoles   == [owner |-> Id(admin, alice, Unset), adversary |-> Id(app, bob, alice)]
LeakyRoles == [owner |-> Id(app, alice, alice),   adversary |-> Id(app, bob, Unset)]

Profile(who, ops, fixtures, unbuildable) ==
    [disposable |-> TRUE, owner |-> who.owner, adversary |-> who.adversary,
     ops |-> ops, fixtures |-> fixtures, unbuildable |-> unbuildable]

Matrix      == Profile(SameRole, << <<"select", "insert", "update", "delete">> >>, <<1>>, {})
Siblings    == Profile(TwoRoles, << <<"delete", "select">> >>, <<1, 1>>, {})
Linked      == Profile(TwoRoles, << <<"delete", "select">>, <<"delete">> >>, <<1, 2>>, {})
InsertFirst == Profile(SameRole, << <<"insert", "insert">>, <<"update">> >>, <<2, 1>>, {})
NoPayload   == Profile(SameRole, << <<"update", "insert", "select">> >>, <<1>>, {<<1, "update">>})
Leaky       == Profile(LeakyRoles, << <<"select">>, <<"update">> >>, <<1, 2>>, {})
OneSelect   == Profile(SameRole, << <<"select">> >>, <<1>>, {})

SafeTable ==
    [available |-> TRUE, owner |-> dba, forced |-> TRUE, effects |-> {},
     granted |-> {admin, app} \X {"SELECT", "INSERT", "UPDATE", "DELETE"}]

Safe ==
    [server |-> "ok", login |-> "plain", members |-> {admin, app},
     bypass |-> {}, tables |-> <<SafeTable, SafeTable>>]

WithTable(table) == [Safe EXCEPT !.tables[1] = table]

Unsafe ==
    {[Safe EXCEPT !.server = "old"], [Safe EXCEPT !.server = "readonly"],
     [Safe EXCEPT !.login = "bypass"], [Safe EXCEPT !.login = "unknown"],
     [Safe EXCEPT !.members = {admin}],
     WithTable([SafeTable EXCEPT !.available = FALSE]),
     WithTable([SafeTable EXCEPT !.owner = app, !.forced = FALSE]),
     WithTable([SafeTable EXCEPT !.effects = {"trigger"}]),
     WithTable([SafeTable EXCEPT !.effects = {"rule"}]),
     WithTable([SafeTable EXCEPT !.granted = {admin, app} \X {"SELECT", "INSERT"}]),
     WithTable([SafeTable EXCEPT !.granted = {app} \X {"SELECT", "INSERT", "UPDATE", "DELETE"}])}

Harmless ==
    {WithTable([SafeTable EXCEPT !.owner = app]),
     WithTable([SafeTable EXCEPT !.owner = dba, !.forced = FALSE])}

\* A target the documents and the gate disagree on.
BypassAdversary == [Safe EXCEPT !.bypass = {app}]

OnlySelect   == {OneSelect}
Covering     == {Matrix, Siblings, Linked, InsertFirst, NoPayload}
Everything   == Covering \cup {Leaky}

OnlySafe    == {Safe}
OnlyBypass  == {BypassAdversary}
AllTargets  == {Safe} \cup Unsafe \cup Harmless
=============================================================================
