------------------------------- MODULE MCGate -------------------------------
(***************************************************************************)
(* Profiles and catalogs for Gate: one table with two operations, and two  *)
(* tables with one operation each and the login role as the owner.         *)
(***************************************************************************)
EXTENDS Gate

CONSTANTS login, app, admin, dba

Id(r) == [role |-> r, settings |-> [g \in Gucs |-> Unset]]

Profile(owner, ops, fixtures) ==
    [disposable |-> TRUE, owner |-> Id(owner), adversary |-> Id(app),
     ops |-> ops, fixtures |-> fixtures, unbuildable |-> {}]

SomeProfiles ==
    { Profile(admin, << <<"select", "update">> >>, <<1>>),
      Profile(login, << <<"delete">>, <<"insert">> >>, <<1, 2>>) }

SafeTable ==
    [available |-> TRUE, owner |-> dba, forced |-> TRUE, effects |-> {},
     granted |-> {login, admin, app} \X {"SELECT", "INSERT", "UPDATE", "DELETE"}]

Safe ==
    [login |-> "plain", members |-> {admin, app}, bypass |-> {},
     tables |-> <<SafeTable, SafeTable>>]

SomeCatalogs ==
    { Safe, [Safe EXCEPT !.login = "unknown"],
      [Safe EXCEPT !.tables[1] = [@ EXCEPT !.owner = app, !.forced = FALSE]],
      [Safe EXCEPT !.tables[1].effects = {"trigger"}],
      [Safe EXCEPT !.members = {admin}, !.tables[1].granted = {app, admin} \X {"INSERT"}] }

ExecuteConfig == [allowWrite |-> TRUE, acknowledge |-> FALSE]

SomeConfigs ==
    { ExecuteConfig, [ExecuteConfig EXCEPT !.acknowledge = TRUE], [ExecuteConfig EXCEPT !.allowWrite = FALSE] }
=============================================================================
