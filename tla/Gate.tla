-------------------------------- MODULE Gate --------------------------------
(***************************************************************************)
(* internal/preflight, one question at a time.  The gate asks outside a    *)
(* transaction, so every question sees the catalog of its own moment:      *)
(* another session may change it in between, and the connection may drop.  *)
(* Preflight describes the same gate as one step over one catalog, which   *)
(* is what Runner uses; OneStep is the bridge between the two.             *)
(***************************************************************************)
EXTENDS Preflight, Integers

CONSTANTS
    Profiles,     \* validated profiles
    Catalogs,     \* catalogs to start from
    Configs,      \* values of preflight.Config: [allowWrite, acknowledge]
    MaxChanges    \* bound on the changes by other sessions

ASSUME ProfilesAssumption == \A p \in Profiles : IsProfile(p)

VARIABLES
    p, config,    \* the parameters of Check
    catalog,      \* the catalog now
    lost,         \* the connection is gone
    step, a, q,   \* the question, its attack, its privilege
    members,      \* what Memberships returned
    t,            \* what is known of the table of attack a
    findings, outcome,
    seen,         \* every catalog there was since the check began
    cut,          \* the first question of Preflight that was not answered
    changes

parameters == <<p, config>>
result     == <<findings, outcome>>
world      == <<catalog, lost, seen, changes>>
vars == <<parameters, world, step, a, q, members, t, result, cut>>

NoTable == [owner |-> LoginRole, forced |-> FALSE, effects |-> {}]

Init ==
    /\ p \in Profiles /\ config \in Configs /\ catalog \in Catalogs
    /\ lost = FALSE /\ step = "flags" /\ a = 0 /\ q = 0
    /\ members = {} /\ t = NoTable /\ findings = {} /\ outcome = "pass"
    /\ seen = {catalog} /\ cut = Never(p) /\ changes = 0

\* The closure "add"; no question adds findings of both severities.
Add(new) ==
    /\ findings' = findings \cup new
    /\ outcome' = IF \E f \in new : f.severity = "blocked" THEN "blocked"
                  ELSE IF outcome = "pass" /\ new # {} THEN "inconclusive"
                  ELSE outcome

\* The question Preflight would be cut at.
Missed(question) == cut' = IF lost /\ cut = Never(p) THEN question ELSE cut

Flags ==
    /\ step = "flags" /\ step' = "login"
    /\ Add(When(~config.allowWrite, Finding("allow_write_required", "blocked", NoTarget))
           \cup When(~p.disposable, Finding("disposable_required", "blocked", NoTarget)))
    /\ UNCHANGED <<parameters, world, a, q, members, t, cut>>

AskLogin ==
    /\ step = "login" /\ step' = "members" /\ Missed(<<0, 0>>)
    /\ Add(IF lost \/ catalog.login = "unknown"
           THEN {Finding("login_role_unknown", "blocked", LoginRole)}
           ELSE When(catalog.login = "bypass", Finding("login_role_bypass", "blocked", LoginRole)))
    /\ UNCHANGED <<parameters, world, a, q, members, t>>

\* The next attack; the check ends after the last one.
NextTable ==
    /\ a' = a + 1 /\ q' = 0 /\ t' = NoTable
    /\ step' = IF a = Len(p.ops) THEN "done" ELSE "table"

\* Mutant: only the owner's role is looked for.
NotAssumableOwner(listed) ==
    {Finding("role_not_assumable", "blocked", r) : r \in {p.owner.role} \ (listed \cup {LoginRole})}

\* Mutant: the login role is looked for among its own memberships.
NotAssumableLogin(listed) ==
    {Finding("role_not_assumable", "blocked", r) : r \in {p.owner.role, p.adversary.role} \ listed}

NotAssumable(listed) ==
    {Finding("role_not_assumable", "blocked", r) :
        r \in {p.owner.role, p.adversary.role} \ (listed \cup {LoginRole})}

\* The error of a list that breaks off is dropped.
AskMembers ==
    /\ step = "members" /\ NextTable
    /\ members' \in IF ~lost THEN {catalog.members}
                    ELSE IF cut = Never(p) THEN SUBSET catalog.members ELSE {{}}
    /\ Missed(<<0, 1>>) /\ Add(NotAssumable(members'))
    /\ UNCHANGED <<parameters, world>>

Unavailable == Add({Finding("table_unavailable", "inconclusive", a)}) /\ NextTable

\* Mutant: an error is no finding.
AskTableQuietly ==
    /\ step = "table" /\ Missed(<<a, 0>>)
    /\ IF lost \/ ~catalog.tables[a].available
       THEN NextTable /\ UNCHANGED result
       ELSE /\ step' = "triggers"
            /\ t' = [owner |-> catalog.tables[a].owner, forced |-> catalog.tables[a].forced,
                     effects |-> {}]
            /\ UNCHANGED <<a, q, result>>
    /\ UNCHANGED <<parameters, world, members>>

\* The first of the eight queries of Inspector.Table.
AskTable ==
    /\ step = "table" /\ Missed(<<a, 0>>)
    /\ IF lost \/ ~catalog.tables[a].available
       THEN Unavailable
       ELSE /\ step' = "triggers"
            /\ t' = [owner |-> catalog.tables[a].owner, forced |-> catalog.tables[a].forced,
                     effects |-> {}]
            /\ UNCHANGED <<a, q, result>>
    /\ UNCHANGED <<parameters, world, members>>

\* The last two find a table by name again: one that is gone has no rows.
Present(effect) ==
    IF catalog.tables[a].available THEN catalog.tables[a].effects \cap {effect} ELSE {}

AskTriggers ==
    /\ step = "triggers" /\ Missed(<<a, 0>>)
    /\ IF lost THEN Unavailable
       ELSE /\ step' = "rules" /\ t' = [t EXCEPT !.effects = Present("trigger")]
            /\ UNCHANGED <<a, q, result>>
    /\ UNCHANGED <<parameters, world, members>>

AskRules ==
    /\ step = "rules" /\ Missed(<<a, 0>>)
    /\ IF lost THEN Unavailable
       ELSE /\ step' = "privileges" /\ q' = 1 /\ UNCHANGED <<a, t>>
            /\ Add(When(~t.forced /\ t.owner \in {p.owner.role, p.adversary.role},
                        Finding("unforced_owner", "blocked", a))
                   \cup When(t.effects \cup Present("rule") # {} /\ ~config.acknowledge,
                             Finding("external_effect_acknowledgement_required", "blocked", a)))
    /\ UNCHANGED <<parameters, world, members>>

\* Mutant: a table that is gone has no privileges to lack.
AllowedIfGone ==
    \/ ~catalog.tables[a].available
    \/ RequiredPrivileges(p, a)[q] \in catalog.tables[a].granted

\* has_table_privilege is NULL, and the scan fails, for a table that is gone.
Allowed ==
    /\ catalog.tables[a].available
    /\ RequiredPrivileges(p, a)[q] \in catalog.tables[a].granted

AskPrivilege ==
    /\ step = "privileges" /\ Missed(<<a, q>>)
    /\ Add(When(lost \/ ~Allowed, Finding("missing_privilege", "inconclusive", a)))
    /\ IF q = Len(RequiredPrivileges(p, a)) THEN NextTable
       ELSE q' = q + 1 /\ UNCHANGED <<step, a, t>>
    /\ UNCHANGED <<parameters, world, members>>

Lose ==
    /\ step # "done" /\ ~lost /\ lost' = TRUE
    /\ UNCHANGED <<parameters, catalog, seen, changes, step, a, q, members, t, result, cut>>

(***************************************************************************)
(* One statement of another session: ALTER ROLE, GRANT and REVOKE of a     *)
(* role or a privilege, ALTER TABLE, CREATE and DROP of a table, a trigger *)
(* or a rule.                                                              *)
(***************************************************************************)
Toggle(set, element) == IF element \in set THEN set \ {element} ELSE set \cup {element}

Altered(table, b) ==
    {[table EXCEPT !.available = ~@], [table EXCEPT !.forced = ~@]}
    \cup {[table EXCEPT !.owner = r] : r \in Roles \ {table.owner}}
    \cup {[table EXCEPT !.effects = Toggle(@, e)] : e \in {"trigger", "rule"}}
    \cup {[table EXCEPT !.granted = Toggle(@, RequiredPrivileges(p, b)[k])] :
            k \in 1 .. Len(RequiredPrivileges(p, b))}

Neighbours ==
    {[catalog EXCEPT !.login = l] : l \in {"plain", "bypass"} \ {catalog.login}}
    \cup {[catalog EXCEPT !.members = Toggle(@, r)] : r \in {p.owner.role, p.adversary.role}}
    \cup UNION {{[catalog EXCEPT !.tables[b] = table] : table \in Altered(catalog.tables[b], b)} :
                  b \in Attacks(p)}

Change ==
    /\ step # "done" /\ changes < MaxChanges /\ changes' = changes + 1
    /\ catalog' \in Neighbours /\ seen' = seen \cup {catalog'}
    /\ UNCHANGED <<parameters, lost, step, a, q, members, t, result, cut>>

Ask ==
    \/ Flags \/ AskLogin \/ AskMembers
    \/ AskTable \/ AskTriggers \/ AskRules \/ AskPrivilege

Returned == step = "done" /\ UNCHANGED vars

Next == Ask \/ Lose \/ Change \/ Returned

Spec == Init /\ [][Next]_vars
-----------------------------------------------------------------------------
\* The configuration Execute passes, where the profile is all that counts.
OfExecute == config.allowWrite /\ ~config.acknowledge

\* If nobody changed the catalog, the questions add up to what Preflight says of
\* it in one step, wherever the connection dropped (gate.go:19-75).
OneStep ==
    step = "done" /\ changes = 0 /\ OfExecute =>
        /\ findings = PreflightFindings(p, catalog, cut, members)
        /\ outcome = GateOutcome(findings)
        /\ members \in Listed(catalog, cut)

(***************************************************************************)
(* What is wrong with a catalog, taken apart as far as the gate can tell.  *)
(***************************************************************************)
Wrong(code, target, detail) == [code |-> code, target |-> target, detail |-> detail]

Lacking(c, b) ==
    {Wrong("missing_privilege", b, RequiredPrivileges(p, b)[k]) :
        k \in {k \in 1 .. Len(RequiredPrivileges(p, b)) :
                 ~c.tables[b].available \/ RequiredPrivileges(p, b)[k] \notin c.tables[b].granted}}

WrongTable(c, b) ==
    LET table == c.tables[b]
    IN  IF ~table.available
        THEN {Wrong("table_unavailable", b, << >>)}
        ELSE When(~table.forced /\ table.owner \in {p.owner.role, p.adversary.role},
                  Wrong("unforced_owner", b, << >>))
             \cup {Wrong("external_effect_acknowledgement_required", b, e) :
                     e \in IF config.acknowledge THEN {} ELSE table.effects \cap {"trigger", "rule"}}

Violations(c) ==
    When(c.login = "bypass", Wrong("login_role_bypass", LoginRole, << >>))
    \cup When(c.login = "unknown", Wrong("login_role_unknown", LoginRole, << >>))
    \cup {Wrong("role_not_assumable", r, << >>) :
            r \in {p.owner.role, p.adversary.role} \ (c.members \cup {LoginRole})}
    \cup UNION {WrongTable(c, b) \cup Lacking(c, b) : b \in Attacks(p)}

\* A pass means that nothing was wrong with the catalog all the time the gate
\* was asking.  More cannot be had: the gate holds no lock, and what is right
\* when it is asked may be wrong at the next moment (gate.go:35-72, runner.go:28).
PassSawEverything ==
    step = "done" /\ outcome = "pass" =>
        /\ config.allowWrite /\ p.disposable
        /\ \A v \in Violations(catalog) : \E c \in seen : v \notin Violations(c)

\* While the connection holds, the gate only ever complains about something that
\* was wrong at some moment of the check: it does not put together a fault from
\* two tables or two roles (gate.go:51-72).
FindingsWereTrue ==
    cut = Never(p) =>
        \A f \in findings :
            \/ f.code \in {"allow_write_required", "disposable_required"}
            \/ \E c \in seen : \E v \in Violations(c) : v.code = f.code /\ v.target = f.target

\* A question that was not answered closes the gate, whatever changes meanwhile
\* (gate.go:35-72).
UnansweredNeverPasses == step = "done" /\ cut # Never(p) => outcome # "pass"

=============================================================================
