----------------------------- MODULE Preflight ------------------------------
(***************************************************************************)
(* internal/preflight over internal/catalog: the non-mutating gate.  It    *)
(* asks the catalog one question after another on the run's connection;    *)
(* once the connection is gone every later question fails.  "cut" is the   *)
(* first question that is not answered.                                    *)
(*                                                                         *)
(* A catalog is a record                                                   *)
(*   login    "plain" | "bypass" | "unknown": the attributes of LoginRole  *)
(*   members  roles LoginRole is a direct member of (pg_auth_members)      *)
(*   bypass   roles other than the login that are superuser or BYPASSRLS   *)
(*   tables   per attacked table: available, owner, forced (row level      *)
(*            security), effects (a set of "trigger", "rule", "foreign")   *)
(*            and granted (a set of role-privilege pairs)                  *)
(* bypass and "foreign" are never read by the code.                        *)
(***************************************************************************)
EXTENDS Domain

CONSTANT LoginRole   \* the role the database URL logs in with

ASSUME LoginRoleAssumption == LoginRole \in Roles

Privilege(operation) ==
    CASE operation = "select" -> "SELECT"
      [] operation = "update" -> "UPDATE"
      [] operation = "delete" -> "DELETE"
      [] operation = "insert" -> "INSERT"

RequiredPrivileges(p, a) ==
    << <<p.owner.role, "INSERT">>, <<p.owner.role, "SELECT">> >> \o
    [j \in 1 .. Len(p.ops[a]) |-> <<p.adversary.role, Privilege(p.ops[a][j])>>]

\* The questions, in the order they are asked: <<0, 0>> the login's attributes,
\* <<0, 1>> its memberships, <<a, 0>> the table of attack a and <<a, q>> the q-th
\* privilege required on it.
Questions(p) ==
    {<<0, 0>>, <<0, 1>>} \cup
    UNION {{a} \X (0 .. Len(RequiredPrivileges(p, a))) : a \in Attacks(p)}

\* Where no question is: a cut here leaves every question answered.
Never(p) == <<Len(p.ops) + 1, 0>>

Answered(question, cut) ==
    \/ question[1] < cut[1]
    \/ question[1] = cut[1] /\ question[2] < cut[2]

When(condition, finding) == IF condition THEN {finding} ELSE {}

\* Memberships returns what it read so far together with the error, and Check
\* drops the error: a list that breaks off counts for what it holds.
Listed(catalog, cut) ==
    IF Answered(<<0, 1>>, cut) THEN {catalog.members}
    ELSE IF cut = <<0, 1>> THEN SUBSET catalog.members ELSE {{}}

RoleFindings(p, catalog, cut, members) ==
    LET known == Answered(<<0, 0>>, cut) /\ catalog.login # "unknown"
    IN  When(~p.disposable, Finding("disposable_required", "blocked", NoTarget))
        \cup When(~known, Finding("login_role_unknown", "blocked", LoginRole))
        \cup When(known /\ catalog.login = "bypass",
                  Finding("login_role_bypass", "blocked", LoginRole))
        \cup {Finding("role_not_assumable", "blocked", r) :
                r \in {p.owner.role, p.adversary.role} \ (members \cup {LoginRole})}

\* Eight queries make up the description of a table; if one of them fails there
\* is none.
Readable(catalog, cut, a) == Answered(<<a, 0>>, cut) /\ catalog.tables[a].available

Granted(p, catalog, cut, a, q) ==
    Answered(<<a, q>>, cut) /\ RequiredPrivileges(p, a)[q] \in catalog.tables[a].granted

TableFindings(p, catalog, cut, a) ==
    LET table == catalog.tables[a]
    IN  IF ~Readable(catalog, cut, a)
        THEN {Finding("table_unavailable", "inconclusive", a)}
        ELSE When(~table.forced /\ table.owner \in {p.owner.role, p.adversary.role},
                  Finding("unforced_owner", "blocked", a))
             \cup When(table.effects \cap {"trigger", "rule"} # {},
                       Finding("external_effect_acknowledgement_required", "blocked", a))
             \cup When(\E q \in 1 .. Len(RequiredPrivileges(p, a)) : ~Granted(p, catalog, cut, a, q),
                       Finding("missing_privilege", "inconclusive", a))

PreflightFindings(p, catalog, cut, members) ==
    RoleFindings(p, catalog, cut, members) \cup
    UNION {TableFindings(p, catalog, cut, a) : a \in Attacks(p)}

\* Mutant: only a blocking finding shuts the gate.
GateIgnoresInconclusive(findings) ==
    IF \E f \in findings : f.severity = "blocked" THEN "blocked" ELSE "pass"

\* The fold in the code's "add": blocking findings win whatever the order.
GateOutcome(findings) ==
    IF \E f \in findings : f.severity = "blocked" THEN "blocked"
    ELSE IF \E f \in findings : f.severity = "inconclusive" THEN "inconclusive"
    ELSE "pass"
=============================================================================
