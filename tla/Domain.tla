------------------------------- MODULE Domain -------------------------------
(***************************************************************************)
(* The data contracts of internal/domain, as far as the verdict of a run   *)
(* depends on them, and the shape internal/profile accepts.  Attack a of a *)
(* profile is the attack on table a: validation makes the tables of the    *)
(* attacks distinct, so the index names the table.                         *)
(***************************************************************************)
EXTENDS Naturals, Sequences

CONSTANTS
    Roles,        \* database roles a profile or the catalog can name
    Gucs,         \* names of session settings
    GucValues,    \* values of session settings
    Unset         \* a setting that was never set in the session

ASSUME UnsetAssumption == Unset \notin GucValues

Outcomes == {"pass", "fail", "inconclusive", "blocked"}

Operations == {"select", "update", "delete", "insert"}

\* Findings point at a role, at a table (by index), or at nothing.
NoTarget == 0

Finding(code, severity, target) ==
    [code |-> code, severity |-> severity, target |-> target]

\* A setting the identity does not mention is Unset.
Identity == [role : Roles, settings : [Gucs -> GucValues \cup {Unset}]]

NewReport(outcome, findings, evidence) ==
    [outcome |-> outcome, findings |-> findings, operations |-> evidence]

(***************************************************************************)
(* A validated profile.  fixtures[f] is the table of fixture f and ops[a]  *)
(* the operations attempted on table a, in order and possibly repeated.    *)
(* "unbuildable" holds the attacks' operations whose payload sqlsafe will  *)
(* refuse (an update without exactly one mutation, an insert without       *)
(* columns, a column that is not an identifier): validation does not look  *)
(* at payloads.                                                            *)
(***************************************************************************)
Attacks(p) == 1 .. Len(p.ops)

Fixtures(p) == 1 .. Len(p.fixtures)

IsProfile(p) ==
    /\ p.disposable = TRUE
    /\ p.owner \in Identity /\ p.adversary \in Identity
    /\ p.ops \in Seq(Seq(Operations)) /\ p.ops # << >>
    /\ \A a \in Attacks(p) : p.ops[a] # << >>
    /\ p.fixtures \in Seq(Attacks(p)) /\ p.fixtures # << >>
    /\ \A a \in Attacks(p) : \E f \in Fixtures(p) : p.fixtures[f] = a
    /\ p.unbuildable \subseteq Attacks(p) \X {"update", "insert"}

Requested(p, a) == {p.ops[a][k] : k \in 1 .. Len(p.ops[a])}
=============================================================================
