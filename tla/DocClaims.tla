----------------------------- MODULE DocClaims ------------------------------
(***************************************************************************)
(* What docs/ say of a run and the code does not do.  Each claim is        *)
(* violated by Execute; the runs that show it give the claim its best      *)
(* case, with no hazard but the one it speaks of.                          *)
(***************************************************************************)
EXTENDS Promises

\* docs/usage.md:57 "inconclusive means setup or database behavior prevented a
\* trustworthy verdict; it is not a pass": a SELECT that failed while its rows
\* were fetched is counted as a denial (attacks/run.go:33-38).
FailedReadsNeverPass ==
    Verdict = "pass" => \A e \in report.operations : e.cause # "late"

\* docs/project-overview.md:138-139 "A superuser, a BYPASSRLS role, or an
\* unforced table owner produces blocked before any fixture DML": the roles the
\* run switches to count as much as the one it logs in with (gate.go:35-50).
BypassIdentitiesAreBlocked ==
    rows # {} => {profile.owner.role, profile.adversary.role} \cap catalog.bypass = {}
=============================================================================
