------------------------------ MODULE Artifacts -----------------------------
(***************************************************************************)
(* internal/ci, internal/report and internal/remediate: what a report      *)
(* becomes for GitHub, for code scanning, for a terminal and as advice.    *)
(* Texts are left out; what remains is which finding or evidence gets a    *)
(* line, and at which level.                                               *)
(***************************************************************************)

Line(level, about) == [level |-> level, about |-> about]

\* Mutant: a blocking finding is taken for a remark.
StopsInconclusive(finding) == finding.severity = "inconclusive"

Stops(finding) == finding.severity \in {"blocked", "inconclusive"}

\* Evidence is reported by Denied alone, whether it has an error or not.
Undenied(report) == {e \in report.operations : ~e.denied}

GitHubAnnotations(report) ==
    {Line(IF Stops(f) THEN "error" ELSE "notice", f) : f \in report.findings} \cup
    {Line("error", e) : e \in Undenied(report)}

SARIF(report) ==
    {Line(IF Stops(f) THEN "error" ELSE "warning", f) : f \in report.findings} \cup
    {Line("error", e) : e \in Undenied(report)}

Terminal(report) ==
    {Line(f.severity, f) : f \in report.findings} \cup
    {Line(IF e.denied THEN "denied" ELSE "exposed", e) : e \in report.operations}

Advised == {"login_role_bypass", "unforced_owner", "missing_privilege"}

Guidance(report) ==
    {f \in report.findings : f.code \in Advised} \cup Undenied(report)
=============================================================================
