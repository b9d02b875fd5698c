-------------------------------- MODULE MCCli -------------------------------
(***************************************************************************)
(* Command lines and reports for Cli: from nothing at all to a complete    *)
(* line, each with two more groups of arguments, good and bad ones; the    *)
(* reports Execute can return for one attacked table, and some no consumer *)
(* could read.                                                             *)
(***************************************************************************)
EXTENDS Cli, Preflight, Evaluate

Complete == <<"--profile", "v", "--db-url", "v">>

Groups ==
    { << >>, Complete, <<"--allow-write">>, <<"--output", "v">>, <<"--output">>,
      <<"--output", "--allow-write">>, <<"--profile", " ">>, <<"--profile", "--json">>,
      <<"--db-url", "">>, <<"--db-url-env", "v">>, <<"--json">>, <<"--trace">> }

RunLines ==
    {<<"run">> \o start \o a \o b :
        start \in {<< >>, Complete, Complete \o <<"--allow-write">>,
                   <<"--allow-write", "--profile", "v">>},
        a \in Groups, b \in Groups}

OtherLines ==
    { << >>, <<"--help">>, <<"observe">>, <<"validate">>, <<"validate", "--profile", "v">>,
      <<"validate", "--profile", " ">> }

EveryLine == RunLines \cup OtherLines

GateFindings ==
    { Finding("unforced_owner", "blocked", 1), Finding("role_not_assumable", "blocked", LoginRole),
      Finding("missing_privilege", "inconclusive", 1) }

Evidence(operation) ==
    {[table |-> 1, operation |-> operation, denied |-> v[1], error |-> v[2]] :
        v \in {<<TRUE, FALSE>>, <<TRUE, TRUE>>, <<FALSE, FALSE>>, <<FALSE, TRUE>>}}

Rendered(outcome, findings, evidence) ==
    [version |-> 1, outcome |-> outcome, summary |-> "v", findings |-> findings, operations |-> evidence]

GateReports ==
    {Rendered(GateOutcome(found), found, {}) : found \in (SUBSET GateFindings) \ {{}}}

MatrixReports ==
    {Rendered(EvaluateOutcome(controlOK, {}, {"select", "insert"}, evidence), {}, evidence) :
        controlOK \in BOOLEAN,
        evidence \in {{}} \cup {{s} : s \in Evidence("select")}
                     \cup {{s, i} : s \in Evidence("select"), i \in Evidence("insert")}}

EveryReport ==
    GateReports \cup MatrixReports
    \cup {None, Rendered("skipped", {}, {}), [Rendered("pass", {}, {}) EXCEPT !.summary = " "]}
=============================================================================
