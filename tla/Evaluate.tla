------------------------------ MODULE Evaluate ------------------------------
(***************************************************************************)
(* internal/evaluate: the verdict over preflight findings, the negative    *)
(* control and the evidence of the attacks.  The code folds slices; no     *)
(* step of it looks at the order or at repetitions, so sets stand for them.*)
(***************************************************************************)
EXTENDS Domain

\* The code tells the requested operations of all attacks from the observed
\* ones by operation alone, not by table.
Unseen(required, evidence) == required \ {e.operation : e \in evidence}

\* Mutant: asks for the undenied operations before it asks for the failed ones.
FailBeforeVoid(controlOK, findings, required, evidence) ==
    IF \E f \in findings : f.severity = "blocked"           THEN "blocked"
    ELSE IF \/ ~controlOK
            \/ \E f \in findings : f.severity = "inconclusive"
            \/ evidence = {} \/ Unseen(required, evidence) # {} THEN "inconclusive"
    ELSE IF \E e \in evidence : ~e.denied                   THEN "fail"
    ELSE "pass"

\* Mutant: one denial is enough.
AnyDenialPasses(controlOK, findings, required, evidence) ==
    IF \E f \in findings : f.severity = "blocked"           THEN "blocked"
    ELSE IF \/ ~controlOK
            \/ \E f \in findings : f.severity = "inconclusive"
            \/ Unseen(required, evidence) # {}
            \/ \E e \in evidence : e.error /\ ~e.denied     THEN "inconclusive"
    ELSE IF \A e \in evidence : ~e.denied                   THEN "fail"
    ELSE "pass"

EvaluateOutcome(controlOK, findings, required, evidence) ==
    IF \E f \in findings : f.severity = "blocked"           THEN "blocked"
    ELSE IF \/ ~controlOK
            \/ \E f \in findings : f.severity = "inconclusive"
            \/ evidence = {}
            \/ Unseen(required, evidence) # {}
            \/ \E e \in evidence : e.error /\ ~e.denied     THEN "inconclusive"
    ELSE IF \E e \in evidence : ~e.denied                   THEN "fail"
    ELSE "pass"
=============================================================================
