------------------------------ MODULE Verdicts ------------------------------
(***************************************************************************)
(* What runner.Execute returns without an error: the report of a gate that *)
(* did not open, or of an attack matrix after one that found nothing.  The *)
(* proofs about Runner establish it, those about Cli start from it.        *)
(***************************************************************************)
EXTENDS Preflight, Evaluate

\* gate.Findings with the outcome they add up to (runner.go:29-34).
FromGate(r) ==
    /\ r.findings # {} /\ \A f \in r.findings : f.severity \in {"blocked", "inconclusive"}
    /\ r.outcome = GateOutcome(r.findings) /\ r.operations = {}

\* The verdict over the evidence (runner.go:72-81).
FromMatrix(r) ==
    /\ r.findings = {} /\ \A e \in r.operations : e.denied \in BOOLEAN /\ e.error \in BOOLEAN
    /\ \E controlOK \in BOOLEAN, required \in SUBSET Operations :
          r.outcome = EvaluateOutcome(controlOK, {}, required, r.operations)

OfExecute(r) == FromGate(r) \/ FromMatrix(r)
=============================================================================
