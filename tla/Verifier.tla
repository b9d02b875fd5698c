------------------------------ MODULE Verifier ------------------------------
(***************************************************************************)
(* What a run promises its user: one answer, given once, that never claims *)
(* more than the truth about the requested operations, given only about a  *)
(* target the run was allowed to write to, and a database left as found.   *)
(***************************************************************************)
VARIABLES
    breaches,     \* requested operations the adversary can carry out
    authorised,   \* the target passes every condition of the safety gate
    answer,       \* "pending", then an outcome or "error"
    database      \* what has been added to the database for good

promise == <<breaches, authorised, answer, database>>

Init == answer = "pending" /\ database = {}

Answer(outcome) ==
    /\ answer = "pending" /\ answer' = outcome
    /\ outcome = "pass" => authorised /\ breaches = {}
    /\ outcome = "fail" => authorised /\ breaches # {}
    /\ UNCHANGED <<breaches, authorised, database>>

Next == \E outcome \in {"pass", "fail", "inconclusive", "blocked", "error"} : Answer(outcome)

Spec == Init /\ [][Next]_promise
=============================================================================
