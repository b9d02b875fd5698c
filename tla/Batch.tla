-------------------------------- MODULE Batch -------------------------------
(***************************************************************************)
(* What the harness promises: operations take place one after another, each*)
(* of them whole or not at all, an operation that failed leaves no trace   *)
(* and does not keep the next one from running, and in the end everything  *)
(* is undone.  If it cannot be kept up, the answer is an error.            *)
(***************************************************************************)
EXTENDS Naturals

CONSTANT N      \* operations to run

VARIABLES
    ran,        \* operations that are over
    failed,     \* those of them that failed
    effects,    \* those whose effects stand
    state       \* "open" | "spoiled" | "ok" | "error"

batch == <<ran, failed, effects, state>>

Init == ran = 0 /\ failed = {} /\ effects = {} /\ state = "open"

Succeed ==
    /\ state = "open" /\ ran < N
    /\ ran' = ran + 1
    /\ effects' \in {effects, effects \cup {ran + 1}}
    /\ UNCHANGED <<failed, state>>

Fail ==
    /\ state = "open" /\ ran < N
    /\ ran' = ran + 1 /\ failed' = failed \cup {ran + 1}
    /\ UNCHANGED <<effects, state>>

\* The transaction is lost, or was ended by an operation.
Spoil == state = "open" /\ state' = "spoiled" /\ effects' = {} /\ UNCHANGED <<ran, failed>>

Answer ==
    /\ \/ state = "open" /\ ran = N /\ state' = "ok"
       \/ state \in {"open", "spoiled"} /\ state' = "error"
    /\ effects' = {} /\ UNCHANGED <<ran, failed>>

Next == Succeed \/ Fail \/ Spoil \/ Answer

Spec == Init /\ [][Next]_batch
=============================================================================
