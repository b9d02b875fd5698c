--------------------------- MODULE MCFixturePlan ----------------------------
(***************************************************************************)
(* Inputs for FixturePlan: every graph over four fixtures none of which    *)
(* needs itself; three fixtures in every order with any dependencies, also *)
(* repeated ones and on themselves; and every list of at most two nodes    *)
(* with names that are missing, taken and unknown.                         *)
(***************************************************************************)
EXTENDS FixturePlan, SequencesExt

Node(name, dependsOn) == [name |-> name, dependsOn |-> dependsOn]

Lists(S, most) == UNION {[1 .. n -> S] : n \in 0 .. most}

Needing == {needs \in [1 .. 4 -> SUBSET (1 .. 4)] : \A i \in 1 .. 4 : i \notin needs[i]}

Graphs ==
    {[i \in 1 .. 4 |-> Node(i, SetToSeq(needs[i]))] : needs \in Needing}

Orders == {order \in [1 .. 3 -> 1 .. 3] : \A i, j \in 1 .. 3 : i # j => order[i] # order[j]}

Repeating ==
    {[i \in 1 .. 3 |-> Node(order[i], needs[order[i]])] :
        order \in Orders, needs \in [1 .. 3 -> Lists(1 .. 3, 2)]}

Malformed ==
    Lists({Node(name, needs) : name \in 0 .. 2, needs \in Lists(1 .. 3, 2)}, 2)

EveryInput == Graphs \cup Repeating \cup Malformed
=============================================================================
