----------------------------- MODULE FixturePlan ----------------------------
(***************************************************************************)
(* internal/fixtures.Plan: Kahn's algorithm over declared fixtures.  Names *)
(* are numbers, ordered as sort.Strings orders them; NoName is the empty   *)
(* one.                                                                    *)
(***************************************************************************)
EXTENDS Integers, Sequences, FiniteSets

CONSTANT Inputs     \* the lists of nodes Plan is called with

NoName == 0

ASSUME InputsAssumption == Inputs \subseteq Seq([name : Nat, dependsOn : Seq(Nat)])

VARIABLES
    nodes,      \* the argument
    phase,      \* "check" | "link" | "loop" | "done"
    incoming,   \* by name: how many dependencies are not planned yet
    ready,      \* by name: how often it is in the list of names to be planned next
    out,        \* names planned, in order
    err         \* "none" | "empty" | "duplicate" | "unknown" | "cycle"

vars == <<nodes, phase, incoming, ready, out, err>>

Index == 1 .. Len(nodes)

Names == {nodes[i].name : i \in Index}

\* The dependencies of a name, as they are listed.
DependsOn(name) == nodes[CHOOSE i \in Index : nodes[i].name = name].dependsOn

\* How often a name is among the children of another.
Children(name, child) ==
    Cardinality({j \in 1 .. Len(DependsOn(child)) : DependsOn(child)[j] = name})

Init ==
    /\ nodes \in Inputs
    /\ phase = "check" /\ incoming = << >> /\ ready = << >> /\ out = << >> /\ err = "none"

Refuse(problem) ==
    /\ err' = problem /\ phase' = "done" /\ out' = << >>
    /\ UNCHANGED <<nodes, incoming, ready>>

\* The first loop stops at the first name that is missing or taken.
Taken(i) == \E j \in 1 .. i - 1 : nodes[j].name = nodes[i].name

Check ==
    /\ phase = "check"
    /\ \/ \E i \in Index :
            /\ nodes[i].name = NoName \/ Taken(i)
            /\ \A j \in 1 .. i - 1 : nodes[j].name # NoName /\ ~Taken(j)
            /\ Refuse(IF nodes[i].name = NoName THEN "empty" ELSE "duplicate")
       \/ /\ \A i \in Index : nodes[i].name # NoName /\ ~Taken(i)
          /\ phase' = "link" /\ UNCHANGED <<nodes, incoming, ready, out, err>>

Unknown == \E i \in Index : \E j \in 1 .. Len(nodes[i].dependsOn) : nodes[i].dependsOn[j] \notin Names

\* The second loop, and the names that depend on nothing.
Link ==
    /\ phase = "link"
    /\ \/ Unknown /\ Refuse("unknown")
       \/ /\ ~Unknown
          /\ incoming' = [name \in Names |-> Len(DependsOn(name))]
          /\ ready' = [name \in Names |-> IF incoming'[name] = 0 THEN 1 ELSE 0]
          /\ phase' = "loop" /\ UNCHANGED <<nodes, out, err>>

Ready == {name \in DOMAIN ready : ready[name] > 0}

\* Counts down the children of a name that has been planned; a child joins the
\* list when its count passes zero.
Plan(name) ==
    /\ out' = Append(out, name)
    /\ incoming' = [c \in Names |-> incoming[c] - Children(name, c)]
    /\ ready' = [c \in Names |-> ready[c] - (IF c = name THEN 1 ELSE 0)
                                 + (IF incoming[c] > 0 /\ incoming'[c] <= 0 THEN 1 ELSE 0)]
    /\ UNCHANGED <<nodes, phase, err>>

\* Mutant: the list is not sorted, and a map is ranged over in any order.
TakeAny == phase = "loop" /\ \E name \in Ready : Plan(name)

\* Mutant: a child joins the list with its first dependency.
TakeEager ==
    /\ phase = "loop"
    /\ \E name \in Ready :
          /\ \A other \in Ready : name <= other
          /\ out' = Append(out, name)
          /\ incoming' = [c \in Names |-> incoming[c] - Children(name, c)]
          /\ ready' = [c \in Names |-> ready[c] - (IF c = name THEN 1 ELSE 0)
                                       + (IF incoming'[c] < incoming[c] THEN 1 ELSE 0)]
    /\ UNCHANGED <<nodes, phase, err>>

\* Mutant: a name stays in the list.
TakeAndKeep ==
    /\ phase = "loop"
    /\ \E name \in Ready :
          /\ \A other \in Ready : name <= other
          /\ out' = IF name \in {out[i] : i \in 1 .. Len(out)} THEN out ELSE Append(out, name)
    /\ UNCHANGED <<nodes, phase, err, incoming, ready>>

\* The list is sorted before its first name is taken.
Take ==
    /\ phase = "loop"
    /\ \E name \in Ready : (\A other \in Ready : name <= other) /\ Plan(name)

\* Mutant: a short plan is a plan.
FinishAnyway ==
    /\ phase = "loop" /\ Ready = {} /\ phase' = "done"
    /\ UNCHANGED <<nodes, incoming, ready, out, err>>

Finish ==
    /\ phase = "loop" /\ Ready = {}
    /\ \/ Len(out) # Len(nodes) /\ Refuse("cycle")
       \/ Len(out) = Len(nodes) /\ phase' = "done" /\ UNCHANGED <<nodes, incoming, ready, out, err>>

Returned == phase = "done" /\ UNCHANGED vars

Step == Check \/ Link \/ Take \/ Finish

Next == Step \/ Returned

\* A function of one goroutine.
Spec == Init /\ [][Next]_vars /\ WF_vars(Step)

-----------------------------------------------------------------------------
Planned == {out[i] : i \in 1 .. Len(out)}

Needs(name) == {DependsOn(name)[j] : j \in 1 .. Len(DependsOn(name))}

Valid == NoName \notin Names /\ Cardinality(Names) = Len(nodes) /\ ~Unknown

\* Some fixtures depend on each other in a circle: each of them needs another of
\* them, or itself.
Cyclic == \E circle \in SUBSET Names : circle # {} /\ \A name \in circle : Needs(name) \cap circle # {}

\* At every moment of the loop, and in the plan, a fixture comes after everything
\* it depends on, however often it is listed (plan.go:46-58).
DependenciesFirst ==
    \A i \in 1 .. Len(out) : Needs(out[i]) \subseteq {out[j] : j \in 1 .. i - 1}

\* Plan returns every fixture, or an error if the list is malformed or there is a
\* circle, and only then (plan.go:21-34, 59-62).
PlanOrError ==
    phase = "done" =>
        /\ err = "none" <=> Valid /\ ~Cyclic
        /\ err = "cycle" <=> Valid /\ Cyclic
        /\ err = "none" => Planned = Names /\ Len(out) = Len(nodes)

\* The plan depends on the fixtures and not on their order in the list or on the
\* order of a map: of the fixtures that could come next it is the first by name
\* (plan.go:14, 40-45, 57).
Deterministic ==
    \A i \in 1 .. Len(out) : \A name \in Names :
        LET before == {out[j] : j \in 1 .. i - 1}
        IN  name \notin before /\ Needs(name) \subseteq before => out[i] <= name

\* Plan comes to an end, with circles too (plan.go:47-58).
Terminates == <>(phase = "done")
=============================================================================
