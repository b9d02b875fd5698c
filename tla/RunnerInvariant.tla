-------------------------- MODULE RunnerInvariant ---------------------------
(***************************************************************************)
(* The inductive invariant behind the properties of Promises, as named     *)
(* parts: what each phase of Execute may rely on.                          *)
(***************************************************************************)
EXTENDS Promises

TxPhases == {"configureSeed", "seed"} \cup AttackPhases \cup {"evaluate", "rollback"}

Seeding == BeforeSeeds \cup {"seed"}

Attacking == AttackPhases \cup {"evaluate"}

Ending == {"rollback", "close", "returned"}

\* Rows exist only inside the transaction, and it ends with the connection.
InTransaction ==
    /\ durable = {}
    /\ pc \notin TxPhases \/ conn # "up" => rows = {}
    /\ pc \in TxPhases /\ conn = "up" => txStatus # "idle"

\* Results appear in the order Execute computes them.
NothingEarly ==
    /\ pc \notin Ending => err = "none" /\ report = NoReport
    /\ pc \in Seeding => evidence = {} /\ controlOK

\* Past the gate, and with a connection that survived it, the target is fit.
PastGate ==
    /\ pc \notin {"connect", "verify", "close", "returned"} => catalog.server = "ok"
    /\ pc \in {"begin"} \cup TxPhases /\ conn = "up" => Authorised

\* ownerRow[a] is the last fixture of table a among those already seeded.
Latest(a, bound) ==
    /\ ownerRow[a] < bound
    /\ ownerRow[a] # 0 => profile.fixtures[ownerRow[a]] = a
    /\ \A g \in Fixtures(profile) : ownerRow[a] < g /\ g < bound => profile.fixtures[g] # a

Remembered ==
    /\ pc \in Seeding => \A a \in Attacks(profile) : Latest(a, at)
    /\ pc \in Attacking => \A a \in Attacks(profile) : IsTarget(a, ownerRow[a])

\* The slots Execute has been through: for each attack first the reads, updates
\* and deletes, then the inserts.
Tried(a, j) ==
    \/ pc = "evaluate"
    \/ a < at
    \/ a = at /\ pc = "attack" /\ j < k /\ profile.ops[a][j] # "insert"
    \/ a = at /\ pc = "insert" /\ (j < k \/ profile.ops[a][j] # "insert")

Has(a, j) == \E e \in evidence : e.attack = a /\ e.slot = j

Recorded ==
    pc \in Attacking =>
        /\ controlOK => \A a \in Attacks(profile) : \A j \in 1 .. Len(profile.ops[a]) :
                           Tried(a, j) => Has(a, j)
        /\ \A e \in evidence :
              /\ e.slot \in 1 .. Len(profile.ops[e.attack])
              /\ e.operation = profile.ops[e.attack][e.slot]
              /\ Tried(e.attack, e.slot)
        /\ \A e, f \in evidence : e.attack = f.attack /\ e.slot = f.slot => e = f

\* Some attack was not turned down: this rules a pass out.
Undenied == \E e \in evidence : ~e.denied

\* Some attack failed: this rules a pass and a fail out.
Void == \E e \in evidence : e.error /\ ~e.denied

\* The row the control saw stays until an attack that was not denied touches it.
RowKept ==
    pc \in {"configureAdversary", "attack", "insert"} /\ conn = "up" =>
        <<"owner", ownerRow[at]>> \in rows \/ Undenied

Subject(e) == IF e.operation = "insert" THEN e.attack ELSE ownerRow[e.attack]

\* A denial means that the policies refuse, unless it is blind, the connection
\* is gone, or another attack spoils the pass anyway.
Honest ==
    pc \in Attacking =>
        \A e \in evidence :
            e.denied => \/ Blind(e) \/ conn # "up" \/ Undenied
                        \/ <<Subject(e), e.operation>> \notin exposed

Foul == \E e \in evidence : ~e.proper

\* An attack that succeeded, or left a trace, means that there is a breach.
Traced ==
    pc \notin Ending =>
        \/ Breaches # {} \/ Foul
        \/ /\ \A e \in evidence : e.denied \/ e.error
           /\ \A f \in Fixtures(profile) : <<"taken", f>> \notin rows

\* In an aborted transaction some attack failed visibly or while fetching.
Broken ==
    /\ pc = "attack" /\ conn = "up" /\ txStatus = "failed" =>
          Void \/ \E e \in evidence : e.cause = "late"
    /\ pc \in Attacking =>
          \A e \in evidence :
              /\ e.cause \in {"late", "privilege", "encode"} => e.cause \in Hazards
              /\ e.cause = "aborted" /\ e.operation = "select" =>
                    Void \/ \E f \in evidence : f.cause = "late"

\* Settings the adversary does not name have the owner's value from the first
\* switch on, and the others the value of the last.
Context ==
    /\ pc \in BeforeSeeds => settings = NoSettings
    /\ pc \in {"seed"} \cup AttackPhases =>
          \A g \in Gucs :
              profile.adversary.settings[g] = Unset => settings[g] = profile.owner.settings[g]
    /\ AttacksRunAsAdversary

Complete(operations) ==
    \A a \in Attacks(profile) : \A j \in 1 .. Len(profile.ops[a]) :
        /\ \E e \in operations :
              e.attack = a /\ e.slot = j /\ e.operation = profile.ops[a][j]
        /\ \A e, f \in operations :
              e.attack = a /\ f.attack = a /\ e.slot = j /\ f.slot = j => e = f

Earned(operations) ==
    \A b \in Breaches :
        \E e \in operations : e.attack = b[1] /\ e.operation = b[2] /\ Blind(e)

\* Why no denial of a pass is blind if the hazards and the identities allow none.
Seeing(operations) ==
    Covered /\ Hazards \cap {"late", "privilege", "encode"} = {} =>
        \A e \in operations : ~Blind(e)

\* What the report claims rests on the evidence.
Grounded ==
    /\ report.outcome # "none"
    /\ report.outcome \in {"pass", "fail"} => Authorised /\ Complete(report.operations)
    /\ report.outcome = "pass" => Earned(report.operations) /\ Seeing(report.operations)
    /\ report.outcome = "fail" => Breaches # {} \/ \E e \in report.operations : ~e.proper
    /\ Covered => \A e \in report.operations : e.proper

\* What is true of a report that can still reach the caller without an error.
Judged ==
    /\ pc \in Ending /\ err = "none" /\ (pc = "rollback" => conn = "up") => Grounded
    /\ pc \in {"close", "returned"} /\ conn = "lost" /\ err = "none" =>
          report.outcome \in {"inconclusive", "blocked"}

\* Everything above at once is preserved by every step: each property of
\* Promises follows from it (runner.go:18-82).
IInv ==
    /\ TypeOK
    /\ InTransaction /\ NothingEarly /\ PastGate /\ Remembered /\ Recorded
    /\ RowKept /\ Honest /\ Traced /\ Broken /\ Context /\ Judged
=============================================================================
