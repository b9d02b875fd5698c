------------------------------ MODULE Promises ------------------------------
(***************************************************************************)
(* The properties of internal/runner.Execute.                              *)
(***************************************************************************)
EXTENDS Runner

Verdict == IF pc = "returned" /\ err = "none" THEN report.outcome ELSE "none"

\* Of several fixtures of one table, the last is attacked.
IsTarget(a, f) ==
    /\ f \in Fixtures(profile) /\ profile.fixtures[f] = a
    /\ \A g \in Fixtures(profile) : g > f => profile.fixtures[g] # a

\* The adversary can do op to the row, or the table, that attack a is about.
Breach(a, op) ==
    IF op = "insert" THEN <<a, op>> \in exposed
    ELSE \E f \in Fixtures(profile) : IsTarget(a, f) /\ <<f, op>> \in exposed

Breaches ==
    {b \in Attacks(profile) \X Operations :
        b[2] \in Requested(profile, b[1]) /\ Breach(b[1], b[2])}

(***************************************************************************)
(* The evidence a denial of which says nothing about the policies, although*)
(* attacks.Run and attacks.Insert count it as one: an error that surfaces  *)
(* only in rows.Err, an insert rejected by SQLSTATE 42501 for want of a    *)
(* privilege, an insert pgx could not even send, and whatever happened     *)
(* under another session context than the adversary's.                     *)
(***************************************************************************)
Blind(e) ==
    \/ ~e.proper
    \/ e.operation = "select" /\ e.cause \in {"late", "aborted"}
    \/ e.operation = "insert" /\ e.cause \in {"privilege", "encode"}

\* A "pass" is earned: each requested operation that the adversary can in truth
\* carry out was masked by one of the blind spots above, and by nothing else -
\* not by a missing row, an aborted transaction, an earlier attack or a lost
\* connection (runner.go:51-81, attacks/run.go:14-105, evaluate.go:5-42).
PassIsEarned ==
    Verdict = "pass" =>
        \A b \in Breaches :
            \E e \in report.operations :
                e.attack = b[1] /\ e.operation = b[2] /\ Blind(e)

\* Where no error can take the shape of a denial, "pass" means that nothing that
\* was requested is possible for the adversary (runner.go:51-81).
PassMeansUnexposed == Verdict = "pass" => Breaches = {}

\* A "fail" names a real breach: some requested operation was carried out by a
\* session that had the adversary's identity and nothing else, and the policies
\* do allow it (runner.go:62-70, evaluate.go:36-40).
FailIsReal == Verdict = "fail" => Breaches # {} \/ \E e \in report.operations : ~e.proper

\* A "pass" or a "fail" rests on exactly one piece of evidence for every
\* operation of every attack, although the evaluator only compares operation
\* names across all tables (runner.go:53-76, evaluate.go:22-30).
EvidenceComplete ==
    Verdict \in {"pass", "fail"} =>
        \A a \in Attacks(profile) : \A j \in 1 .. Len(profile.ops[a]) :
            /\ \E e \in report.operations :
                  e.attack = a /\ e.slot = j /\ e.operation = profile.ops[a][j]
            /\ \A e, f \in report.operations :
                  e.attack = a /\ f.attack = a /\ e.slot = j /\ f.slot = j => e = f

\* Nothing the run writes outlives it, whatever fails and whenever: every write
\* happens inside the one transaction, which is never committed
\* (runner.go:35-43).
DatabaseUntouched == durable = {}

\* A run whose connection dropped never says "pass" or "fail": either the
\* failing rollback turns the report into an error, or the loss happened during
\* the preflight and the gate stayed shut (runner.go:28-43).
LostNeverConcludes ==
    pc = "returned" /\ conn = "lost" /\ err = "none" =>
        report.outcome \in {"inconclusive", "blocked"}

\* The settings the owner's identity introduces are all overwritten by the
\* adversary's, so none of them can survive the switch.
Covered == \A g \in Gucs : profile.owner.settings[g] # Unset =>
                           profile.adversary.settings[g] # Unset

\* What the switches make of the session: the adversary's role and settings, and
\* the owner's value of every setting the adversary's identity does not name.
AsSwitched ==
    /\ role = profile.adversary.role
    /\ settings = Overlay(profile.owner.settings, profile.adversary)

\* Every attack runs under the adversary's role and settings, on every table and
\* after any number of switches between the identities, and of the owner's identity
\* nothing is left but the settings the adversary's does not name: a piece of
\* evidence is about the adversary and nobody else if and only if there are none
\* (runner.go:53-65, session/configure.go:13-39).
AttacksRunAsAdversary ==
    /\ pc \in {"attack", "insert"} => AsSwitched
    /\ \A e \in evidence : e.proper <=> Covered

\* The target meets every condition of the safety gate (preflight/gate.go:29-73).
Authorised ==
    /\ catalog.server = "ok" /\ catalog.login \notin {"unknown", "bypass"}
    /\ {profile.owner.role, profile.adversary.role} \subseteq catalog.members \cup {LoginRole}
    /\ \A a \in Attacks(profile) :
          LET table == catalog.tables[a]
          IN  /\ table.available
              /\ table.forced \/ table.owner \notin {profile.owner.role, profile.adversary.role}
              /\ table.effects \cap {"trigger", "rule"} = {}
              /\ {<<profile.owner.role, "INSERT">>, <<profile.owner.role, "SELECT">>}
                   \subseteq table.granted
              /\ \A op \in Requested(profile, a) :
                    <<profile.adversary.role, Privilege(op)>> \in table.granted

\* No row of the target is written unless the target met every condition of the
\* gate, even if the connection was lost while the gate was being evaluated
\* (runner.go:28-35, preflight/gate.go:19-75).
OnlyAuthorisedWrites == [][rows' \notin {rows, {}} => Authorised]_vars

\* Execute returns, unless the server stops answering once Open is done: Open's own
\* waits are bounded.  However it ends, it keeps no connection, also when Open gave
\* up on a server that fell silent after the connection was made (runner.go:18-82,
\* database/connection.go:37-55, 93-117).
ReturnsUnlessHung ==
    <>((pc = "returned" /\ conn # "up") \/ (stalled /\ ~Deadlined))

\* Execute keeps the promise of the abstract Verifier.
V == INSTANCE Verifier WITH
        breaches   <- Breaches,
        authorised <- Authorised,
        answer     <- IF pc # "returned" THEN "pending"
                      ELSE IF err # "none" THEN "error" ELSE report.outcome,
        database   <- durable

\* Execute implements Verifier where errors cannot pass for denials: it answers
\* once, truthfully, only about an authorised target, and leaves the database
\* as it found it (runner.go:18-82).
KeepsPromise == V!Spec
=============================================================================
