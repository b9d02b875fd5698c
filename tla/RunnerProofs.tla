---------------------------- MODULE RunnerProofs ----------------------------
(***************************************************************************)
(* Proofs about Runner for every set of profiles, targets and hazards.     *)
(***************************************************************************)
EXTENDS RunnerInvariant, Verdicts, SequenceTheorems, TLAPS

-----------------------------------------------------------------------------
(***************************************************************************)
(* What validation guarantees of the profile, one fact a line.             *)
(***************************************************************************)
LEMMA ProfileFacts ==
    ASSUME profile \in Profiles
    PROVE  /\ Len(profile.ops) \in Nat /\ Len(profile.ops) >= 1
           /\ \A a \in Attacks(profile) :
                 /\ Len(profile.ops[a]) \in Nat /\ Len(profile.ops[a]) >= 1
                 /\ \A j \in 1 .. Len(profile.ops[a]) : profile.ops[a][j] \in Operations
           /\ Len(profile.fixtures) \in Nat /\ Len(profile.fixtures) >= 1
           /\ \A f \in Fixtures(profile) : profile.fixtures[f] \in Attacks(profile)
           /\ \A a \in Attacks(profile) : \E f \in Fixtures(profile) : profile.fixtures[f] = a
           /\ profile.owner \in Identity /\ profile.adversary \in Identity
<1>1. IsProfile(profile)
  BY ProfilesAssumption
<1>2. Len(profile.ops) \in Nat /\ Len(profile.ops) >= 1
  BY <1>1 DEF IsProfile
<1>3. \A a \in Attacks(profile) : profile.ops[a] \in Seq(Operations) /\ profile.ops[a] # << >>
  BY <1>1 DEF IsProfile, Attacks
<1>4. \A a \in Attacks(profile) :
         /\ Len(profile.ops[a]) \in Nat /\ Len(profile.ops[a]) >= 1
         /\ \A j \in 1 .. Len(profile.ops[a]) : profile.ops[a][j] \in Operations
  BY <1>3
<1>5. Len(profile.fixtures) \in Nat /\ Len(profile.fixtures) >= 1
  BY <1>1 DEF IsProfile
<1>6. \A f \in Fixtures(profile) : profile.fixtures[f] \in Attacks(profile)
  BY <1>1 DEF IsProfile, Fixtures
<1>7. QED
  BY <1>1, <1>2, <1>4, <1>5, <1>6 DEF IsProfile

-----------------------------------------------------------------------------
(***************************************************************************)
(* Types.  The session part first: whatever a step does to the session, it *)
(* does through one of the operations of Postgres.                         *)
(***************************************************************************)
LEMMA SessionType ==
    ASSUME SessionTypeOK, UNCHANGED profile,
           \/ UNCHANGED server \/ Dial \/ Lose \/ HangUp \/ BeginTx \/ RollbackTx \/ Raise
           \/ \E new \in SUBSET Marks : Write(new)
           \/ \E id \in Identity : SetLocal(id)
    PROVE  SessionTypeOK'
<1> USE DEF SessionTypeOK, Marks
<1>1. CASE UNCHANGED server
  BY <1>1 DEF server
<1>2. CASE Dial \/ Lose \/ HangUp \/ BeginTx \/ Raise
  BY <1>2 DEF Dial, Lose, HangUp, BeginTx, Raise
<1>3. CASE RollbackTx
  BY <1>3, LoginRoleAssumption DEF RollbackTx, NoSettings
<1>4. CASE \E new \in SUBSET Marks : Write(new)
  BY <1>4 DEF Write
<1>5. CASE \E id \in Identity : SetLocal(id)
  <2>1. PICK id \in Identity : SetLocal(id)
    BY <1>5
  <2>2. Overlay(settings, id) \in [Gucs -> GucValues \cup {Unset}]
    BY DEF Overlay, Identity
  <2>3. QED
    BY <2>1, <2>2 DEF SetLocal, Identity
<1>6. QED
  BY <1>1, <1>2, <1>3, <1>4, <1>5

LEMMA FailsType ==
    ASSUME SessionTypeOK, UNCHANGED profile, StatementFails
    PROVE  SessionTypeOK'
BY SessionType DEF StatementFails

LEMMA NextAttackType ==
    ASSUME profile \in Profiles, UNCHANGED profile, at \in Attacks(profile), NextAttack
    PROVE  CountersOK' /\ pc' \in {"configureOwner", "evaluate"}
<1>1. Len(profile.ops) \in Nat /\ at \in Nat
  BY ProfileFacts DEF Attacks
<1>2. QED
  BY <1>1 DEF NextAttack, CountersOK, AttackPhases, Attacks

LEMMA NextOperationType ==
    ASSUME profile \in Profiles, UNCHANGED profile, CountersOK,
           pc \in {"attack", "insert"}, NextOperation
    PROVE  CountersOK' /\ pc' \in {"attack", "insert", "configureOwner", "evaluate"}
<1>1. at \in Attacks(profile) /\ k \in Nat
  BY DEF CountersOK, AttackPhases
<1>2. Len(profile.ops[at]) \in Nat /\ Len(profile.ops[at]) >= 1
  BY <1>1, ProfileFacts
<1>3. CASE k < Len(profile.ops[at])
  BY <1>1, <1>2, <1>3 DEF NextOperation, CountersOK, AttackPhases
<1>4. CASE ~(k < Len(profile.ops[at])) /\ pc = "attack"
  BY <1>1, <1>2, <1>4 DEF NextOperation, CountersOK, AttackPhases
<1>5. CASE ~(k < Len(profile.ops[at])) /\ pc # "attack"
  BY <1>1, <1>5, NextAttackType DEF NextOperation
<1>6. QED
  BY <1>3, <1>4, <1>5

LEMMA ConfigureType ==
    ASSUME TypeOK, UNCHANGED <<world, stalled>>, NEW identity \in Identity, NEW next \in Phases,
           Configure(identity, next),
           next = "seed" => pc \in BeforeSeeds,
           next \in AttackPhases => pc \in {"configureOwner", "configureAdversary"},
           next \notin BeforeSeeds, next # "insert"
    PROVE  TypeOK'
<1> USE DEF TypeOK, world, progress
<1>1. SessionTypeOK'
  BY SessionType, FailsType DEF Configure
<1>2. ResultsOK'
  BY DEF Configure, ResultsOK, Evidence
<1>3. pc' \in {next, "rollback"} /\ UNCHANGED <<at, k>>
  BY DEF Configure
<1>4. CountersOK'
  BY <1>3, ProfileFacts DEF CountersOK, AttackPhases, BeforeSeeds
<1>5. pc' = "seed" => at \in Fixtures(profile) /\ k = 1
  BY <1>3, ProfileFacts DEF BeforeSeeds, Fixtures
<1>6. QED
  BY <1>1, <1>2, <1>3, <1>4, <1>5 DEF Configure, Phases, BeforeSeeds

\* Which operation and which result is enough for the type of what Attempt does.
LEMMA AttemptType ==
    ASSUME TypeOK, UNCHANGED profile, at \in Attacks(profile), NEW op \in Operations, Attempt(op)
    PROVE  SessionTypeOK' /\ ResultsOK'
<1> USE DEF TypeOK
<1>1. PICK result \in Results(op) :
         /\ ServerEffect(op, result)
         /\ \E verdict \in Verdicts(op, result) :
               evidence' = evidence \cup
                   {[attack |-> at, slot |-> k, operation |-> op,
                     denied |-> verdict.denied, error |-> verdict.error,
                     cause |-> result, proper |-> Proper]}
  BY DEF Attempt
<1>2. result \in Causes
  BY <1>1, HazardsAssumption DEF Results, PolicyResults, Refusals, FaultResults, Causes
<1>3. \A verdict \in Verdicts(op, result) :
         verdict.denied \in BOOLEAN /\ verdict.error \in BOOLEAN
  <2>1. InsertDenials(result) \subseteq BOOLEAN /\ CallFails(op, result) \subseteq BOOLEAN
    BY DEF InsertDenials, CallFails
  <2>2. ASSUME op = "insert", NEW verdict \in InsertVerdicts(result)
        PROVE  verdict.denied \in BOOLEAN /\ verdict.error \in BOOLEAN
    <3>1. PICK denied \in InsertDenials(result) :
             verdict = [denied |-> denied, error |-> result # "reached"]
      BY <2>2 DEF InsertVerdicts
    <3>2. QED
      BY <3>1, <2>1
  <2>3. ASSUME op # "insert", NEW verdict \in RunVerdicts(op, result)
        PROVE  verdict.denied \in BOOLEAN /\ verdict.error \in BOOLEAN
    <3>1. PICK failed \in CallFails(op, result) :
             verdict = [denied |-> ~failed /\ result # "reached", error |-> failed]
      BY <2>3 DEF RunVerdicts
    <3>2. QED
      BY <3>1, <2>1
  <2>4. QED
    BY <2>2, <2>3 DEF Verdicts
<1>4. Proper \in BOOLEAN
  BY DEF Proper
<1>5. evidence' \subseteq Evidence'
  BY <1>1, <1>2, <1>3, <1>4 DEF Evidence, ResultsOK, CountersOK
<1>6. ResultsOK'
  BY <1>5 DEF ResultsOK, Attempt, Evidence
<1>7. ASSUME result = "reached" PROVE SessionTypeOK'
  <2>1. UNCHANGED server \/ \E new \in SUBSET Marks : Write(new)
    <3>1. ownerRow[at] \in {0} \cup Fixtures(profile)
      BY DEF ResultsOK
    <3>2. Reach(op)
      BY <1>1, <1>7 DEF ServerEffect
    <3>3. rows \subseteq Marks /\ <<"planted", at>> \in Marks
      BY DEF SessionTypeOK, Marks
    <3>4. CASE op = "update"
      <4> DEFINE own == {<<"owner", ownerRow[at]>>, <<"taken", ownerRow[at]>>}
      <4>1. own \cap rows # {} => ownerRow[at] \in Fixtures(profile)
        BY <3>3 DEF Marks
      <4>2. own \cap rows # {} => (rows \ own) \cup {<<"taken", ownerRow[at]>>} \subseteq Marks
        BY <3>3, <4>1 DEF Marks
      <4>3. QED
        BY <3>2, <3>3, <3>4, <4>2 DEF Reach
    <3>5. CASE op # "update"
      BY <3>2, <3>3, <3>5 DEF Reach
    <3>6. QED
      BY <3>4, <3>5
  <2>2. QED
    BY <2>1, SessionType
<1>8. ASSUME result # "reached" PROVE SessionTypeOK'
  BY <1>1, <1>8, SessionType DEF ServerEffect
<1>9. QED
  BY <1>6, <1>7, <1>8

LEMMA GateOutcomes == \A found : GateOutcome(found) \in {"pass", "blocked", "inconclusive"}
BY DEF GateOutcome

LEMMA EvaluateOutcomes ==
    \A ok, found, required, seen : EvaluateOutcome(ok, found, required, seen) \in Outcomes
BY DEF EvaluateOutcome, Outcomes

LEMMA TypeInit == Init => TypeOK
<1> SUFFICES ASSUME Init PROVE TypeOK
  OBVIOUS
<1>1. SessionTypeOK
  BY LoginRoleAssumption DEF Init, ServerInit, NoSettings, SessionTypeOK
<1>2. ResultsOK
  BY DEF Init, ResultsOK, NoReport
<1>3. CountersOK
  BY DEF Init, CountersOK, AttackPhases
<1>4. QED
  BY <1>1, <1>2, <1>3 DEF Init, TypeOK, Phases, BeforeSeeds

LEMMA TypeStep == TypeOK /\ [Next]_vars => TypeOK'
<1> SUFFICES ASSUME TypeOK, [Next]_vars PROVE TypeOK'
  OBVIOUS
<1>0. /\ SessionTypeOK /\ ResultsOK /\ CountersOK
      /\ profile \in Profiles
      /\ profile.owner \in Identity /\ profile.adversary \in Identity
  BY ProfileFacts DEF TypeOK
<1>1. ASSUME UNCHANGED vars PROVE TypeOK'
  <2>1. SessionTypeOK' /\ ResultsOK' /\ CountersOK'
    BY <1>0, <1>1 DEF vars, server, world, progress, SessionTypeOK, Marks, ResultsOK,
       Evidence, CountersOK
  <2>2. QED
    BY <1>1, <2>1 DEF vars, server, world, progress, TypeOK
<1>2. ASSUME Proceed PROVE TypeOK'
  <2> USE <1>0 DEF TypeOK, world
  <2>0. UNCHANGED <<world, stalled>> /\ Step
    BY <1>2 DEF Proceed
  \* Steps that touch only the session, the phase and the error.
  <2> DEFINE Plain == Connect \/ Verify \/ Login \/ Begin \/ Rollback \/ Close
  <2>1. ASSUME Plain PROVE TypeOK'
    <3>1. SessionTypeOK'
      BY <2>0, <2>1, SessionType, FailsType
         DEF Connect, Verify, Login, Begin, Rollback, Close, server
    <3>2. ResultsOK' /\ UNCHANGED <<at, k>>
      BY <2>0, <2>1 DEF Connect, Verify, Login, Begin, Rollback, Close, progress,
         ResultsOK, Evidence
    <3>3. pc' \in {"verify", "login", "preflight", "configureSeed", "close", "returned"}
      BY <2>1 DEF Connect, Verify, Login, Begin, Rollback, Close
    <3>4. pc' \in BeforeSeeds => pc \in BeforeSeeds
      BY <2>1 DEF Connect, Verify, Login, Begin, Rollback, Close, BeforeSeeds
    <3>5. err' \in {"none", "open", "login", "begin", "configure", "seed", "rollback"}
      BY <2>1 DEF Connect, Verify, Login, Begin, Rollback, Close
    <3>6. QED
      BY <2>0, <3>1, <3>2, <3>3, <3>4, <3>5 DEF CountersOK, AttackPhases, BeforeSeeds, Phases
  <2>2. ASSUME Check PROVE TypeOK'
    <3>1. SessionTypeOK'
      BY <2>0, <2>2, SessionType DEF Check
    <3>2. GateOutcome(findings') \in Outcomes
      BY GateOutcomes DEF Outcomes
    <3>3. ResultsOK'
      BY <2>0, <2>2, <3>2 DEF Check, ResultsOK, Evidence, NewReport
    <3>4. QED
      BY <2>0, <2>2, <3>1, <3>3 DEF Check, CountersOK, AttackPhases, BeforeSeeds, Phases
  <2>3. ASSUME ConfigureSeed \/ ConfigureOwner \/ ConfigureAdversary PROVE TypeOK'
    BY <2>0, <2>3, ConfigureType
       DEF ConfigureSeed, ConfigureOwner, ConfigureAdversary, BeforeSeeds, AttackPhases, Phases
  <2>4. ASSUME Seed PROVE TypeOK'
    <3>1. at \in Fixtures(profile) /\ profile.fixtures[at] \in Attacks(profile)
      BY <2>4, ProfileFacts DEF Seed
    <3>2. SessionTypeOK'
      <4>1. rows \cup {<<"owner", at>>} \in SUBSET Marks
        BY <3>1 DEF SessionTypeOK, Marks
      <4>2. QED
        BY <2>0, <2>4, <4>1, SessionType, FailsType DEF Seed
    <3>3. ResultsOK'
      BY <2>0, <2>4, <3>1 DEF Seed, RememberRow, ResultsOK, Evidence
    <3>4. /\ Len(profile.fixtures) \in Nat /\ at \in Nat
          /\ Len(profile.ops) \in Nat /\ Len(profile.ops) >= 1
      BY <3>1, ProfileFacts DEF Fixtures
    <3>5. \/ pc' = "seed" /\ at' \in Fixtures(profile)
          \/ pc' = "configureOwner" /\ at' = 1
          \/ pc' = "rollback" /\ at' = at
      BY <2>4, <3>1, <3>4 DEF Seed, RememberRow, Fixtures
    <3>6. k' = 1 /\ err' \in {err, "seed"}
      BY <2>4 DEF Seed
    <3>7. QED
      BY <2>0, <3>2, <3>3, <3>4, <3>5, <3>6
         DEF CountersOK, AttackPhases, BeforeSeeds, Phases, Fixtures, Attacks
  <2>5. ASSUME Control PROVE TypeOK'
    <3>1. SessionTypeOK'
      BY <2>0, <2>5, SessionType, FailsType DEF Control
    <3>2. ResultsOK'
      BY <2>0, <2>5 DEF Control, ResultsOK, Evidence
    <3>3. at \in Attacks(profile)
      BY <2>5 DEF Control, CountersOK, AttackPhases
    <3>4. CountersOK' /\ pc' \in {"configureAdversary", "configureOwner", "evaluate"}
      BY <2>0, <2>5, <3>3, NextAttackType DEF Control, CountersOK, AttackPhases
    <3>5. QED
      BY <2>0, <2>5, <3>1, <3>2, <3>4 DEF Control, BeforeSeeds, Phases
  <2>6. ASSUME Attack \/ Insert PROVE TypeOK'
    <3>1. at \in Attacks(profile) /\ k \in 1 .. Len(profile.ops[at]) /\ pc \in {"attack", "insert"}
      BY <2>6, ProfileFacts DEF Attack, Insert, CountersOK, AttackPhases
    <3>2. Operation \in Operations
      BY <3>1, ProfileFacts DEF Operation
    <3>3. \/ Skip
          \/ \E op \in Operations : Attempt(op)
      BY <2>6, <3>2 DEF Attack, Insert, Operations
    <3>4. SessionTypeOK' /\ ResultsOK' /\ UNCHANGED err
      <4>1. CASE Skip
        BY <2>0, <4>1, SessionType DEF Skip, ResultsOK, Evidence
      <4>2. CASE \E op \in Operations : Attempt(op)
        BY <2>0, <3>1, <4>2, AttemptType DEF Attempt
      <4>3. QED
        BY <3>3, <4>1, <4>2
    <3>5. CountersOK' /\ pc' \in {"attack", "insert", "configureOwner", "evaluate"}
      BY <2>0, <2>6, <3>1, NextOperationType DEF Attack, Insert
    <3>6. QED
      BY <2>0, <3>4, <3>5 DEF BeforeSeeds, Phases
  <2>7. ASSUME Conclude PROVE TypeOK'
    <3>1. report'.outcome \in Outcomes /\ report'.operations = evidence
      BY <2>7, EvaluateOutcomes DEF Conclude, NewReport
    <3>2. SessionTypeOK'
      BY <2>0, <2>7, SessionType DEF Conclude
    <3>3. QED
      BY <2>0, <2>7, <3>1, <3>2
         DEF Conclude, ResultsOK, Evidence, CountersOK, AttackPhases, BeforeSeeds, Phases
  <2>8. QED
    BY <2>0, <2>1, <2>2, <2>3, <2>4, <2>5, <2>6, <2>7 DEF Step
<1>3. ASSUME Stall \/ TimeOut PROVE TypeOK'
  <2>1. SessionTypeOK' /\ ResultsOK'
    <3>1. SessionTypeOK'
      BY <1>0, <1>3, SessionType DEF Stall, TimeOut, world
    <3>2. QED
      BY <1>0, <1>3, <3>1 DEF Stall, TimeOut, world, progress, ResultsOK, Evidence
  <2>2. QED
    BY <1>0, <1>3, <2>1 DEF Stall, TimeOut, world, progress, TypeOK, CountersOK,
       AttackPhases, BeforeSeeds, Phases
<1>4. QED
  BY <1>1, <1>2, <1>3 DEF Next, Returned, Hung

\* The variables of Execute and its session keep their types, the loop counters
\* stay within the profile, whatever the profiles, targets and hazards.
THEOREM TypeCorrect == Spec => []TypeOK
BY TypeInit, TypeStep, PTL DEF Spec

-----------------------------------------------------------------------------
(***************************************************************************)
(* The parts of the inductive invariant, one lemma each.  A step is one of *)
(* these: Stall and TimeOut move nothing the other parts look at but pc.   *)
(***************************************************************************)
LEMMA InTransactionStep ==
    ASSUME TypeOK, InTransaction, [Next]_vars
    PROVE  InTransaction'
<1> USE DEF InTransaction, TxPhases, AttackPhases
<1>1. CASE UNCHANGED vars
  BY <1>1 DEF vars, server
<1>2. CASE Connect \/ Verify \/ Login \/ Check \/ Begin
  BY <1>2 DEF Connect, Verify, Login, Check, Begin, StatementFails, Accepting, Dial, Lose,
     HangUp, BeginTx, Raise, server
<1>3. CASE ConfigureSeed \/ ConfigureOwner \/ ConfigureAdversary
  <2>1. ASSUME NEW identity, NEW next, Configure(identity, next),
               next \in {"seed", "control", "attack"}, pc \in TxPhases
        PROVE  InTransaction'
    BY <2>1 DEF Configure, StatementFails, Accepting, SetLocal, Lose, Raise, server
  <2>2. QED
    BY <1>3, <2>1 DEF ConfigureSeed, ConfigureOwner, ConfigureAdversary
<1>4. CASE Seed
  BY <1>4 DEF Seed, RememberRow, StatementFails, Accepting, Write, Lose, Raise, server
<1>5. CASE Control
  BY <1>5 DEF Control, NextAttack, StatementFails, Accepting, Lose, Raise, server
<1>6. CASE Attack \/ Insert
  <2>1. pc \in {"attack", "insert"} /\ pc' \in {"attack", "insert", "configureOwner", "evaluate"}
    BY <1>6 DEF Attack, Insert, NextOperation, NextAttack
  <2>2. CASE Skip
    BY <2>1, <2>2 DEF Skip, server
  <2>3. ASSUME NEW op, Attempt(op) PROVE InTransaction'
    <3>1. PICK result \in Results(op) : ServerEffect(op, result)
      BY <2>3 DEF Attempt
    <3>2. CASE result = "reached"
      <4>1. conn = "up" /\ txStatus # "failed"
        BY <3>1, <3>2 DEF Results
      <4>2. Reach(op)
        BY <3>1, <3>2 DEF ServerEffect
      <4>3. QED
        BY <2>1, <4>1, <4>2 DEF Reach, Write, server
    <3>3. CASE result # "reached"
      <4>1. UNCHANGED server \/ (Raise /\ conn = "up") \/ Lose
        BY <3>1, <3>3 DEF ServerEffect, Results
      <4>2. QED
        BY <2>1, <4>1 DEF Raise, Lose, server
    <3>4. QED
      BY <3>2, <3>3
  <2>4. QED
    BY <1>6, <2>2, <2>3 DEF Attack, Insert
<1>7. CASE Conclude \/ Rollback \/ Close
  BY <1>7 DEF Conclude, Rollback, Close, RollbackTx, HangUp, Lose, server
<1>8. CASE Stall \/ TimeOut
  BY <1>8 DEF Stall, TimeOut, HangUp, Deadlined, server
<1>9. QED
  BY <1>1, <1>2, <1>3, <1>4, <1>5, <1>6, <1>7, <1>8 DEF Next, Proceed, Step, Returned, Hung

LEMMA NothingEarlyStep ==
    ASSUME TypeOK, NothingEarly, [Next]_vars
    PROVE  NothingEarly'
<1> USE DEF NothingEarly, Ending, Seeding, BeforeSeeds
<1>1. CASE UNCHANGED vars
  BY <1>1 DEF vars, progress
<1>2. CASE Connect \/ Verify \/ Login \/ Check \/ Begin
  BY <1>2 DEF Connect, Verify, Login, Check, Begin, progress
<1>3. CASE ConfigureSeed \/ ConfigureOwner \/ ConfigureAdversary
  BY <1>3 DEF ConfigureSeed, ConfigureOwner, ConfigureAdversary, Configure, progress
<1>4. CASE Seed \/ Control
  BY <1>4 DEF Seed, RememberRow, Control, NextAttack
<1>5. CASE Attack \/ Insert
  BY <1>5 DEF Attack, Insert, NextOperation, NextAttack, Skip, Attempt
<1>6. CASE Conclude \/ Rollback \/ Close \/ Stall \/ TimeOut
  BY <1>6 DEF Conclude, Rollback, Close, Stall, TimeOut, progress
<1>7. QED
  BY <1>1, <1>2, <1>3, <1>4, <1>5, <1>6 DEF Next, Proceed, Step, Returned, Hung

-----------------------------------------------------------------------------
(***************************************************************************)
(* The gate: with every question answered, "pass" means an authorised      *)
(* target.                                                                 *)
(***************************************************************************)
\* A pair followed by a family is a sequence with the members one expects.
LEMMA PairThenFamily ==
    ASSUME NEW U, NEW x \in U, NEW y \in U, NEW n \in Nat, NEW F \in [1 .. n -> U]
    PROVE  /\ Len(<<x, y>> \o F) = 2 + n
           /\ (<<x, y>> \o F)[1] = x /\ (<<x, y>> \o F)[2] = y
           /\ \A j \in 1 .. n : (<<x, y>> \o F)[j + 2] = F[j]
<1>1. F \in Seq(U) /\ Len(F) = n
  OBVIOUS
<1>2. <<x, y>> \in Seq(U) /\ Len(<<x, y>>) = 2
  OBVIOUS
<1> DEFINE pair == <<x, y>>
<1>3. pair[1] = x /\ pair[2] = y
  OBVIOUS
<1> HIDE DEF pair
<1>4. /\ Len(pair \o F) = Len(pair) + Len(F)
      /\ \A i \in 1 .. Len(pair) + Len(F) :
            (pair \o F)[i] = IF i <= Len(pair) THEN pair[i] ELSE F[i - Len(pair)]
  BY <1>1, <1>2, ConcatProperties DEF pair
<1>5. Len(pair) = 2
  BY <1>2 DEF pair
<1>6. (pair \o F)[1] = x /\ (pair \o F)[2] = y
  BY <1>1, <1>3, <1>4, <1>5
<1>7. ASSUME NEW j \in 1 .. n PROVE (pair \o F)[j + 2] = F[j]
  <2>1. j + 2 \in 1 .. Len(pair) + Len(F) /\ ~(j + 2 <= Len(pair)) /\ (j + 2) - Len(pair) = j
    BY <1>1, <1>5
  <2>2. QED
    BY <1>4, <2>1
<1>8. QED
  BY <1>1, <1>4, <1>5, <1>6, <1>7 DEF pair

LEMMA Privileges ==
    ASSUME profile \in Profiles, NEW a \in Attacks(profile)
    PROVE  /\ Len(RequiredPrivileges(profile, a)) = 2 + Len(profile.ops[a])
           /\ RequiredPrivileges(profile, a)[1] = <<profile.owner.role, "INSERT">>
           /\ RequiredPrivileges(profile, a)[2] = <<profile.owner.role, "SELECT">>
           /\ \A j \in 1 .. Len(profile.ops[a]) :
                 RequiredPrivileges(profile, a)[j + 2] =
                    <<profile.adversary.role, Privilege(profile.ops[a][j])>>
<1> DEFINE n == Len(profile.ops[a])
           asked == [j \in 1 .. n |-> <<profile.adversary.role, Privilege(profile.ops[a][j])>>]
           x == <<profile.owner.role, "INSERT">>
           y == <<profile.owner.role, "SELECT">>
           U == {x, y} \cup {asked[j] : j \in 1 .. n}
<1>1. n \in Nat
  BY ProfileFacts
<1>2. asked \in [1 .. n -> U] /\ x \in U /\ y \in U
  OBVIOUS
<1>3. RequiredPrivileges(profile, a) = <<x, y>> \o asked
  BY DEF RequiredPrivileges
<1>4. \A j \in 1 .. n : asked[j] = <<profile.adversary.role, Privilege(profile.ops[a][j])>>
  OBVIOUS
<1> HIDE DEF n, asked, x, y, U
<1>5. /\ Len(<<x, y>> \o asked) = 2 + n
      /\ (<<x, y>> \o asked)[1] = x /\ (<<x, y>> \o asked)[2] = y
      /\ \A j \in 1 .. n : (<<x, y>> \o asked)[j + 2] = asked[j]
  BY <1>1, <1>2, PairThenFamily
<1>6. QED
  BY <1>3, <1>4, <1>5 DEF n, x, y

LEMMA GateSound ==
    ASSUME profile \in Profiles, catalog.server = "ok",
           GateOutcome(
              PreflightFindings(profile, catalog, Never(profile), catalog.members)) = "pass"
    PROVE  Authorised
<1> DEFINE found == PreflightFindings(profile, catalog, Never(profile), catalog.members)
           all == Never(profile)
<1>1. \A f \in found : f.severity \notin {"blocked", "inconclusive"}
  BY DEF GateOutcome
<1>2. Len(profile.ops) \in Nat
  BY ProfileFacts
<1>3. Answered(<<0, 0>>, all) /\ Answered(<<0, 1>>, all)
  BY <1>2 DEF Answered, Never
<1>4. \A a \in Attacks(profile) : \A q \in Nat : Answered(<<a, q>>, all)
  BY <1>2 DEF Answered, Never, Attacks
<1>5. \A f \in RoleFindings(profile, catalog, all, catalog.members) : f.severity # "blocked"
  BY <1>1 DEF PreflightFindings
<1>6. catalog.login \notin {"unknown", "bypass"}
  <2>1. ASSUME catalog.login = "unknown" PROVE FALSE
    <3>1. Finding("login_role_unknown", "blocked", LoginRole)
             \in RoleFindings(profile, catalog, all, catalog.members)
      BY <2>1 DEF RoleFindings, When
    <3>2. QED
      BY <1>5, <3>1 DEF Finding
  <2>2. ASSUME catalog.login = "bypass" PROVE FALSE
    <3>1. Finding("login_role_bypass", "blocked", LoginRole)
             \in RoleFindings(profile, catalog, all, catalog.members)
      BY <1>3, <2>2 DEF RoleFindings, When
    <3>2. QED
      BY <1>5, <3>1 DEF Finding
  <2>3. QED
    BY <2>1, <2>2
<1>7. {profile.owner.role, profile.adversary.role} \subseteq catalog.members \cup {LoginRole}
  <2>1. SUFFICES ASSUME NEW r \in {profile.owner.role, profile.adversary.role},
                        r \notin catalog.members \cup {LoginRole}
                 PROVE  FALSE
    OBVIOUS
  <2>2. Finding("role_not_assumable", "blocked", r)
           \in RoleFindings(profile, catalog, all, catalog.members)
    BY <1>3, <2>1 DEF RoleFindings
  <2>3. QED
    BY <1>5, <2>2 DEF Finding
<1>8. ASSUME NEW a \in Attacks(profile)
      PROVE  LET table == catalog.tables[a]
             IN  /\ table.available
                 /\ table.forced \/ table.owner \notin {profile.owner.role, profile.adversary.role}
                 /\ table.effects \cap {"trigger", "rule"} = {}
                 /\ {<<profile.owner.role, "INSERT">>, <<profile.owner.role, "SELECT">>}
                      \subseteq table.granted
                 /\ \A op \in Requested(profile, a) :
                       <<profile.adversary.role, Privilege(op)>> \in table.granted
  <2> DEFINE table == catalog.tables[a]
             needed == RequiredPrivileges(profile, a)
  <2>1. \A f \in TableFindings(profile, catalog, all, a) :
           f.severity \notin {"blocked", "inconclusive"}
    BY <1>1 DEF PreflightFindings
  <2>2. Answered(<<a, 0>>, all)
    BY <1>4
  <2>3. table.available
    <3>1. ~table.available => Finding("table_unavailable", "inconclusive", a)
                                 \in TableFindings(profile, catalog, all, a)
      BY DEF TableFindings, Readable
    <3>2. QED
      BY <2>1, <3>1 DEF Finding
  <2>4. table.forced \/ table.owner \notin {profile.owner.role, profile.adversary.role}
    <3>1. ~table.forced /\ table.owner \in {profile.owner.role, profile.adversary.role} =>
             Finding("unforced_owner", "blocked", a) \in TableFindings(profile, catalog, all, a)
      BY <2>2, <2>3 DEF TableFindings, Readable, Granted, When
    <3>2. QED
      BY <2>1, <3>1 DEF Finding
  <2>4a. table.effects \cap {"trigger", "rule"} = {}
    <3>1. table.effects \cap {"trigger", "rule"} # {} =>
             Finding("external_effect_acknowledgement_required", "blocked", a)
                \in TableFindings(profile, catalog, all, a)
      BY <2>2, <2>3 DEF TableFindings, Readable, Granted, When
    <3>2. QED
      BY <2>1, <3>1 DEF Finding
  <2>5. \A q \in 1 .. Len(needed) : needed[q] \in table.granted
    <3>1. (\E q \in 1 .. Len(needed) : needed[q] \notin table.granted) =>
             Finding("missing_privilege", "inconclusive", a)
                \in TableFindings(profile, catalog, all, a)
      BY <2>2, <2>3 DEF TableFindings, Readable, Granted, When
    <3>2. QED
      BY <2>1, <3>1 DEF Finding
  <2>6. Len(profile.ops[a]) \in Nat
    BY ProfileFacts
  <2>7. {<<profile.owner.role, "INSERT">>, <<profile.owner.role, "SELECT">>} \subseteq table.granted
    <3>1. 1 \in 1 .. Len(needed) /\ 2 \in 1 .. Len(needed)
      BY <2>6, Privileges
    <3>2. QED
      BY <2>5, <3>1, Privileges
  <2>8. \A j \in 1 .. Len(profile.ops[a]) :
           <<profile.adversary.role, Privilege(profile.ops[a][j])>> \in table.granted
    <3> HIDE DEF table, needed
    <3>1. TAKE j \in 1 .. Len(profile.ops[a])
    <3>2. j + 2 \in 1 .. Len(RequiredPrivileges(profile, a))
      BY <2>6, Privileges
    <3>3. QED
      BY <2>5, <3>2, Privileges DEF needed
  <2>9. QED
    BY <2>3, <2>4, <2>4a, <2>7, <2>8 DEF Requested
<1>9. QED
  BY <1>6, <1>7, <1>8 DEF Authorised

\* Only Connect raises a connection, and Attempt never does.
LEMMA AttemptConn ==
    ASSUME NEW op, Attempt(op), conn' = "up"
    PROVE  conn = "up"
BY DEF Attempt, ServerEffect, Reach, Write, Raise, Lose, server

LEMMA FailsConn == ASSUME StatementFails, conn' = "up" PROVE conn = "up"
BY DEF StatementFails, Raise, Lose, server

LEMMA PastGateStep ==
    ASSUME TypeOK, PastGate, [Next]_vars
    PROVE  PastGate'
<1>0. UNCHANGED world
  BY DEF vars, Next, Proceed, Stall, TimeOut, Returned, Hung
<1>00. Authorised' = Authorised /\ catalog'.server = catalog.server
  BY <1>0 DEF world, Authorised
<1> USE <1>00 DEF PastGate, TxPhases, AttackPhases
<1>1. CASE UNCHANGED vars
  BY <1>1 DEF vars, server
<1>2. CASE Connect \/ Verify \/ Login \/ Begin
  BY <1>2, FailsConn DEF Connect, Verify, Login, Begin, BeginTx, server
<1>3. CASE Check
  <2>1. PICK cut \in Questions(profile) \cup {Never(profile)} :
           /\ IF cut = Never(profile) THEN UNCHANGED server ELSE "lost" \in Hazards /\ Lose
           /\ \E members \in Listed(catalog, cut) :
                 findings' = PreflightFindings(profile, catalog, cut, members)
    BY <1>3 DEF Check
  <2>1a. Listed(catalog, Never(profile)) = {catalog.members}
    BY ProfileFacts DEF Listed, Answered, Never, TypeOK
  <2>2. conn' = "up" => cut = Never(profile)
    BY <2>1 DEF Lose
  <2>3. pc = "preflight" /\ pc' \in {"begin", "close"}
        /\ (pc' = "begin" => GateOutcome(findings') = "pass")
    BY <1>3 DEF Check
  <2>4. pc' = "begin" /\ conn' = "up" => Authorised
    BY <2>1, <2>1a, <2>2, <2>3, GateSound DEF TypeOK
  <2>5. QED
    BY <2>3, <2>4
<1>4. CASE ConfigureSeed \/ ConfigureOwner \/ ConfigureAdversary
  <2>1. ASSUME NEW identity, NEW next, Configure(identity, next),
               next \in {"seed", "control", "attack"}, pc \in TxPhases
        PROVE  PastGate'
    BY <2>1, FailsConn DEF Configure, SetLocal
  <2>2. QED
    BY <1>4, <2>1 DEF ConfigureSeed, ConfigureOwner, ConfigureAdversary
<1>5. CASE Seed
  BY <1>5, FailsConn DEF Seed, RememberRow, Write, Raise
<1>6. CASE Control
  BY <1>6, FailsConn DEF Control, NextAttack, server
<1>7. CASE Attack \/ Insert
  BY <1>7, AttemptConn DEF Attack, Insert, NextOperation, NextAttack, Skip, server
<1>8. CASE Conclude \/ Rollback \/ Close
  BY <1>8 DEF Conclude, Rollback, Close, server
<1>9. CASE Stall \/ TimeOut
  BY <1>9 DEF Stall, TimeOut, server
<1>10. QED
  BY <1>1, <1>2, <1>3, <1>4, <1>5, <1>6, <1>7, <1>8, <1>9 DEF Next, Proceed, Step, Returned, Hung

LEMMA RememberedStep ==
    ASSUME TypeOK, Remembered, [Next]_vars
    PROVE  Remembered'
<1>0. UNCHANGED world /\ profile \in Profiles
  BY DEF vars, Next, Proceed, Stall, TimeOut, Returned, Hung, TypeOK
<1> USE <1>0 DEF Remembered, Seeding, BeforeSeeds, Attacking, AttackPhases, world
<1>1. CASE UNCHANGED <<at, ownerRow, profile>> /\ (pc' \in Seeding => pc \in Seeding)
           /\ (pc' \in Attacking => pc \in Attacking)
  BY <1>1 DEF Latest, IsTarget
<1>2. CASE Seed
  <2>1. at \in Fixtures(profile) /\ ownerRow \in [Attacks(profile) -> {0} \cup Fixtures(profile)]
    BY <1>2 DEF Seed, TypeOK, ResultsOK
  <2>2. Len(profile.fixtures) \in Nat /\ at \in 1 .. Len(profile.fixtures)
        /\ profile.fixtures[at] \in Attacks(profile)
    BY <2>1, ProfileFacts DEF Fixtures
  <2>3. \A a \in Attacks(profile) : Latest(a, at)
    BY <1>2 DEF Seed
  <2>4. CASE RememberRow
    <3> DEFINE row == ownerRow'
    <3>1. ASSUME NEW a \in Attacks(profile)
          PROVE  /\ row[a] < at + 1
                 /\ row[a] # 0 => profile.fixtures[row[a]] = a
                 /\ \A g \in Fixtures(profile) : row[a] < g /\ g < at + 1 => profile.fixtures[g] # a
      <4>1. CASE profile.fixtures[at] = a
        <5>1. row[a] = at
          BY <2>1, <2>4, <4>1 DEF RememberRow
        <5>2. QED
          BY <2>2, <4>1, <5>1 DEF Fixtures
      <4>2. CASE profile.fixtures[at] # a
        <5>1. row[a] = ownerRow[a] /\ ownerRow[a] \in Nat
          BY <2>1, <2>4, <4>2 DEF RememberRow, Fixtures
        <5>2. QED
          BY <2>2, <2>3, <4>2, <5>1 DEF Latest, Fixtures
      <4>3. QED
        BY <4>1, <4>2
    <3>2. CASE at < Len(profile.fixtures)
      BY <1>2, <2>4, <3>1, <3>2 DEF Seed, RememberRow, Latest
    <3>3. CASE ~(at < Len(profile.fixtures))
      <4>1. at = Len(profile.fixtures) /\ pc' = "configureOwner"
        BY <2>2, <2>4, <3>3 DEF RememberRow
      <4>2. ASSUME NEW a \in Attacks(profile) PROVE IsTarget(a, ownerRow[a])'
        <5>1. row[a] \in {0} \cup Fixtures(profile)
          BY <2>1, <2>4 DEF RememberRow
        <5>2. PICK f \in Fixtures(profile) : profile.fixtures[f] = a
          BY ProfileFacts
        <5>3. row[a] # 0
          BY <2>2, <3>1, <4>1, <5>2 DEF Fixtures
        <5>4. QED
          BY <2>2, <3>1, <4>1, <5>1, <5>3 DEF IsTarget, Fixtures
      <4>3. QED
        BY <4>1, <4>2
    <3>4. QED
      BY <3>2, <3>3
  <2>5. CASE pc' = "rollback"
    BY <2>5
  <2>6. QED
    BY <1>2, <2>4, <2>5 DEF Seed
<1>3. CASE Connect \/ Verify \/ Login \/ Check \/ Begin \/ Conclude \/ Rollback \/ Close
  BY <1>1, <1>3 DEF Connect, Verify, Login, Check, Begin, Conclude, Rollback, Close, progress
<1>4. CASE ConfigureSeed \/ ConfigureOwner \/ ConfigureAdversary
  BY <1>1, <1>4 DEF ConfigureSeed, ConfigureOwner, ConfigureAdversary, Configure, progress
<1>5. CASE Control \/ Attack \/ Insert
  <2>1. UNCHANGED ownerRow /\ pc \in Attacking /\ pc' \in Attacking
    BY <1>5 DEF Control, Attack, Insert, NextOperation, NextAttack, Skip, Attempt
  <2>2. QED
    BY <2>1 DEF IsTarget
<1>6. CASE Stall \/ TimeOut \/ UNCHANGED vars
  BY <1>1, <1>6 DEF Stall, TimeOut, vars, progress
<1>7. QED
  BY <1>2, <1>3, <1>4, <1>5, <1>6 DEF Next, Proceed, Step, Returned, Hung

-----------------------------------------------------------------------------
(***************************************************************************)
(* One turn of the two loops over the operations of an attack.             *)
(***************************************************************************)
\* attacks.Run takes every operation but the inserts, Execute's loop these.
Due == pc = "attack" <=> Operation # "insert"

LEMMA Position ==
    ASSUME TypeOK, Attack \/ Insert
    PROVE  /\ at \in Attacks(profile) /\ k \in 1 .. Len(profile.ops[at])
           /\ pc \in {"attack", "insert"} /\ Operation \in Operations
           /\ Len(profile.ops) \in Nat /\ Len(profile.ops[at]) \in Nat
<1>1. at \in Attacks(profile) /\ k \in Nat \ {0} /\ k <= Len(profile.ops[at])
      /\ pc \in {"attack", "insert"} /\ profile \in Profiles
  BY DEF TypeOK, CountersOK, Attack, Insert, AttackPhases
<1>2. QED
  BY <1>1, ProfileFacts DEF Operation

LEMMA Turn ==
    ASSUME TypeOK, Attack \/ Insert
    PROVE  IF Due THEN Attempt(Operation) ELSE Skip
BY DEF Attack, Insert, Due

LEMMA TurnUnchanged ==
    ASSUME Attack \/ Insert
    PROVE  /\ UNCHANGED <<ownerRow, controlOK, findings, report, err>>
           /\ pc' \in {"attack", "insert", "configureOwner", "evaluate"}
           /\ NextOperation
BY DEF Attack, Insert, Skip, Attempt, NextOperation, NextAttack

LEMMA NewEvidence ==
    ASSUME NEW op, Attempt(op)
    PROVE  \E e : /\ evidence' = evidence \cup {e}
                  /\ e.attack = at /\ e.slot = k /\ e.operation = op /\ e.proper = Proper
                  /\ e.cause \in Results(op) /\ ServerEffect(op, e.cause)
                  /\ [denied |-> e.denied, error |-> e.error] \in Verdicts(op, e.cause)
<1>1. PICK result \in Results(op) :
         /\ ServerEffect(op, result)
         /\ \E verdict \in Verdicts(op, result) :
               evidence' = evidence \cup
                   {[attack |-> at, slot |-> k, operation |-> op,
                     denied |-> verdict.denied, error |-> verdict.error,
                     cause |-> result, proper |-> Proper]}
  BY DEF Attempt
<1>2. PICK verdict \in Verdicts(op, result) :
         evidence' = evidence \cup
             {[attack |-> at, slot |-> k, operation |-> op,
               denied |-> verdict.denied, error |-> verdict.error,
               cause |-> result, proper |-> Proper]}
  BY <1>1
<1>3. [denied |-> verdict.denied, error |-> verdict.error] = verdict
  <2>1. CASE op = "insert"
    <3>1. PICK denied \in InsertDenials(result) :
             verdict = [denied |-> denied, error |-> result # "reached"]
      BY <1>2, <2>1 DEF Verdicts, InsertVerdicts
    <3>2. QED
      BY <3>1
  <2>2. CASE op # "insert"
    <3>1. PICK failed \in CallFails(op, result) :
             verdict = [denied |-> ~failed /\ result # "reached", error |-> failed]
      BY <1>2, <2>2 DEF Verdicts, RunVerdicts
    <3>2. QED
      BY <3>1
  <2>3. QED
    BY <2>1, <2>2
<1> DEFINE e == [attack |-> at, slot |-> k, operation |-> op,
                 denied |-> verdict.denied, error |-> verdict.error,
                 cause |-> result, proper |-> Proper]
<1>4. /\ e.attack = at /\ e.slot = k /\ e.operation = op /\ e.proper = Proper
      /\ e.cause = result /\ e.denied = verdict.denied /\ e.error = verdict.error
  OBVIOUS
<1>5. evidence' = evidence \cup {e}
  BY <1>2
<1> HIDE DEF e
<1>6. [denied |-> e.denied, error |-> e.error] \in Verdicts(op, e.cause)
  BY <1>2, <1>3, <1>4
<1>7. QED
  BY <1>1, <1>4, <1>5, <1>6

LEMMA TriedNext ==
    ASSUME TypeOK, UNCHANGED profile, Attack \/ Insert,
           NEW a \in Attacks(profile), NEW j \in 1 .. Len(profile.ops[a])
    PROVE  Tried(a, j)' <=> Tried(a, j) \/ (Due /\ a = at /\ j = k)
<1>1. /\ at \in Nat /\ a \in Nat /\ at <= Len(profile.ops) /\ a <= Len(profile.ops)
      /\ k \in Nat /\ 1 <= k /\ k <= Len(profile.ops[at]) /\ Len(profile.ops) \in Nat
      /\ Len(profile.ops[at]) \in Nat /\ pc \in {"attack", "insert"} /\ j \in Nat /\ 1 <= j
  BY Position DEF Attacks
<1>2. a = at => j <= Len(profile.ops[at])
  OBVIOUS
<1>3. CASE k < Len(profile.ops[at])
  BY <1>1, <1>3, TurnUnchanged DEF NextOperation, Tried, Due, Operation
<1>4. CASE ~(k < Len(profile.ops[at])) /\ pc = "attack"
  BY <1>1, <1>2, <1>4, TurnUnchanged DEF NextOperation, Tried, Due, Operation
<1>5. CASE ~(k < Len(profile.ops[at])) /\ pc = "insert"
  BY <1>1, <1>2, <1>5, TurnUnchanged DEF NextOperation, NextAttack, Tried, Due, Operation
<1>6. QED
  BY <1>1, <1>3, <1>4, <1>5

\* Steps that leave the loops, and those that touch neither loop nor evidence.
LEMMA Elsewhere ==
    ASSUME [Next]_vars, ~Attack, ~Insert, ~Control, ~ConfigureOwner, ~ConfigureAdversary, ~Seed
    PROVE  \/ pc' \notin Attacking
           \/ UNCHANGED <<pc, at, k, ownerRow, controlOK, evidence, server>>
<1> USE DEF Attacking, AttackPhases
<1>1. CASE UNCHANGED vars
  BY <1>1 DEF vars, progress
<1>2. CASE Connect \/ Verify \/ Login \/ Check \/ Begin \/ Conclude \/ Rollback \/ Close
  BY <1>2 DEF Connect, Verify, Login, Check, Begin, Conclude, Rollback, Close
<1>3. CASE ConfigureSeed
  BY <1>3 DEF ConfigureSeed, Configure
<1>4. CASE Stall \/ TimeOut
  BY <1>4 DEF Stall, TimeOut, progress
<1>5. QED
  BY <1>1, <1>2, <1>3, <1>4 DEF Next, Proceed, Step, Returned, Hung

LEMMA WorldStays == ASSUME [Next]_vars PROVE UNCHANGED world
BY DEF vars, Next, Proceed, Stall, TimeOut, Returned, Hung

\* The way into and out of the attack phases, apart from the loops.
LEMMA Switch ==
    ASSUME TypeOK, ConfigureOwner \/ ConfigureAdversary \/ Seed, pc' \in Attacking
    PROVE  /\ conn = "up" /\ conn' = "up"
           /\ \/ pc = "configureOwner" /\ pc' = "control" /\ UNCHANGED <<at, k, rows>>
              \/ pc = "configureAdversary" /\ pc' = "attack" /\ UNCHANGED <<at, k, rows>>
              \/ pc = "seed" /\ pc' = "configureOwner" /\ at' = 1
           /\ UNCHANGED <<controlOK, evidence>>
           /\ pc' # "configureOwner" =>
                 UNCHANGED ownerRow /\ txStatus # "failed" /\ txStatus' = txStatus
<1> USE DEF Attacking, AttackPhases
<1>1. CASE ConfigureOwner \/ ConfigureAdversary
  BY <1>1 DEF ConfigureOwner, ConfigureAdversary, Configure, Accepting, SetLocal, progress
<1>2. CASE Seed
  BY <1>2 DEF Seed, RememberRow, Accepting, Write
<1>3. QED
  BY <1>1, <1>2

LEMMA RecordedStep ==
    ASSUME TypeOK, NothingEarly, Recorded, [Next]_vars
    PROVE  Recorded'
<1>0. UNCHANGED profile /\ profile \in Profiles /\ evidence \subseteq Evidence
  BY WorldStays DEF world, TypeOK, ResultsOK
<1> USE <1>0 DEF Recorded, Attacks
<1>1. CASE ~Attack /\ ~Insert /\ ~Control /\ ~ConfigureOwner /\ ~ConfigureAdversary /\ ~Seed
  <2>1. CASE pc' \notin Attacking
    BY <2>1
  <2>2. CASE UNCHANGED <<pc, at, k, ownerRow, controlOK, evidence, server>>
    BY <2>2 DEF Tried, Has
  <2>3. QED
    BY <1>1, <2>1, <2>2, Elsewhere
<1>2. CASE Attack \/ Insert
  <2>1. /\ at \in Attacks(profile) /\ k \in 1 .. Len(profile.ops[at]) /\ pc \in Attacking
        /\ UNCHANGED controlOK /\ Operation = profile.ops[at][k]
    BY <1>2, Position, TurnUnchanged DEF Attacking, AttackPhases, Operation
  <2>2. \A a \in Attacks(profile) : \A j \in 1 .. Len(profile.ops[a]) :
           Tried(a, j)' <=> Tried(a, j) \/ (Due /\ a = at /\ j = k)
    BY <1>2, TriedNext
  <2>3. CASE ~Due
    <3>1. UNCHANGED evidence
      BY <1>2, <2>3, Turn DEF Skip
    <3>2. QED
      BY <2>1, <2>2, <2>3, <3>1 DEF Has, Evidence
  <2>4. CASE Due
    <3>1. PICK e : /\ evidence' = evidence \cup {e}
                   /\ e.attack = at /\ e.slot = k /\ e.operation = Operation
      BY <1>2, <2>4, Turn, NewEvidence
    <3>2. ~Tried(at, k)
      <4>1. pc \in {"attack", "insert"} /\ at \in Nat /\ k \in Nat
        BY <1>2, <2>1, Position
      <4>2. QED
        BY <2>1, <2>4, <4>1 DEF Tried, Due
    <3>3. \A f \in evidence : ~(f.attack = at /\ f.slot = k)
      BY <2>1, <3>2
    <3>4. \A f \in evidence' : /\ f.slot \in 1 .. Len(profile.ops[f.attack])
                               /\ f.operation = profile.ops[f.attack][f.slot]
                               /\ Tried(f.attack, f.slot)'
      <4>1. \A f \in evidence : f.attack \in Attacks(profile)
        BY DEF Evidence
      <4>2. QED
        BY <2>1, <2>2, <2>4, <3>1, <4>1
    <3>5. \A f, g \in evidence' : f.attack = g.attack /\ f.slot = g.slot => f = g
      BY <2>1, <3>1, <3>3
    <3>6. controlOK => \A a \in Attacks(profile) : \A j \in 1 .. Len(profile.ops[a]) :
                          Tried(a, j)' => Has(a, j)'
      BY <2>1, <2>2, <3>1 DEF Has
    <3>7. QED
      BY <2>1, <3>4, <3>5, <3>6
  <2>5. QED
    BY <2>3, <2>4
<1>3. CASE Control
  <2>0. at \in Attacks(profile) /\ Len(profile.ops) \in Nat /\ pc = "control"
    BY <1>3, ProfileFacts DEF Control, TypeOK, CountersOK, AttackPhases
  <2>1. CASE pc' = "configureAdversary"
    BY <1>3, <2>0, <2>1 DEF Control, NextAttack, Tried, Has, Attacking, AttackPhases
  <2>2. CASE pc' # "configureAdversary"
    <3>1. controlOK' = FALSE /\ NextAttack /\ UNCHANGED evidence
      BY <1>3, <2>2 DEF Control
    <3>2. \A a, j : Tried(a, j) => a < at
      BY <2>0 DEF Tried
    <3>3. \A e \in evidence : e.attack < at /\ e.attack \in Nat
      BY <2>0, <3>2 DEF Attacking, AttackPhases, Evidence
    <3>4. \A e \in evidence : Tried(e.attack, e.slot)'
      BY <2>0, <3>1, <3>3 DEF NextAttack, Tried
    <3>5. QED
      BY <2>0, <3>1, <3>4 DEF Attacking, AttackPhases
  <2>3. QED
    BY <2>1, <2>2
<1>4. CASE ConfigureOwner \/ ConfigureAdversary \/ Seed
  <2>1. CASE pc' \notin Attacking
    BY <2>1
  <2>2. CASE pc' \in Attacking /\ pc' # "configureOwner"
    <3>0. /\ UNCHANGED <<at, k, controlOK, evidence>>
          /\ \/ pc = "configureOwner" /\ pc' = "control"
             \/ pc = "configureAdversary" /\ pc' = "attack"
      BY <1>4, <2>2, Switch
    <3>1. pc \in Attacking
      BY <3>0 DEF Attacking, AttackPhases
    <3>2. k = 1 /\ at \in Nat
      BY <3>0 DEF TypeOK, CountersOK
    <3>3. \A a \in Nat, j \in Nat \ {0} : Tried(a, j)' <=> Tried(a, j)
      BY <3>0, <3>2 DEF Tried
    <3>4. \A a \in Attacks(profile) : Len(profile.ops[a]) \in Nat
      BY ProfileFacts
    <3>5. QED
      BY <3>0, <3>1, <3>3, <3>4 DEF Has, Evidence
  <2>3. CASE pc' = "configureOwner"
    <3>1. pc = "seed" /\ at' = 1 /\ UNCHANGED <<controlOK, evidence>>
      BY <1>4, <2>3, Switch DEF Attacking, AttackPhases
    <3>2. evidence = {}
      BY <3>1 DEF NothingEarly, Seeding
    <3>3. \A a \in Attacks(profile) : \A j : ~Tried(a, j)'
      BY <2>3, <3>1 DEF Tried
    <3>4. QED
      BY <3>1, <3>2, <3>3
  <2>4. QED
    BY <2>1, <2>2, <2>3
<1>5. QED
  BY <1>1, <1>2, <1>3, <1>4

-----------------------------------------------------------------------------
(***************************************************************************)
(* What a piece of evidence says of the statement it is about.             *)
(***************************************************************************)
LEMMA Classified ==
    ASSUME NEW op \in Operations, NEW cause, NEW d, NEW x,
           [denied |-> d, error |-> x] \in Verdicts(op, cause)
    PROVE  /\ d \in BOOLEAN /\ x \in BOOLEAN
           /\ d => cause # "reached"
           /\ ~d /\ ~x => cause = "reached"
           /\ d /\ op = "insert" => cause \in {"rls", "privilege", "encode", "lost"}
           /\ d /\ op # "insert" =>
                 cause \in {"filtered", "late"} \/ (op = "select" /\ cause \in {"aborted", "lost"})
           /\ cause = "aborted" /\ op # "select" => x /\ ~d
           /\ cause \in {"rls", "error"} /\ op # "insert" => x /\ ~d
<1>1. CASE op = "insert"
  <2>1. PICK denied \in InsertDenials(cause) :
           [denied |-> d, error |-> x] = [denied |-> denied, error |-> cause # "reached"]
    BY <1>1 DEF Verdicts, InsertVerdicts
  <2>2. d = denied /\ x = (cause # "reached")
    BY <2>1
  <2>3. QED
    BY <1>1, <2>2 DEF InsertDenials
<1>2. CASE op # "insert"
  <2>1. PICK failed \in CallFails(op, cause) :
           [denied |-> d, error |-> x] = [denied |-> ~failed /\ cause # "reached", error |-> failed]
    BY <1>2 DEF Verdicts, RunVerdicts
  <2>2. d = (~failed /\ cause # "reached") /\ x = failed
    BY <2>1
  <2>3. QED
    BY <1>2, <2>2 DEF CallFails
<1>3. QED
  BY <1>1, <1>2

LEMMA Caused ==
    ASSUME TypeOK, NEW op \in Operations, NEW cause \in Results(op)
    PROVE  /\ cause = "late" => op = "select" /\ "late" \in Hazards
           /\ cause = "privilege" => "privilege" \in Hazards /\ op = "insert"
           /\ cause = "encode" => "encode" \in Hazards
           /\ cause = "aborted" => conn = "up" /\ txStatus = "failed"
           /\ cause = "reached" => conn = "up" /\ txStatus # "failed"
           /\ cause \in {"filtered", "rls"} /\ Proper =>
                 \/ op # "insert" /\ <<"owner", ownerRow[at]>> \notin rows
                 \/ ~Exposed(op)
           /\ cause = "reached" /\ Proper =>
                 Exposed(op) \/ <<"taken", ownerRow[at]>> \in rows
BY HazardsAssumption DEF Results, PolicyResults, Refusals, FaultResults

LEMMA EffectKeeps ==
    ASSUME NEW op, NEW cause, ServerEffect(op, cause), cause # "reached", conn' = "up"
    PROVE  /\ conn = "up" /\ rows' = rows /\ cause # "lost"
           /\ txStatus' # txStatus => cause \in {"rls", "error", "late", "privilege"}
BY DEF ServerEffect, Raise, Lose, server

LEMMA RowKeptStep ==
    ASSUME TypeOK, RowKept, [Next]_vars
    PROVE  RowKept'
<1> USE DEF RowKept
<1>1. CASE ~Attack /\ ~Insert /\ ~Control /\ ~ConfigureOwner /\ ~ConfigureAdversary /\ ~Seed
  BY <1>1, Elsewhere DEF Attacking, AttackPhases, Undenied, server
<1>2. CASE Attack \/ Insert
  <2>1. SUFFICES ASSUME pc' \in {"attack", "insert"}, conn' = "up"
                 PROVE  <<"owner", ownerRow'[at']>> \in rows' \/ Undenied'
    BY <1>2, TurnUnchanged
  <2>2. UNCHANGED <<at, ownerRow>> /\ pc \in {"attack", "insert"} /\ Operation \in Operations
    BY <1>2, <2>1, TurnUnchanged, Position DEF NextOperation, NextAttack
  <2>3. CASE ~Due
    BY <1>2, <2>1, <2>2, <2>3, Turn DEF Skip, Undenied, server
  <2>4. CASE Due
    <3>1. PICK e : /\ evidence' = evidence \cup {e}
                   /\ ServerEffect(Operation, e.cause)
                   /\ [denied |-> e.denied, error |-> e.error] \in Verdicts(Operation, e.cause)
      BY <1>2, <2>4, Turn, NewEvidence
    <3>2. CASE ~e.denied
      BY <3>1, <3>2 DEF Undenied
    <3>3. CASE e.denied
      <4>1. e.cause # "reached"
        BY <2>2, <3>1, <3>3, Classified
      <4>2. conn = "up" /\ rows' = rows
        BY <2>1, <3>1, <4>1, EffectKeeps
      <4>3. QED
        BY <2>2, <3>1, <4>2 DEF Undenied
    <3>4. QED
      BY <3>2, <3>3
  <2>5. QED
    BY <2>3, <2>4
<1>3. CASE Control
  BY <1>3 DEF Control, NextAttack, server
<1>4. CASE ConfigureOwner \/ ConfigureAdversary \/ Seed
  <2>1. CASE pc' = "attack"
    BY <1>4, <2>1, Switch DEF Attacking, AttackPhases, Undenied
  <2>2. CASE pc' # "attack"
    BY <1>4, <2>2 DEF ConfigureOwner, ConfigureAdversary, Configure, Seed, RememberRow
  <2>3. QED
    BY <2>1, <2>2
<1>5. QED
  BY <1>1, <1>2, <1>3, <1>4

LEMMA HonestStep ==
    ASSUME TypeOK, NothingEarly, RowKept, Honest, [Next]_vars
    PROVE  Honest'
<1>0. UNCHANGED world
  BY WorldStays
<1> USE <1>0 DEF Honest, world
<1>1. CASE ~Attack /\ ~Insert /\ ~Control /\ ~ConfigureOwner /\ ~ConfigureAdversary /\ ~Seed
  BY <1>1, Elsewhere DEF Undenied, Subject, Blind, server
<1>2. CASE Attack \/ Insert
  <2>1. UNCHANGED ownerRow /\ pc \in {"attack", "insert"} /\ pc \in Attacking
        /\ Operation \in Operations
    BY <1>2, TurnUnchanged, Position DEF Attacking, AttackPhases
  <2>2. conn' = "up" => conn = "up"
    BY <1>2, Turn, AttemptConn DEF Skip, server
  <2>3. CASE ~Due
    BY <1>2, <2>1, <2>2, <2>3, Turn DEF Skip, Undenied, Subject, Blind
  <2>4. CASE Due
    <3>1. PICK e : /\ evidence' = evidence \cup {e}
                   /\ e.attack = at /\ e.operation = Operation /\ e.proper = Proper
                   /\ e.cause \in Results(Operation) /\ ServerEffect(Operation, e.cause)
                   /\ [denied |-> e.denied, error |-> e.error] \in Verdicts(Operation, e.cause)
      BY <1>2, <2>4, Turn, NewEvidence
    <3>2. Undenied => Undenied'
      BY <3>1 DEF Undenied
    <3>3. e.denied => \/ Blind(e) \/ conn' # "up" \/ Undenied
                      \/ <<Subject(e), e.operation>> \notin exposed
      <4>1. SUFFICES ASSUME e.denied, ~Blind(e), conn' = "up", ~Undenied
                     PROVE  <<Subject(e), e.operation>> \notin exposed
        OBVIOUS
      <4>2. e.cause # "reached"
        BY <2>1, <3>1, <4>1, Classified
      <4>3. e.cause # "lost" /\ conn = "up"
        BY <3>1, <4>1, <4>2, EffectKeeps
      <4>4. e.cause \in {"filtered", "rls"} /\ Proper
        BY <2>1, <3>1, <4>1, <4>3, Classified, Caused DEF Blind
      <4>5. <<"owner", ownerRow[at]>> \in rows
        BY <2>1, <4>1, <4>3 DEF RowKept
      <4>6. ~Exposed(Operation)
        BY <2>1, <3>1, <4>4, <4>5, Caused
      <4>7. QED
        BY <3>1, <4>6 DEF Exposed, Subject
    <3>4. \A f \in evidence' : Subject(f)' = Subject(f) /\ (Blind(f)' <=> Blind(f))
      BY <2>1 DEF Subject, Blind
    <3>5. QED
      BY <2>1, <2>2, <3>1, <3>2, <3>3, <3>4
  <2>5. QED
    BY <2>3, <2>4
<1>3. CASE Control
  <2>1. pc \in Attacking /\ UNCHANGED <<ownerRow, evidence>> /\ (conn' = "up" => conn = "up")
    BY <1>3, FailsConn DEF Control, Attacking, AttackPhases, server
  <2>2. QED
    BY <2>1 DEF Undenied, Subject, Blind
<1>4. CASE ConfigureOwner \/ ConfigureAdversary \/ Seed
  <2>1. CASE pc' \notin Attacking
    BY <2>1
  <2>2. CASE pc' \in Attacking /\ pc' # "configureOwner"
    <3>1. UNCHANGED <<ownerRow, evidence>> /\ conn = "up"
          /\ pc \in {"configureOwner", "configureAdversary"}
      BY <1>4, <2>2, Switch
    <3>2. QED
      BY <3>1 DEF Undenied, Subject, Blind, Attacking, AttackPhases
  <2>3. CASE pc' = "configureOwner"
    <3>1. pc = "seed" /\ evidence' = evidence
      BY <1>4, <2>3, Switch DEF Attacking, AttackPhases
    <3>2. QED
      BY <3>1 DEF NothingEarly, Seeding
  <2>4. QED
    BY <2>1, <2>2, <2>3
<1>5. QED
  BY <1>1, <1>2, <1>3, <1>4

\* Taken rows come only from statements that reached the row.
LEMMA EffectTakes ==
    ASSUME TypeOK, InTransaction, NEW op, NEW cause, ServerEffect(op, cause),
           NEW f, <<"taken", f>> \in rows', <<"taken", f>> \notin rows
    PROVE  cause = "reached"
BY DEF ServerEffect, Raise, Lose, server, InTransaction

LEMMA ExposedBreach ==
    ASSUME TypeOK, Remembered, Attack \/ Insert, Exposed(Operation)
    PROVE  Breaches # {}
<1>1. /\ at \in Attacks(profile) /\ k \in 1 .. Len(profile.ops[at]) /\ Operation \in Operations
      /\ pc \in Attacking
  BY Position DEF Attacking, AttackPhases
<1>2. Operation \in Requested(profile, at)
  BY <1>1 DEF Requested, Operation
<1>3. IsTarget(at, ownerRow[at])
  BY <1>1 DEF Remembered
<1>4. Breach(at, Operation)
  BY <1>3 DEF Exposed, Breach, IsTarget
<1>5. <<at, Operation>> \in Breaches
  BY <1>1, <1>2, <1>4 DEF Breaches
<1>6. QED
  BY <1>5

LEMMA BreachesStay == ASSUME UNCHANGED world PROVE Breaches' = Breaches
BY DEF world, Breaches, Breach, IsTarget, Fixtures, Attacks, Requested

LEMMA TracedStep ==
    ASSUME TypeOK, InTransaction, NothingEarly, Remembered, Traced, [Next]_vars
    PROVE  Traced'
<1>0. UNCHANGED world /\ Breaches' = Breaches
  BY WorldStays, BreachesStay
<1> USE <1>0 DEF Traced, Ending, world
<1>1. ASSUME UNCHANGED evidence, \A f : <<"taken", f>> \in rows' => <<"taken", f>> \in rows,
             pc' \notin Ending => pc \notin Ending
      PROVE  Traced'
  BY <1>1 DEF Foul, Fixtures
<1>2. CASE Attack \/ Insert
  <2>1. Operation \in Operations /\ pc \in {"attack", "insert"}
    BY <1>2, Position
  <2>2. CASE ~Due
    BY <1>1, <1>2, <2>1, <2>2, Turn DEF Skip, server
  <2>3. CASE Due
    <3>1. PICK e : /\ evidence' = evidence \cup {e} /\ e.proper = Proper
                   /\ e.cause \in Results(Operation) /\ ServerEffect(Operation, e.cause)
                   /\ [denied |-> e.denied, error |-> e.error] \in Verdicts(Operation, e.cause)
      BY <1>2, <2>3, Turn, NewEvidence
    <3>2. e.cause = "reached" => Breaches # {} \/ Foul'
      <4>1. CASE ~Proper
        BY <3>1, <4>1 DEF Foul
      <4>2. ASSUME Proper, e.cause = "reached", ~Exposed(Operation)
            PROVE  Breaches # {} \/ Foul'
        <5>1. <<"taken", ownerRow[at]>> \in rows
          BY <2>1, <3>1, <4>2, Caused
        <5>2. ownerRow[at] \in Fixtures(profile)
          BY <5>1 DEF TypeOK, SessionTypeOK, Marks
        <5>3. Breaches # {} \/ Foul
          BY <2>1, <5>1, <5>2
        <5>4. QED
          BY <3>1, <5>3 DEF Foul
      <4>3. QED
        BY <1>2, <4>1, <4>2, ExposedBreach
    <3>3. Foul => Foul'
      BY <3>1 DEF Foul
    <3>4. e.denied \/ e.error \/ e.cause = "reached"
      BY <2>1, <3>1, Classified
    <3>5. e.cause # "reached" => \A f : <<"taken", f>> \in rows' => <<"taken", f>> \in rows
      BY <3>1, EffectTakes
    <3>6. QED
      BY <2>1, <3>1, <3>2, <3>3, <3>4, <3>5 DEF Fixtures
  <2>4. QED
    BY <2>2, <2>3
<1>3. CASE Seed
  BY <1>1, <1>3 DEF Seed, RememberRow, StatementFails, Write, Raise, Lose, server, InTransaction
<1>4. CASE ConfigureSeed \/ ConfigureOwner \/ ConfigureAdversary
  <2>1. ASSUME NEW identity, NEW next, Configure(identity, next), pc \notin Ending PROVE Traced'
    BY <1>1, <2>1 DEF Configure, progress, StatementFails, SetLocal, Raise, Lose, server,
       InTransaction
  <2>2. QED
    BY <1>4, <2>1 DEF ConfigureSeed, ConfigureOwner, ConfigureAdversary
<1>5. CASE Control
  BY <1>1, <1>5 DEF Control, StatementFails, Raise, Lose, server, InTransaction
<1>6. CASE Connect \/ Verify \/ Login \/ Check \/ Begin
  BY <1>1, <1>6 DEF Connect, Verify, Login, Check, Begin, progress, StatementFails, Raise, Lose,
     Dial, BeginTx, HangUp, server, InTransaction
<1>7. CASE Conclude \/ Rollback \/ Close \/ TimeOut
  BY <1>7 DEF Conclude, Rollback, Close, TimeOut
<1>8. CASE Stall \/ UNCHANGED vars
  BY <1>1, <1>8 DEF Stall, vars, progress, server
<1>9. QED
  BY <1>2, <1>3, <1>4, <1>5, <1>6, <1>7, <1>8 DEF Next, Proceed, Step, Returned, Hung

LEMMA BrokenStep ==
    ASSUME TypeOK, NothingEarly, Broken, [Next]_vars
    PROVE  Broken'
<1> DEFINE Late == \E f \in evidence : f.cause = "late"
<1> USE DEF Broken
<1>1. CASE ~Attack /\ ~Insert /\ ~Control /\ ~ConfigureOwner /\ ~ConfigureAdversary /\ ~Seed
  BY <1>1, Elsewhere DEF Attacking, AttackPhases, Void, server
<1>2. CASE Attack \/ Insert
  <2>1. /\ pc \in {"attack", "insert"} /\ pc \in Attacking /\ Operation \in Operations
        /\ pc' \in {"attack", "insert", "configureOwner", "evaluate"}
        /\ pc' = "attack" => pc = "attack"
    BY <1>2, TurnUnchanged, Position DEF Attacking, AttackPhases, NextOperation, NextAttack
  <2>2. CASE ~Due
    BY <1>2, <2>1, <2>2, Turn DEF Skip, Void, server
  <2>3. CASE Due
    <3>1. PICK e : /\ evidence' = evidence \cup {e} /\ e.operation = Operation
                   /\ e.cause \in Results(Operation) /\ ServerEffect(Operation, e.cause)
                   /\ [denied |-> e.denied, error |-> e.error] \in Verdicts(Operation, e.cause)
      BY <1>2, <2>3, Turn, NewEvidence
    <3>2. (Void => Void') /\ (Late => Late')
      BY <3>1 DEF Void
    <3>3. e.cause \in {"late", "privilege", "encode"} => e.cause \in Hazards
      BY <2>1, <3>1, Caused
    <3>4. e.cause = "aborted" /\ e.operation = "select" => Void \/ Late
      <4>1. Operation = "select" => pc = "attack"
        BY <2>1, <2>3 DEF Due
      <4>2. QED
        BY <2>1, <3>1, <4>1, Caused
    <3>5. pc' = "attack" /\ conn' = "up" /\ txStatus' = "failed" => Void' \/ Late'
      <4>1. SUFFICES ASSUME pc' = "attack", conn' = "up", txStatus' = "failed"
                     PROVE  Void' \/ Late'
        OBVIOUS
      <4>2. pc = "attack" /\ Operation # "insert"
        BY <2>1, <2>3, <4>1 DEF Due
      <4>3. CASE e.cause = "reached"
        <5>1. txStatus # "failed" /\ Reach(Operation)
          BY <2>1, <3>1, <4>3, Caused DEF ServerEffect
        <5>2. QED
          BY <4>1, <5>1 DEF Reach, Write, server
      <4>4. CASE e.cause # "reached" /\ txStatus # "failed"
        <5>1. e.cause \in {"rls", "error", "late", "privilege"}
          BY <3>1, <4>1, <4>4, EffectKeeps
        <5>2. e.cause = "late" \/ (e.error /\ ~e.denied)
          BY <2>1, <3>1, <4>2, <5>1, Caused, Classified
        <5>3. QED
          BY <3>1, <5>2 DEF Void
      <4>5. CASE e.cause # "reached" /\ txStatus = "failed"
        <5>1. conn = "up"
          BY <3>1, <4>1, <4>5, EffectKeeps
        <5>2. QED
          BY <3>2, <4>2, <4>5, <5>1
      <4>6. QED
        BY <4>3, <4>4, <4>5
    <3>6. QED
      BY <2>1, <3>1, <3>2, <3>3, <3>4, <3>5
  <2>4. QED
    BY <2>2, <2>3
<1>3. CASE Control
  BY <1>3 DEF Control, NextAttack, Attacking, AttackPhases, Void
<1>4. CASE ConfigureOwner \/ ConfigureAdversary \/ Seed
  <2>1. CASE pc' \notin Attacking
    BY <2>1 DEF Attacking, AttackPhases
  <2>2. CASE pc' \in Attacking /\ pc' # "configureOwner"
    <3>1. /\ evidence' = evidence /\ txStatus' # "failed"
          /\ pc \in {"configureOwner", "configureAdversary"}
      BY <1>4, <2>2, Switch
    <3>2. QED
      BY <3>1 DEF Void, Attacking, AttackPhases
  <2>3. CASE pc' = "configureOwner"
    <3>1. pc = "seed" /\ evidence' = evidence
      BY <1>4, <2>3, Switch DEF Attacking, AttackPhases
    <3>2. QED
      BY <2>3, <3>1 DEF NothingEarly, Seeding
  <2>4. QED
    BY <2>1, <2>2, <2>3
<1>5. QED
  BY <1>1, <1>2, <1>3, <1>4

-----------------------------------------------------------------------------
(***************************************************************************)
(* Whose session it is: no statement but SET LOCAL and the rollback        *)
(* changes the role or a setting.                                          *)
(***************************************************************************)
LEMMA AttemptContext ==
    ASSUME NEW op, Attempt(op)
    PROVE  UNCHANGED <<role, settings>>
BY DEF Attempt, ServerEffect, Reach, Write, Raise, Lose, server

\* A session that is what the switches make of it is the adversary's and nothing
\* else exactly if no setting of the owner is left.
LEMMA SwitchedProper == AsSwitched => (Proper <=> Covered)
<1> SUFFICES ASSUME AsSwitched PROVE Proper <=> Covered
  OBVIOUS
<1> DEFINE leaked == Overlay(profile.owner.settings, profile.adversary)
           clean  == Overlay(NoSettings, profile.adversary)
<1>1. leaked = clean <=> \A g \in Gucs : leaked[g] = clean[g]
  BY DEF Overlay
<1>2. ASSUME NEW g \in Gucs
      PROVE  leaked[g] = clean[g] <=> \/ profile.owner.settings[g] = Unset
                                      \/ profile.adversary.settings[g] # Unset
  BY DEF Overlay, NoSettings
<1>3. QED
  BY <1>1, <1>2 DEF AsSwitched, Proper, Covered

LEMMA ContextStep ==
    ASSUME TypeOK, InTransaction, Context, [Next]_vars
    PROVE  Context'
<1>0. UNCHANGED world
  BY WorldStays
<1>00. Covered' <=> Covered
  BY <1>0 DEF Covered, world
<1> DEFINE Kept(s) == \A g \in Gucs : profile.adversary.settings[g] = Unset =>
                                         s[g] = profile.owner.settings[g]
<1>1. /\ pc \in BeforeSeeds => settings = NoSettings
      /\ pc \in {"seed"} \cup AttackPhases => Kept(settings)
      /\ pc \in {"attack", "insert"} => AsSwitched
      /\ \A e \in evidence : e.proper <=> Covered
  BY DEF Context, AttacksRunAsAdversary
<1>2. SUFFICES /\ pc' \in BeforeSeeds => settings' = NoSettings
               /\ pc' \in {"seed"} \cup AttackPhases => Kept(settings')
               /\ pc' \in {"attack", "insert"} => role' = profile.adversary.role
                     /\ settings' = Overlay(profile.owner.settings, profile.adversary)
               /\ \A e \in evidence' : e.proper <=> Covered
  BY <1>0, <1>00 DEF Context, AttacksRunAsAdversary, AsSwitched, world, Overlay
<1> HIDE DEF Kept
<1> USE <1>1 DEF AttackPhases, BeforeSeeds
<1>4. ASSUME UNCHANGED <<pc, role, settings, evidence>>
      PROVE  /\ pc' \in BeforeSeeds => settings' = NoSettings
             /\ pc' \in {"seed"} \cup AttackPhases => Kept(settings')
             /\ pc' \in {"attack", "insert"} => role' = profile.adversary.role
                   /\ settings' = Overlay(profile.owner.settings, profile.adversary)
             /\ \A e \in evidence' : e.proper <=> Covered
  BY <1>4 DEF AsSwitched
<1>5. CASE Connect \/ Verify \/ Login \/ Check \/ Begin
  BY <1>5 DEF Connect, Verify, Login, Check, Begin, progress, StatementFails, Raise, Lose,
     Dial, BeginTx, HangUp, server
<1>6. CASE Seed \/ Control
  BY <1>6 DEF Seed, RememberRow, Control, NextAttack, StatementFails, Raise, Lose, Write, server
<1>7. CASE ConfigureSeed \/ ConfigureOwner \/ ConfigureAdversary
  <2>1. ASSUME NEW base, base = NoSettings \/ Kept(base)
        PROVE  Kept(Overlay(base, profile.owner))
    BY <2>1 DEF Kept, Overlay, NoSettings
  <2>2. ASSUME NEW base, Kept(base)
        PROVE  /\ Kept(Overlay(base, profile.adversary))
               /\ Overlay(base, profile.adversary)
                    = Overlay(profile.owner.settings, profile.adversary)
    BY <2>2 DEF Kept, Overlay
  <2>3. ASSUME NEW id \in {profile.owner, profile.adversary}, NEW next, Configure(id, next),
               pc \in TxPhases
        PROVE  /\ UNCHANGED evidence
               /\ \/ pc' = "rollback"
                  \/ pc' = next /\ role' = id.role /\ settings' = Overlay(settings, id)
    BY <2>3 DEF Configure, progress, StatementFails, Accepting, SetLocal, Raise, Lose, server,
       InTransaction
  <2>4. CASE ConfigureSeed
    BY <2>1, <2>3, <2>4 DEF ConfigureSeed, TxPhases
  <2>5. CASE ConfigureOwner
    BY <2>1, <2>3, <2>5 DEF ConfigureOwner, TxPhases
  <2>6. CASE ConfigureAdversary
    BY <2>2, <2>3, <2>6 DEF ConfigureAdversary, TxPhases
  <2>7. QED
    BY <1>7, <2>4, <2>5, <2>6
<1>8. CASE Attack \/ Insert
  <2>1. /\ pc \in {"attack", "insert"}
        /\ pc' \in {"attack", "insert", "configureOwner", "evaluate"}
    BY <1>8, Position, TurnUnchanged
  <2>2. CASE ~Due
    BY <1>8, <2>1, <2>2, Turn DEF Skip, server, AsSwitched
  <2>3. CASE Due
    <3>1. PICK e : evidence' = evidence \cup {e} /\ e.proper = Proper
      BY <1>8, <2>3, Turn, NewEvidence
    <3>2. UNCHANGED <<role, settings>>
      BY <1>8, <2>3, Turn, AttemptContext
    <3>3. e.proper <=> Covered
      BY <2>1, <3>1, SwitchedProper
    <3>4. QED
      BY <2>1, <3>1, <3>2, <3>3 DEF AsSwitched
  <2>4. QED
    BY <2>2, <2>3
<1>9. CASE Conclude \/ Rollback \/ Close \/ TimeOut
  BY <1>9 DEF Conclude, Rollback, Close, TimeOut, progress, server
<1>10. CASE Stall \/ UNCHANGED vars
  BY <1>4, <1>10 DEF Stall, vars, progress, server
<1>11. QED
  BY <1>5, <1>6, <1>7, <1>8, <1>9, <1>10 DEF Next, Proceed, Step, Returned, Hung

-----------------------------------------------------------------------------
(***************************************************************************)
(* The verdict.                                                            *)
(***************************************************************************)
\* What the evaluator must have seen to answer "pass" or "fail".
LEMMA EvaluateSound ==
    ASSUME NEW ok, NEW found, NEW required, NEW seen,
           EvaluateOutcome(ok, found, required, seen) \in {"pass", "fail"}
    PROVE  /\ ok /\ \A e \in seen : ~e.error \/ e.denied
           /\ EvaluateOutcome(ok, found, required, seen) = "pass" => \A e \in seen : e.denied
           /\ EvaluateOutcome(ok, found, required, seen) = "fail" => \E e \in seen : ~e.denied
BY DEF EvaluateOutcome

\* At the end of the matrix, with the control good throughout, every slot has
\* its one piece of evidence.
LEMMA AllRecorded ==
    ASSUME Recorded, pc = "evaluate", controlOK
    PROVE  Complete(evidence)
BY DEF Recorded, Attacking, Tried, Has, Complete

LEMMA TargetUnique ==
    ASSUME TypeOK, NEW a, NEW f, NEW g, IsTarget(a, f), IsTarget(a, g)
    PROVE  f = g
<1>1. Len(profile.fixtures) \in Nat
  BY ProfileFacts DEF TypeOK
<1>2. f \in Nat /\ g \in Nat /\ ~(f > g) /\ ~(g > f)
  BY <1>1 DEF IsTarget, Fixtures
<1>3. QED
  BY <1>2

LEMMA AllDeniedEarned ==
    ASSUME TypeOK, Remembered, Honest, pc = "evaluate", conn = "up",
           Complete(evidence), ~Undenied
    PROVE  Earned(evidence)
<1> SUFFICES ASSUME NEW b \in Breaches
             PROVE  \E e \in evidence : e.attack = b[1] /\ e.operation = b[2] /\ Blind(e)
  BY DEF Earned
<1>1. /\ b[1] \in Attacks(profile) /\ b[2] \in Requested(profile, b[1]) /\ Breach(b[1], b[2])
  BY DEF Breaches
<1>2. PICK j \in 1 .. Len(profile.ops[b[1]]) : profile.ops[b[1]][j] = b[2]
  BY <1>1 DEF Requested
<1>3. PICK e \in evidence : e.attack = b[1] /\ e.operation = b[2]
  BY <1>1, <1>2 DEF Complete
<1>4. <<Subject(e), b[2]>> \in exposed
  <2>1. CASE b[2] = "insert"
    BY <1>1, <1>3, <2>1 DEF Breach, Subject
  <2>2. CASE b[2] # "insert"
    <3>1. PICK f \in Fixtures(profile) : IsTarget(b[1], f) /\ <<f, b[2]>> \in exposed
      BY <1>1, <2>2 DEF Breach
    <3>2. IsTarget(b[1], ownerRow[b[1]])
      BY <1>1 DEF Remembered, Attacking
    <3>3. f = ownerRow[b[1]]
      BY <3>1, <3>2, TargetUnique
    <3>4. QED
      BY <1>3, <2>2, <3>1, <3>3 DEF Subject
  <2>3. QED
    BY <2>1, <2>2
<1>5. Blind(e)
  BY <1>3, <1>4 DEF Honest, Attacking, Undenied
<1>6. QED
  BY <1>3, <1>5

LEMMA NothingBlind ==
    ASSUME Broken, Context, pc = "evaluate", ~Void
    PROVE  Seeing(evidence)
BY DEF Broken, Context, AttacksRunAsAdversary, Attacking, Blind, Seeing

LEMMA ConcludeGrounded ==
    ASSUME TypeOK, PastGate, Remembered, Recorded, Honest, Traced, Broken, Context,
           Conclude, UNCHANGED world, conn = "up"
    PROVE  Grounded'
<1> DEFINE required == UNION {Requested(profile, a) : a \in Attacks(profile)}
           outcome == EvaluateOutcome(controlOK, findings, required, evidence)
<1>1. report'.outcome = outcome /\ report'.operations = evidence /\ pc = "evaluate"
  BY DEF Conclude, NewReport
<1>2. outcome # "none"
  BY EvaluateOutcomes DEF Outcomes
<1> HIDE DEF required
<1>3. outcome \in {"pass", "fail"} => controlOK /\ ~Void
  BY EvaluateSound DEF Void
<1>4. outcome = "pass" => ~Undenied
  BY EvaluateSound DEF Undenied
<1>5. outcome = "fail" => \E e \in evidence : ~e.denied
  BY EvaluateSound
<1> HIDE DEF outcome
<1>6. Authorised
  BY <1>1 DEF PastGate, TxPhases
<1>7. outcome \in {"pass", "fail"} => Complete(evidence)
  BY <1>1, <1>3, AllRecorded
<1>8. outcome = "pass" => Earned(evidence) /\ Seeing(evidence)
  BY <1>1, <1>3, <1>4, <1>7, AllDeniedEarned, NothingBlind
<1>9. outcome = "fail" => Breaches # {} \/ \E e \in evidence : ~e.proper
  BY <1>1, <1>3, <1>5 DEF Traced, Ending, Foul, Void
<1>10. Covered => \A e \in evidence : e.proper
  BY DEF Context, AttacksRunAsAdversary
<1>11. /\ Authorised' <=> Authorised
       /\ Covered' <=> Covered
       /\ Breaches' = Breaches
       /\ Complete(evidence)' <=> Complete(evidence)
  BY BreachesStay DEF Conclude, world, Authorised, Covered, Complete
<1>12. /\ Complete(report.operations)' <=> Complete(evidence)
       /\ Earned(report.operations)' <=> Earned(evidence)
       /\ Seeing(report.operations)' <=> Seeing(evidence)
  BY <1>1, <1>11 DEF Complete, Earned, Seeing, Blind, world
<1>13. QED
  BY <1>1, <1>2, <1>6, <1>7, <1>8, <1>9, <1>10, <1>11, <1>12 DEF Grounded

LEMMA GroundedStays ==
    ASSUME UNCHANGED <<world, report>>, Grounded
    PROVE  Grounded'
<1>1. /\ Authorised' <=> Authorised
      /\ Covered' <=> Covered
      /\ Breaches' = Breaches
  BY BreachesStay DEF world, Authorised, Covered
<1>2. /\ Complete(report.operations)' <=> Complete(report.operations)
      /\ Earned(report.operations)' <=> Earned(report.operations)
      /\ Seeing(report.operations)' <=> Seeing(report.operations)
  BY <1>1 DEF Complete, Earned, Seeing, Blind, world
<1>3. QED
  BY <1>1, <1>2 DEF Grounded

LEMMA JudgedStep ==
    ASSUME TypeOK, NothingEarly, PastGate, Remembered, Recorded, Honest, Traced, Broken,
           Context, Judged, [Next]_vars
    PROVE  Judged'
<1>0. UNCHANGED world
  BY WorldStays
<1> USE DEF Judged, Ending
<1>1. CASE Conclude
  BY <1>0, <1>1, ConcludeGrounded DEF Conclude, server
<1>2. CASE Check
  <2>1. CASE GateOutcome(findings') = "pass"
    BY <1>2, <2>1 DEF Check
  <2>2. CASE GateOutcome(findings') # "pass"
    <3>1. report'.outcome \in {"inconclusive", "blocked"} /\ report'.operations = {}
      BY <1>2, <2>2, GateOutcomes DEF Check, NewReport
    <3>2. QED
      BY <3>1 DEF Grounded
  <2>3. QED
    BY <2>1, <2>2
<1>3. CASE Connect \/ Verify \/ Login \/ Begin
  BY <1>3 DEF Connect, Verify, Login, Begin
<1>4. CASE ConfigureSeed \/ ConfigureOwner \/ ConfigureAdversary \/ Seed
  BY <1>4 DEF ConfigureSeed, ConfigureOwner, ConfigureAdversary, Configure, Seed, RememberRow
<1>5. CASE Control \/ Attack \/ Insert
  BY <1>5 DEF Control, Attack, Insert, NextOperation, NextAttack
<1>6. CASE Rollback
  BY <1>0, <1>6, GroundedStays DEF Rollback, RollbackTx, progress
<1>7. CASE Close
  BY <1>0, <1>7, GroundedStays DEF Close, HangUp, progress
<1>8. CASE TimeOut
  BY <1>8 DEF TimeOut
<1>9. CASE Stall \/ UNCHANGED vars
  BY <1>0, <1>9, GroundedStays DEF Stall, vars, progress, server
<1>10. QED
  BY <1>1, <1>2, <1>3, <1>4, <1>5, <1>6, <1>7, <1>8, <1>9 DEF Next, Proceed, Step, Returned, Hung

-----------------------------------------------------------------------------
(***************************************************************************)
(* The inductive invariant and what follows from it.                       *)
(***************************************************************************)
LEMMA IInvInit == Init => IInv
<1> SUFFICES ASSUME Init PROVE IInv
  OBVIOUS
<1>1. TypeOK
  BY TypeInit
<1>2. pc = "connect" /\ at = 1 /\ evidence = {} /\ rows = {} /\ durable = {} /\ conn = "none"
      /\ settings = NoSettings /\ ownerRow = [a \in Attacks(profile) |-> 0]
      /\ err = "none" /\ report = NoReport /\ controlOK
  BY DEF Init, ServerInit
<1>3. InTransaction /\ NothingEarly /\ PastGate /\ RowKept /\ Honest /\ Broken /\ Judged
  BY <1>2 DEF InTransaction, NothingEarly, PastGate, RowKept, Honest, Broken, Judged,
     TxPhases, AttackPhases, Attacking, Ending, Seeding
<1>4. Traced /\ Recorded
  BY <1>2 DEF Traced, Recorded, Attacking, AttackPhases
<1>5. Context
  BY <1>2 DEF Context, AttacksRunAsAdversary, AttackPhases
<1>6. Remembered
  <2>1. Len(profile.fixtures) \in Nat
    BY <1>1, ProfileFacts DEF TypeOK
  <2>2. \A a \in Attacks(profile) : Latest(a, 1)
    BY <1>2, <2>1 DEF Latest, Fixtures
  <2>3. QED
    BY <1>2, <2>2 DEF Remembered, Attacking, AttackPhases
<1>7. QED
  BY <1>1, <1>3, <1>4, <1>5, <1>6 DEF IInv

LEMMA IInvStep == IInv /\ [Next]_vars => IInv'
<1> SUFFICES ASSUME IInv, [Next]_vars PROVE IInv'
  OBVIOUS
<1>1. /\ TypeOK /\ InTransaction /\ NothingEarly /\ PastGate /\ Remembered /\ Recorded
      /\ RowKept /\ Honest /\ Traced /\ Broken /\ Context /\ Judged
  BY DEF IInv
<1>2. TypeOK' /\ InTransaction' /\ NothingEarly' /\ PastGate'
  BY <1>1, TypeStep, InTransactionStep, NothingEarlyStep, PastGateStep
<1>3. Remembered' /\ Recorded' /\ RowKept'
  BY <1>1, RememberedStep, RecordedStep, RowKeptStep
<1>4. Honest' /\ Traced' /\ Broken'
  BY <1>1, HonestStep, TracedStep, BrokenStep
<1>5. Context' /\ Judged'
  BY <1>1, ContextStep, JudgedStep
<1>6. QED
  BY <1>2, <1>3, <1>4, <1>5 DEF IInv

\* The strengthening that every property of Execute rests on is preserved by
\* each of its steps (runner.go:18-82).
THEOREM Inductive == Spec => []IInv
BY IInvInit, IInvStep, PTL DEF Spec

\* A verdict that reaches the caller without an error is grounded.
LEMMA VerdictGrounded ==
    ASSUME IInv, Verdict \in {"pass", "fail"}
    PROVE  Grounded /\ report.outcome = Verdict /\ pc = "returned" /\ err = "none"
BY DEF IInv, Judged, Ending, Verdict

\* The run never leaves a row behind: its one transaction is never committed
\* and every write is inside it (runner.go:35-43).
THEOREM NothingSurvives == Spec => []DatabaseUntouched
<1>1. IInv => DatabaseUntouched
  BY DEF IInv, InTransaction, DatabaseUntouched
<1>2. QED
  BY <1>1, Inductive, PTL

\* "pass" is only ever wrong because of a blind denial (runner.go:51-81,
\* attacks/run.go:14-105, evaluate.go:5-42).
THEOREM PassEarned == Spec => []PassIsEarned
<1>1. IInv => PassIsEarned
  BY VerdictGrounded DEF PassIsEarned, Grounded, Earned
<1>2. QED
  BY <1>1, Inductive, PTL

\* "fail" is never wrong about a session that was the adversary's
\* (runner.go:62-70, evaluate.go:36-40).
THEOREM FailReal == Spec => []FailIsReal
<1>1. IInv => FailIsReal
  BY VerdictGrounded DEF FailIsReal, Grounded
<1>2. QED
  BY <1>1, Inductive, PTL

\* "pass" and "fail" rest on one piece of evidence for each operation of each
\* attack (runner.go:53-76, evaluate.go:22-30).
THEOREM NoEvidenceMissing == Spec => []EvidenceComplete
<1>1. IInv => EvidenceComplete
  BY VerdictGrounded DEF EvidenceComplete, Grounded, Complete
<1>2. QED
  BY <1>1, Inductive, PTL

\* A run that lost its connection never says "pass" or "fail" (runner.go:28-43).
THEOREM LossInconclusive == Spec => []LostNeverConcludes
<1>1. IInv => LostNeverConcludes
  BY DEF IInv, Judged, LostNeverConcludes
<1>2. QED
  BY <1>1, Inductive, PTL

\* For every profile: each attack runs under the adversary's role and settings, and
\* nothing of the owner's identity is left but the settings the adversary's does not
\* name (session/configure.go:13-39).
THEOREM AttacksAsAdversary == Spec => []AttacksRunAsAdversary
<1>1. IInv => AttacksRunAsAdversary
  BY DEF IInv, Context, AttacksRunAsAdversary
<1>2. QED
  BY <1>1, Inductive, PTL

\* Nothing the grounds of a pass leave open remains where no hazard can take
\* the shape of a denial and the adversary's settings cover the owner's.
LEMMA PassUnexposed ==
    ASSUME Hazards \cap {"late", "privilege", "encode"} = {},
           Covered, Grounded, report.outcome = "pass"
    PROVE  Breaches = {}
BY DEF Grounded, Earned, Seeing

\* Where no error can take the shape of a denial and no setting of the owner
\* survives the switch, "pass" means that nothing requested is possible for the
\* adversary (runner.go:51-81).
THEOREM PassUnexposedAlways ==
    ASSUME Hazards \cap {"late", "privilege", "encode"} = {}
    PROVE  Spec => [](Covered => PassMeansUnexposed)
<1>1. IInv => (Covered => PassMeansUnexposed)
  BY VerdictGrounded, PassUnexposed DEF PassMeansUnexposed
<1>2. QED
  BY <1>1, Inductive, PTL

LEMMA WriteAuthorised ==
    ASSUME IInv, [Next]_vars, rows' \notin {rows, {}}
    PROVE  Authorised
<1>0. TypeOK /\ InTransaction /\ PastGate
  BY DEF IInv
<1> USE <1>0 DEF InTransaction
<1>1. SUFFICES conn = "up" /\ pc \in TxPhases
  BY DEF PastGate
<1>2. CASE Seed
  BY <1>2 DEF Seed, StatementFails, Accepting, Raise, Lose, server, TxPhases
<1>3. CASE Attack \/ Insert
  <2>1. pc \in TxPhases
    BY <1>3, Position DEF TxPhases, AttackPhases
  <2>2. CASE ~Due
    BY <1>3, <2>2, Turn DEF Skip, server
  <2>3. CASE Due
    <3>1. PICK e : /\ ServerEffect(Operation, e.cause) /\ e.cause \in Results(Operation)
      BY <1>3, <2>3, Turn, NewEvidence
    <3>2. CASE e.cause = "reached"
      BY <1>3, <2>1, <3>1, <3>2, Position, Caused
    <3>3. CASE e.cause # "reached"
      BY <3>1, <3>3 DEF ServerEffect, Raise, Lose, server
    <3>4. QED
      BY <3>2, <3>3
  <2>4. QED
    BY <2>2, <2>3
<1>4. CASE ConfigureSeed \/ ConfigureOwner \/ ConfigureAdversary
  BY <1>4 DEF ConfigureSeed, ConfigureOwner, ConfigureAdversary, Configure, StatementFails,
     SetLocal, Raise, Lose, server
<1>5. CASE Connect \/ Verify \/ Login \/ Check \/ Begin
  BY <1>5 DEF Connect, Verify, Login, Check, Begin, StatementFails, Raise, Lose, Dial, BeginTx,
     HangUp, server
<1>6. CASE Control \/ Conclude \/ Rollback \/ Close
  BY <1>6 DEF Control, Conclude, Rollback, Close, StatementFails, RollbackTx, Raise, Lose,
     HangUp, server
<1>7. CASE Stall \/ TimeOut \/ UNCHANGED vars
  BY <1>7 DEF Stall, TimeOut, HangUp, vars, server
<1>8. QED
  BY <1>2, <1>3, <1>4, <1>5, <1>6, <1>7 DEF Next, Proceed, Step, Returned, Hung

\* Only a target that met every condition of the gate is ever written to, even
\* if the connection was lost while the gate was being evaluated
\* (runner.go:28-35, preflight/gate.go:19-75).
THEOREM WritesAuthorised == Spec => OnlyAuthorisedWrites
<1>1. IInv /\ [Next]_vars => [rows' \notin {rows, {}} => Authorised]_vars
  BY WriteAuthorised
<1>2. QED
  BY <1>1, Inductive, PTL DEF Spec, OnlyAuthorisedWrites

-----------------------------------------------------------------------------
(***************************************************************************)
(* Execute implements Verifier.                                            *)
(***************************************************************************)
LEMMA AnswersOnce ==
    ASSUME IInv, [Next]_vars, Hazards \cap {"late", "privilege", "encode"} = {}, Covered
    PROVE  [V!Next]_(V!promise)
<1> DEFINE answer == IF pc # "returned" THEN "pending"
                     ELSE IF err # "none" THEN "error" ELSE report.outcome
<1>1. UNCHANGED <<Breaches, Authorised>>
  BY WorldStays, BreachesStay DEF world, Authorised
<1>2. durable = {} /\ durable' = {} /\ TypeOK /\ TypeOK' /\ IInv'
  BY IInvStep DEF IInv, InTransaction
<1>3. CASE pc = "returned"
  <2>1. UNCHANGED vars
    BY <1>3 DEF Next, Proceed, Step, Connect, Verify, Login, Check, Begin, ConfigureSeed,
       Seed, ConfigureOwner, Control, ConfigureAdversary, Attack, Insert, Conclude, Rollback,
       Close, Stall, Talking, TimeOut, Deadlined, Returned, Hung
  <2>2. UNCHANGED <<pc, err, report>>
    BY <2>1 DEF vars, progress
  <2>3. QED
    BY <1>1, <1>2, <2>2 DEF V!promise
<1>4. CASE pc # "returned" /\ pc' # "returned"
  BY <1>1, <1>2, <1>4 DEF V!promise
<1>5. CASE pc # "returned" /\ pc' = "returned"
  <2>1. answer = "pending"
    BY <1>5
  <2>2. CASE err' # "none"
    <3>1. answer' = "error"
      BY <1>5, <2>2
    <3>2. V!Answer("error")
      BY <1>1, <1>2, <1>5, <3>1 DEF V!Answer
    <3>3. QED
      BY <3>2 DEF V!Next
  <2>3. CASE err' = "none"
    <3>1. answer' = report'.outcome
      BY <1>5, <2>3
    <3>2. Grounded'
      BY <1>2, <1>5, <2>3 DEF IInv, Judged, Ending
    <3>3. report'.outcome \in {"pass", "fail", "inconclusive", "blocked"}
      BY <1>2, <3>2 DEF Grounded, TypeOK, ResultsOK, Outcomes
    <3>4. Covered'
      BY WorldStays DEF Covered, world
    <3>5. report'.outcome = "pass" => Authorised /\ Breaches = {}
      BY <1>1, <3>2, <3>4 DEF Grounded, Earned, Seeing
    <3>6. report'.outcome = "fail" => Authorised /\ Breaches # {}
      BY <1>1, <3>2, <3>4 DEF Grounded
    <3>7. V!Answer(report'.outcome)
      BY <1>1, <1>2, <1>5, <2>3, <3>1, <3>5, <3>6 DEF V!Answer
    <3>8. QED
      BY <3>3, <3>7 DEF V!Next
  <2>4. QED
    BY <2>2, <2>3
<1>6. QED
  BY <1>3, <1>4, <1>5

\* Execute keeps the promise of Verifier: it answers once, truthfully, only
\* about an authorised target, and leaves the database as it found it - where no
\* error can take the shape of a denial and every profile's adversary overrides
\* the owner's settings (runner.go:18-82).
THEOREM ImplementsVerifier ==
    ASSUME Hazards \cap {"late", "privilege", "encode"} = {},
           \A p \in Profiles : \A g \in Gucs :
              p.owner.settings[g] # Unset => p.adversary.settings[g] # Unset
    PROVE  Spec => KeepsPromise
<1>1. Init => V!Init
  BY DEF Init, ServerInit, V!Init
<1>2. IInv => Covered
  BY DEF IInv, TypeOK, Covered
<1>3. IInv /\ [Next]_vars => [V!Next]_(V!promise)
  BY <1>2, AnswersOnce
<1>4. QED
  BY <1>1, <1>3, Inductive, PTL DEF Spec, KeepsPromise, V!Spec

-----------------------------------------------------------------------------
(***************************************************************************)
(* The reports of Execute are what the consumers behind it take them for.  *)
(* A gate that opened has found nothing at all, since nothing it finds is  *)
(* a mere note.                                                            *)
(***************************************************************************)
LEMMA FindingsStop ==
    ASSUME NEW p, NEW c, NEW cut, NEW members,
           NEW f \in PreflightFindings(p, c, cut, members)
    PROVE  f.severity \in {"blocked", "inconclusive"}
<1>1. \A found \in RoleFindings(p, c, cut, members) : found.severity = "blocked"
  BY DEF RoleFindings, When, Finding
<1>2. \A a \in Attacks(p) : \A found \in TableFindings(p, c, cut, a) :
         found.severity \in {"blocked", "inconclusive"}
  BY DEF TableFindings, When, Finding
<1> QED
  BY <1>1, <1>2 DEF PreflightFindings

LEMMA OpenGateFoundNothing ==
    ASSUME NEW found, GateOutcome(found) = "pass",
           \A f \in found : f.severity \in {"blocked", "inconclusive"}
    PROVE  found = {}
BY DEF GateOutcome

Reported ==
    /\ pc \notin Ending => findings = {}
    /\ report # NoReport => OfExecute(report)

LEMMA CheckReports ==
    ASSUME Reported, Check
    PROVE  Reported'
<1>1. \A f \in findings' : f.severity \in {"blocked", "inconclusive"}
  BY FindingsStop DEF Check
<1>2. CASE GateOutcome(findings') = "pass"
  BY <1>1, <1>2, OpenGateFoundNothing DEF Check, Reported
<1>3. CASE GateOutcome(findings') # "pass"
  <2>1. report' = NewReport(GateOutcome(findings'), findings', {}) /\ pc' = "close"
    BY <1>3 DEF Check
  <2>2. findings' # {}
    BY <1>3 DEF GateOutcome
  <2>3. FromGate(report')
    BY <1>1, <2>1, <2>2 DEF FromGate, NewReport
  <2> QED
    BY <2>1, <2>3 DEF Reported, OfExecute, Ending
<1> QED
  BY <1>2, <1>3

LEMMA ConcludeReports ==
    ASSUME TypeOK, Reported, Conclude
    PROVE  Reported'
<1> DEFINE required == UNION {Requested(profile, a) : a \in Attacks(profile)}
<1>1. findings = {}
  BY DEF Conclude, Reported, Ending
<1>2. report' = NewReport(EvaluateOutcome(controlOK, {}, required, evidence), {}, evidence)
  BY <1>1 DEF Conclude
<1>3. controlOK \in BOOLEAN /\ required \in SUBSET Operations
  BY ProfileFacts DEF TypeOK, ResultsOK, Requested
<1>4. \A e \in evidence : e.denied \in BOOLEAN /\ e.error \in BOOLEAN
  BY DEF TypeOK, ResultsOK, Evidence
<1> HIDE DEF required
<1>5. FromMatrix(report')
  BY <1>2, <1>3, <1>4 DEF FromMatrix, NewReport
<1> QED
  BY <1>5 DEF Reported, OfExecute, Conclude, Ending

LEMMA ReportedStep ==
    ASSUME TypeOK, Reported, [Next]_vars
    PROVE  Reported'
<1>1. CASE Check
  BY <1>1, CheckReports
<1>2. CASE Conclude
  BY <1>2, ConcludeReports
<1>3. CASE Connect \/ Verify \/ Login \/ Begin
  BY <1>3 DEF Connect, Verify, Login, Begin, progress, Reported, Ending
<1>4. CASE ConfigureSeed \/ ConfigureOwner \/ ConfigureAdversary \/ Seed
  BY <1>4 DEF ConfigureSeed, ConfigureOwner, ConfigureAdversary, Configure, Seed, RememberRow,
              progress, Reported, Ending
<1>5. CASE Control \/ Attack \/ Insert
  BY <1>5 DEF Control, Attack, Insert, NextOperation, NextAttack, Skip, Attempt, Reported, Ending
<1>6. CASE Rollback \/ Close \/ TimeOut
  BY <1>6 DEF Rollback, Close, TimeOut, progress, Reported, Ending
<1>7. CASE Stall \/ UNCHANGED vars
  BY <1>7 DEF Stall, vars, progress, Reported
<1> QED
  BY <1>1, <1>2, <1>3, <1>4, <1>5, <1>6, <1>7 DEF Next, Proceed, Step, Returned, Hung

\* What Execute reports is a gate that did not open, with what it found, or the
\* verdict over an attack matrix after a gate that found nothing (runner.go:28-34,
\* 72-81).  ClaimsHold, about the artifacts made of a report, starts from this.
THEOREM ReportsAreOfExecute == Spec => [](report # NoReport => OfExecute(report))
<1>1. Init => Reported
  BY DEF Init, Reported
<1>2. TypeOK /\ Reported /\ [Next]_vars => Reported'
  BY ReportedStep
<1>3. Reported => (report # NoReport => OfExecute(report))
  BY DEF Reported
<1> QED
  BY <1>1, <1>2, <1>3, TypeCorrect, PTL DEF Spec
=============================================================================
