------------------------------- MODULE Runner -------------------------------
(***************************************************************************)
(* internal/runner.Execute with what it calls: database.Open, the gate,    *)
(* session.Configure, seeder.Seed, control.Verify, attacks.Run,            *)
(* attacks.Insert, evaluate.Outcome and the deferred rollback and close.   *)
(* One goroutine issues one statement at a time; the actions are the       *)
(* points between which the server, the network or the target's policies   *)
(* may decide differently.                                                 *)
(***************************************************************************)
EXTENDS Postgres, Evaluate

CONSTANTS
    Profiles,    \* validated profiles
    Catalogs,    \* targets: a catalog record with "server": "ok" | "old" | "readonly"
    Hazards      \* what may go wrong besides row level security

(***************************************************************************)
(* "error"      the server rejects a statement with a SQLSTATE but 42501   *)
(* "late"       it does so only while rows are fetched                     *)
(* "privilege"  SQLSTATE 42501 that no policy raised                       *)
(* "encode"     pgx cannot encode an argument; nothing reaches the server  *)
(* "lost"       the connection drops                                       *)
(* "stall"      the server stops answering                                 *)
(***************************************************************************)
ASSUME ProfilesAssumption == \A p \in Profiles : IsProfile(p)
ASSUME HazardsAssumption ==
    Hazards \subseteq {"error", "late", "privilege", "encode", "lost", "stall"}

VARIABLES
    profile, catalog,
    exposed,     \* what the policies let the adversary do: <<fixture, op>>, <<attack, "insert">>
    stalled,
    pc, at, k,   \* where Execute is: phase, fixture or attack, operation
    ownerRow,    \* seeder.Result: the fixture attacked on each table, 0 for none
    controlOK, evidence, findings, report,
    err          \* the phase the returned error comes from, "none" for nil

world    == <<profile, catalog, exposed>>
progress == <<at, k, ownerRow, controlOK, evidence, findings, report>>
vars     == <<server, world, stalled, pc, progress, err>>

NoReport == [outcome |-> "none", findings |-> {}, operations |-> {}]

\* Everything the policies can decide about: one row of the protected table
\* for reads and writes, the whole table for inserts.
Keys(p) ==
    (UNION {{<<f, op>> : op \in Requested(p, p.fixtures[f]) \ {"insert"}} : f \in Fixtures(p)})
    \cup {<<a, "insert">> : a \in {a \in Attacks(p) : "insert" \in Requested(p, a)}}

Init ==
    /\ profile \in Profiles /\ catalog \in Catalogs
    /\ exposed \in SUBSET Keys(profile)
    /\ ServerInit /\ stalled = FALSE
    /\ pc = "connect" /\ at = 1 /\ k = 1
    /\ ownerRow = [a \in Attacks(profile) |-> 0]
    /\ controlOK = TRUE /\ evidence = {} /\ findings = {}
    /\ report = NoReport /\ err = "none"

StatementFails ==
    \/ ~Accepting /\ UNCHANGED server
    \/ Accepting /\ "error" \in Hazards /\ Raise
    \/ "lost" \in Hazards /\ Lose

(***************************************************************************)
(* database.Open                                                           *)
(***************************************************************************)
Connect ==
    /\ pc = "connect"
    /\ \/ Dial /\ pc' = "verify" /\ UNCHANGED err
       \/ /\ "lost" \in Hazards
          /\ UNCHANGED server /\ err' = "open" /\ pc' = "returned"
    /\ UNCHANGED progress

\* Version at least 15 and not read-only; any failure closes the connection.
Verify ==
    /\ pc = "verify"
    /\ \/ /\ catalog.server = "ok"
          /\ UNCHANGED <<server, err>> /\ pc' = "login"
       \/ /\ catalog.server # "ok" \/ Hazards \cap {"error", "lost"} # {}
          /\ HangUp /\ err' = "open" /\ pc' = "returned"
    /\ UNCHANGED progress

(***************************************************************************)
(* Execute up to the transaction                                           *)
(***************************************************************************)
Login ==
    /\ pc = "login"
    /\ \/ Accepting /\ UNCHANGED <<server, err>> /\ pc' = "preflight"
       \/ StatementFails /\ err' = "login" /\ pc' = "close"
    /\ UNCHANGED progress

Check ==
    /\ pc = "preflight"
    /\ \E cut \in Questions(profile) \cup {Never(profile)} :
          /\ IF cut = Never(profile)
             THEN UNCHANGED server
             ELSE "lost" \in Hazards /\ Lose
          /\ \E members \in Listed(catalog, cut) :
                findings' = PreflightFindings(profile, catalog, cut, members)
    /\ IF GateOutcome(findings') = "pass"
       THEN pc' = "begin" /\ UNCHANGED report
       ELSE /\ pc' = "close"
            /\ report' = NewReport(GateOutcome(findings'), findings', {})
    /\ UNCHANGED <<at, k, ownerRow, controlOK, evidence, err>>

\* Mutant: works on the connection instead of a transaction.
BeginNothing ==
    /\ pc = "begin"
    /\ \/ Accepting /\ UNCHANGED server /\ pc' = "configureSeed" /\ UNCHANGED err
       \/ StatementFails /\ err' = "begin" /\ pc' = "close"
    /\ UNCHANGED progress

Begin ==
    /\ pc = "begin"
    /\ \/ Accepting /\ BeginTx /\ pc' = "configureSeed" /\ UNCHANGED err
       \/ StatementFails /\ err' = "begin" /\ pc' = "close"
    /\ UNCHANGED progress

(***************************************************************************)
(* Seeding, one fixture a step, under the owner's identity                 *)
(***************************************************************************)
Configure(identity, next) ==
    /\ \/ Accepting /\ SetLocal(identity) /\ pc' = next /\ UNCHANGED err
       \/ StatementFails /\ err' = "configure" /\ pc' = "rollback"
    /\ UNCHANGED progress

ConfigureSeed == pc = "configureSeed" /\ Configure(profile.owner, "seed")

\* Mutant: keeps the first fixture of a table.
RememberFirst ==
    /\ ownerRow' = IF ownerRow[profile.fixtures[at]] # 0 THEN ownerRow
                   ELSE [ownerRow EXCEPT ![profile.fixtures[at]] = at]
    /\ IF at < Len(profile.fixtures)
       THEN at' = at + 1 /\ UNCHANGED pc
       ELSE at' = 1 /\ pc' = "configureOwner"

\* A fixture overwrites the row remembered from an earlier one of its table.
RememberRow ==
    /\ ownerRow' = [ownerRow EXCEPT ![profile.fixtures[at]] = at]
    /\ IF at < Len(profile.fixtures)
       THEN at' = at + 1 /\ UNCHANGED pc
       ELSE at' = 1 /\ pc' = "configureOwner"

Seed ==
    /\ pc = "seed"
    /\ \/ /\ Accepting /\ Write(rows \cup {<<"owner", at>>})
          /\ RememberRow /\ UNCHANGED err
       \/ /\ (Accepting /\ Raise) \/ StatementFails   \* the owner's own policy may refuse
          /\ err' = "seed" /\ pc' = "rollback" /\ UNCHANGED <<at, ownerRow>>
    /\ UNCHANGED <<k, controlOK, evidence, findings, report>>

(***************************************************************************)
(* The attack matrix                                                       *)
(***************************************************************************)
\* Mutant: goes one attack too far.
NextAttackBeyond ==
    /\ k' = 1
    /\ IF at <= Len(profile.ops)
       THEN at' = at + 1 /\ pc' = "configureOwner"
       ELSE at' = at /\ pc' = "evaluate"

\* Mutant: does not move on.
NextAttackAgain ==
    /\ k' = 1 /\ UNCHANGED at
    /\ pc' = IF at < Len(profile.ops) THEN "configureOwner" ELSE "evaluate"

NextAttack ==
    /\ k' = 1
    /\ IF at < Len(profile.ops)
       THEN at' = at + 1 /\ pc' = "configureOwner"
       ELSE at' = at /\ pc' = "evaluate"

ConfigureOwner == pc = "configureOwner" /\ Configure(profile.owner, "control")

\* Mutant: skips the attack but forgets why.
ControlForgets ==
    /\ pc = "control"
    /\ \/ /\ Accepting /\ <<"owner", ownerRow[at]>> \in rows
          /\ UNCHANGED <<server, at, k>> /\ pc' = "configureAdversary"
       \/ /\ UNCHANGED server \/ StatementFails
          /\ NextAttack
    /\ UNCHANGED <<controlOK, ownerRow, evidence, findings, report, err>>

Control ==
    /\ pc = "control"
    /\ \/ /\ Accepting /\ <<"owner", ownerRow[at]>> \in rows
          /\ UNCHANGED <<server, controlOK, at, k>> /\ pc' = "configureAdversary"
       \/ /\ UNCHANGED server \/ StatementFails   \* no row, or an error: the code does not tell
          /\ controlOK' = FALSE /\ NextAttack
    /\ UNCHANGED <<ownerRow, evidence, findings, report, err>>

\* Mutant: attacks as the owner.
ConfigureOwnerAgain ==
    pc = "configureAdversary" /\ Configure(profile.owner, "attack")

ConfigureAdversary ==
    pc = "configureAdversary" /\ Configure(profile.adversary, "attack")

Exposed(op) == <<IF op = "insert" THEN at ELSE ownerRow[at], op>> \in exposed

\* The session really is the adversary's and nothing else.
Proper ==
    /\ role = profile.adversary.role
    /\ settings = Overlay(NoSettings, profile.adversary)

\* How a policy turns a statement down: it hides the row, or its WITH CHECK
\* raises SQLSTATE 42501.
Refusals(op) ==
    IF op = "insert" THEN {"rls"}
    ELSE IF op = "update" THEN {"filtered", "rls"}
    ELSE {"filtered"}

\* What row level security does with a statement that reaches the server.  Once
\* an attack has rewritten the row its policies may decide either way.
PolicyResults(op) ==
    IF ~Proper THEN {"reached"} \cup Refusals(op)
    ELSE IF op # "insert" /\ <<"owner", ownerRow[at]>> \notin rows
         THEN IF <<"taken", ownerRow[at]>> \in rows
              THEN {"reached"} \cup Refusals(op) ELSE {"filtered"}
    ELSE IF Exposed(op) THEN {"reached"} ELSE Refusals(op)

FaultResults(op) ==
    {fault \in Hazards \ {"stall"} :
        /\ fault = "late" => op = "select"
        /\ fault = "privilege" => op = "insert"
        /\ fault = "encode" => op \in {"insert", "update"}}

\* A select or a delete can always be built: validation has seen the keys.
Builds(op) == <<at, op>> \notin profile.unbuildable

Results(op) ==
    IF ~Builds(op) THEN {"build"}
    ELSE IF conn # "up" THEN {"lost"}
    ELSE IF txStatus = "failed" THEN {"aborted"} \cup ({"lost"} \cap Hazards)
    ELSE PolicyResults(op) \cup FaultResults(op)

\* Whether Query or Exec itself returns the error.  The control has prepared the
\* very same SELECT, so an error in it shows only in rows.Err, or not: either.
CallFails(op, result) ==
    IF result \in {"reached", "filtered", "late"} THEN {FALSE}
    ELSE IF op = "select" /\ result \in {"aborted", "lost"} THEN BOOLEAN
    ELSE {TRUE}

\* Mutant: no rows is a denial even if there was an error.
RunErrorsDeny(op, result) ==
    {[denied |-> result # "reached", error |-> failed] : failed \in CallFails(op, result)}

\* attacks.Run: an error is not a denial, no rows without an error is.
RunVerdicts(op, result) ==
    {[denied |-> ~failed /\ result # "reached", error |-> failed] :
        failed \in CallFails(op, result)}

\* Mutant: does not look at the SQLSTATE.
InsertAnyErrorDenies(result) == {result # "reached"}

\* attacks.Insert: any error but a SQLSTATE other than 42501 is a denial.  A
\* server that ends the session may still say so with a SQLSTATE.
InsertDenials(result) ==
    IF result = "lost" THEN BOOLEAN
    ELSE IF result \in {"rls", "privilege", "encode"} THEN {TRUE}
    ELSE {FALSE}

InsertVerdicts(result) ==
    {[denied |-> denied, error |-> result # "reached"] : denied \in InsertDenials(result)}

Verdicts(op, result) ==
    IF op = "insert" THEN InsertVerdicts(result) ELSE RunVerdicts(op, result)

\* What a successful statement does to the rows: a delete may cascade to other
\* rows of the run, an update may take the row out of the owner's sight.
Reach(op) ==
    LET own == {<<"owner", ownerRow[at]>>, <<"taken", ownerRow[at]>>}
    IN  \/ op = "select" /\ UNCHANGED server
        \/ op = "insert" /\ Write(rows \cup {<<"planted", at>>})
        \/ /\ op = "update"
           /\ \/ Write(rows)
              \/ own \cap rows # {} /\ Write((rows \ own) \cup {<<"taken", ownerRow[at]>>})
        \/ /\ op = "delete"
           /\ \E rest \in SUBSET (rows \ own) : Write(rest)

ServerEffect(op, result) ==
    \/ result = "reached" /\ Reach(op)
    \/ result \in {"filtered", "build", "encode", "aborted"} /\ UNCHANGED server
    \/ result \in {"rls", "error", "late", "privilege"} /\ Raise
    \/ result = "lost" /\ (Lose \/ (conn # "up" /\ UNCHANGED server))

Attempt(op) ==
    /\ \E result \in Results(op) :
          /\ ServerEffect(op, result)
          /\ \E verdict \in Verdicts(op, result) :
                evidence' = evidence \cup
                    {[attack |-> at, slot |-> k, operation |-> op,
                      denied |-> verdict.denied, error |-> verdict.error,
                      cause |-> result, proper |-> Proper]}
    /\ UNCHANGED <<ownerRow, controlOK, findings, report, err>>

\* attacks.Run goes over all operations first, then Execute over the inserts.
NextOperation ==
    IF k < Len(profile.ops[at])
    THEN k' = k + 1 /\ UNCHANGED <<at, pc>>
    ELSE IF pc = "attack"
    THEN k' = 1 /\ pc' = "insert" /\ UNCHANGED at
    ELSE NextAttack

Operation == profile.ops[at][k]

Skip == UNCHANGED <<server, ownerRow, controlOK, evidence, findings, report, err>>

Attack ==
    /\ pc = "attack" /\ NextOperation
    /\ IF Operation = "insert" THEN Skip ELSE Attempt(Operation)

Insert ==
    /\ pc = "insert" /\ NextOperation
    /\ IF Operation # "insert" THEN Skip ELSE Attempt("insert")

Conclude ==
    /\ pc = "evaluate" /\ pc' = "rollback"
    /\ report' = NewReport(
                   EvaluateOutcome(controlOK, findings,
                                   UNION {Requested(profile, a) : a \in Attacks(profile)},
                                   evidence),
                   findings, evidence)
    /\ UNCHANGED <<server, at, k, ownerRow, controlOK, evidence, findings, err>>

(***************************************************************************)
(* The deferred calls.  A rollback that fails replaces whatever error there*)
(* was; the report stays as it is but comes with an error.                 *)
(***************************************************************************)
\* Mutant: drops the error of the rollback.
RollbackSilent ==
    /\ pc = "rollback" /\ pc' = "close"
    /\ \/ conn = "up" /\ RollbackTx
       \/ conn # "up" /\ UNCHANGED server
       \/ "lost" \in Hazards /\ Lose
    /\ UNCHANGED <<progress, err>>

Rollback ==
    /\ pc = "rollback" /\ pc' = "close"
    /\ \/ conn = "up" /\ RollbackTx /\ UNCHANGED err
       \/ /\ \/ conn # "up" /\ UNCHANGED server
             \/ "lost" \in Hazards /\ Lose
          /\ err' = "rollback"
    /\ UNCHANGED progress

Close == pc = "close" /\ HangUp /\ pc' = "returned" /\ UNCHANGED <<progress, err>>

Step ==
    \/ Connect \/ Verify \/ Login \/ Check \/ Begin
    \/ ConfigureSeed \/ Seed
    \/ ConfigureOwner \/ Control \/ ConfigureAdversary \/ Attack \/ Insert
    \/ Conclude \/ Rollback \/ Close

Proceed == ~stalled /\ Step /\ UNCHANGED <<world, stalled>>

(***************************************************************************)
(* A server that stops answering.  Only Open bounds its waits.             *)
(***************************************************************************)
Talking == pc \notin {"evaluate", "close", "returned"}

Deadlined == pc \in {"connect", "verify"}

Stall ==
    /\ "stall" \in Hazards /\ Talking /\ ~stalled
    /\ stalled' = TRUE /\ UNCHANGED <<server, world, pc, progress, err>>

\* Mutant: leaves the connection to the server that fell silent.
TimeOutKeepsConnection ==
    /\ stalled /\ Deadlined
    /\ UNCHANGED server /\ err' = "open" /\ pc' = "returned" /\ stalled' = FALSE
    /\ UNCHANGED <<world, progress>>

TimeOut ==
    /\ stalled /\ Deadlined
    /\ HangUp /\ err' = "open" /\ pc' = "returned" /\ stalled' = FALSE
    /\ UNCHANGED <<world, progress>>

Returned == pc = "returned" /\ UNCHANGED vars

Hung == stalled /\ ~Deadlined /\ UNCHANGED vars

Next == Proceed \/ Stall \/ TimeOut \/ Returned \/ Hung

Fairness == WF_vars(Proceed) /\ WF_vars(TimeOut)

Spec == Init /\ [][Next]_vars /\ Fairness
-----------------------------------------------------------------------------
Phases ==
    {"connect", "verify", "login", "preflight", "begin", "configureSeed", "seed",
     "configureOwner", "control", "configureAdversary", "attack", "insert",
     "evaluate", "rollback", "close", "returned"}

BeforeSeeds == {"connect", "verify", "login", "preflight", "begin", "configureSeed"}

AttackPhases == {"configureOwner", "control", "configureAdversary", "attack", "insert"}

Causes ==
    {"reached", "filtered", "rls", "build", "aborted", "error", "late",
     "privilege", "encode", "lost"}

Evidence ==
    [attack : Attacks(profile), slot : Nat, operation : Operations,
     denied : BOOLEAN, error : BOOLEAN, cause : Causes, proper : BOOLEAN]

Marks ==
    {"owner", "taken"} \X Fixtures(profile) \cup {"planted"} \X Attacks(profile)

SessionTypeOK ==
    /\ conn \in {"none", "up", "lost", "closed"}
    /\ txStatus \in {"idle", "active", "failed"}
    /\ role \in Roles /\ settings \in [Gucs -> GucValues \cup {Unset}]
    /\ rows \subseteq Marks /\ durable \subseteq Marks

CountersOK ==
    /\ at \in Nat /\ k \in Nat \ {0}
    /\ pc \in AttackPhases => at \in Attacks(profile)
    /\ pc \in {"configureOwner", "control", "configureAdversary"} => k = 1
    /\ pc \in {"attack", "insert"} => k <= Len(profile.ops[at])

ResultsOK ==
    /\ ownerRow \in [Attacks(profile) -> {0} \cup Fixtures(profile)]
    /\ controlOK \in BOOLEAN /\ evidence \subseteq Evidence
    /\ report.outcome \in Outcomes \cup {"none"} /\ report.operations \subseteq Evidence

\* Every variable of Execute and of its session keeps to its type, and the loop
\* counters stay within the profile.
TypeOK ==
    /\ profile \in Profiles /\ catalog \in Catalogs /\ exposed \subseteq Keys(profile)
    /\ stalled \in BOOLEAN /\ pc \in Phases
    /\ err \in {"none", "open", "login", "begin", "configure", "seed", "rollback"}
    /\ pc \in BeforeSeeds => at = 1 /\ k = 1
    /\ pc = "seed" => at \in Fixtures(profile) /\ k = 1
    /\ SessionTypeOK /\ CountersOK /\ ResultsOK

=============================================================================
