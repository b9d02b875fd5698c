# pg-canary: models and proofs

pg-canary runs a YAML profile of row level security (RLS) attacks against a
disposable PostgreSQL database and answers `pass`, `fail`, `inconclusive` or
`blocked`. These modules model a run, the command line around it and the
packages beside it. The checks say in which worlds its answers are true; the proofs say so
for all worlds the constants allow.

Contents: [inventory](#inventory) · [modules](#modules) ·
[the model and the code](#the-model-and-the-code) · [runs](#runs) ·
[fairness](#fairness) · [proofs](#proofs) ·
[where the documents and the code part](#where-the-documents-and-the-code-part) ·
[limits](#limits) · [plan](#plan)

## Inventory

A run is one goroutine over one connection. `cli` parses the command line,
loads and validates a profile and calls `runner.Execute`; everything else that
a run uses is called from there:

    cli -> profile.LoadFile
        -> runner.Execute
             database.Open -> verify            (10 s deadline on each wait)
             SELECT current_user                (no deadline from here on)
             preflight.Check -> catalog         (any finding but a note ends the run)
             BEGIN
             session.Configure(owner); seeder.Seed
             for each attack:
                 session.Configure(owner); control.Verify
                 session.Configure(adversary); attacks.Run; attacks.Insert
             evaluate.Outcome
             ROLLBACK; Close                    (deferred, on every path)
        -> report to a file and to standard output, exit code

| Component | State it keeps | Operations | What makes it correct |
|---|---|---|---|
| runner | transaction, owner rows, control flag, evidence, report, error | `Execute` | verdicts are true; writes are authorised and undone; a failing cleanup is not lost |
| attacks | none | `Run`, `Insert` | a denial means the policy refused; one piece of evidence for each operation |
| evaluate | none | `Outcome` | blocked before inconclusive before fail before pass |
| preflight, catalog | findings, outcome; the catalog belongs to the server and changes | `Check`, `Role`, `Memberships`, `Table`, `HasTablePrivilege` | no unfit target passes, also when questions go unanswered; what it says was true at some moment of the check |
| session | role and settings of the transaction | `Configure` | an attack sees the adversary's identity, and of the owner's only the settings the adversary's does not name |
| seeder, control | remembered rows | `Seed`, `Verify` | the attacked row is there and visible to its owner |
| database | connection, deadlines | `Open`, `Close` | waits are bounded; a failed Open leaves no connection |
| profile, domain, sqlsafe | diagnostics | `Load`, `Validate`, statement builders | what validation lets through can be built and picks one fixture; what it rejects could not be run |
| cli, cmd | arguments, options; the output files outlive a process | `run`, `validate`, `help` | no contact without consent; file, output and exit code tell the same |
| ci, report, remediate | none | `GitHubAnnotations`, `SARIF`, `Terminal`, `Guidance` | they agree with the verdict |
| harness | transaction with savepoints, list of errors | `Run` | an operation's error does not reach the next one; nothing stays; an unfit connection is not handed back in silence |
| concurrency | worker group, barrier, mutex, error list | `Run` | no error lost, the wait ends |
| fixtures | counts, ready list, plan | `Plan` | a topological order, always the same, or an error |
| postgrest, publish | none; the row and the endpoint are remote | `Execute`, `Publish` | a denial means the policy refused; published means received |
| views, functions, advisory | none | single queries, string tests | – |

`harness`, `concurrency`, `fixtures`, `postgrest`, `publish`, `ci`, `views`,
`functions`, `advisory` and `remediate` are libraries: no command calls them. Their
models therefore take every argument a caller can pass from the small sets below.

Hard behaviours, the ones the properties are aimed at:

* An error and a denial look alike. The verdict rests on telling a policy that
  refused from a statement or a request that failed for another reason.
* One transaction, no savepoints: an error makes PostgreSQL reject everything
  after it; a rewritten or deleted row changes what later attacks can show.
* The role and the settings are switched back and forth and never reset.
* Cleanup is deferred; it may fail after the verdict was computed.
* The gate asks one question after another without a transaction, while other
  sessions change the catalog; it drops one of the errors.
* After `Open` nothing bounds a wait.
* The harness hands its transaction to code that may end it.
* Workers share one list; the wait is only as good as the counting.
* Output files outlive the process that wrote half of one.
* An HTTP client follows redirects, and a gateway answers for the service.

## Modules

| Module | Content |
|---|---|
| `Domain` | data contracts and the shape of a validated profile |
| `Evaluate` | the verdict function |
| `Preflight` | the gate over a catalog record, in one step |
| `Gate` | the gate one question a step, with sessions that change the catalog |
| `Postgres` | the session as the code uses it (external) |
| `Runner` | `Execute` and what it calls, one action for each point where the world may decide |
| `Verifier` | abstract specification: what a run promises |
| `Promises` | the properties of a run; the mapping to `Verifier` |
| `DocClaims` | what the documents say of a run and the code does not do |
| `RunnerInvariant`, `RunnerProofs` | the inductive invariant and the theorems |
| `Statements`, `ProfileCheck` | `sqlsafe`'s conditions and `Validate` |
| `Artifacts`, `Cli` | what becomes of a report; the processes around a run |
| `Verdicts` | what `Execute` returns without an error: proved about `Runner`, used about `Cli` |
| `Transaction`, `Harness` | one `pgx.Tx` with savepoints (external); `harness.Run` |
| `Batch` | abstract specification: what the harness promises |
| `Probes` | `concurrency.Run`, one action for each step of a goroutine |
| `FixturePlan` | `fixtures.Plan` |
| `Http`, `Postgrest` | one HTTP exchange (external); `postgrest.Execute` and `publish.Publish` |
| `GateProofs`, `ProfileCheckProofs`, `CliProofs`, `HarnessProofs`, `ProbesProofs`, `FixturePlanProofs`, `PostgrestProofs` | the inductive invariants and theorems of the module they are named after |
| `MC...` | profiles, catalogs, documents, arguments, reports and lists for TLC |

How they are put together: `Runner` extends `Postgres` (which extends `Preflight`
and `Domain`) and `Evaluate`; `Promises` extends `Runner` and instantiates
`Verifier`; `RunnerInvariant` and `DocClaims` extend `Promises`; `MCRunner` extends
both, `RunnerProofs` extends `RunnerInvariant` and `Verdicts`. Every other `...Proofs`
extends its component, `CliProofs` also `Verdicts`. `Gate` extends `Preflight`,
`ProfileCheck` extends `Domain` and `Statements`, `Cli` extends `Artifacts`, and
`MCCli` takes its reports from `Preflight` and `Evaluate`. `Harness` extends
`Transaction` and instantiates `Batch`; `Postgrest` extends `Http`. `Probes` and
`FixturePlan` stand alone.

Three bridges hold the parts together, and all three are proved. `Runner` takes
profiles with the shape `IsProfile` and answers the gate in one step;
`AcceptedIsProfile` (in `ProfileCheck`) says that `Validate` accepts no others, and
`OneStep` (in `Gate`) that the questions add up to that step when the catalog stands
still. `Cli` takes its reports from a set; `ReportsAreOfExecute` (in `RunnerProofs`)
says that every report of `Runner` satisfies `OfExecute`, which is what `ClaimsHold`
(in `CliProofs`) asks of them.

Some definitions are marked *Mutant*: each is a plausible slip in the code that the
definition after it models. They are not part of any specification; each breaks the property that is there to catch it
(`mutants` in `PROJECT.json`).

## The model and the code

*World.* `profile` is a validated profile, `catalog` the target, `exposed` what
the policies let the adversary do: `<<f, op>>` for the row of fixture `f`,
`<<a, "insert">>` for the table of attack `a`. TLC starts from every subset.
Tables are named by the index of the attack on them, which validation makes
unique. The world does not change during a run (see [limits](#limits));
`Gate` has one that does.

*Session* (`Postgres`). `conn`, `txStatus` (`idle`, `active`, `failed`), `role`,
`settings`, and the run's own rows: `<<"owner", f>>` for a seeded row,
`<<"taken", f>>` for one that an update moved out of its owner's sight,
`<<"planted", a>>` for an inserted one. `durable` is what would survive.
`SetLocal` keeps every setting the identity does not mention, as
`session.Configure` does; a statement that raises an error leaves the
transaction `failed`.

*Execute* (`Runner`). `pc` is the point reached, `at` the fixture or attack, `k`
the operation. `ownerRow[a]` is `seeder.Result`, `err` the phase the returned
error comes from. The actions are:

| Action | Code |
|---|---|
| `Connect`, `Verify`, `TimeOut` | `database.Open`, `verify`, its deadlines |
| `Login`, `Check`, `Begin` | runner.go:24-38 |
| `ConfigureSeed`, `Seed` | runner.go:44-50, one step for each fixture |
| `ConfigureOwner`, `Control`, `ConfigureAdversary` | runner.go:53-64 |
| `Attack` | one turn of the loop in `attacks.Run` |
| `Insert` | one turn of runner.go:66-70 with `attacks.Insert` |
| `Conclude` | runner.go:72-81 |
| `Rollback`, `Close` | the deferred calls |
| `Stall`, `Hung` | the server stops answering, with and without a deadline |

`Check` answers all questions in one step; the connection may drop at any
question (`cut`), after which every later one fails. A question that fails alone
is a target that answers differently: an unreadable table, a missing privilege,
an unknown login. That this is what the questions add up to is `Gate`'s `OneStep`.

An attack statement ends in one of the ways of `Results`: what the policies make
of it, what an aborted transaction or a lost connection makes of it, or a hazard.
`RunVerdicts` and `InsertVerdicts` then are the code's classification. Each piece
of evidence carries two fields the code does not have, `cause` (how the statement
really ended) and `proper` (whether the session was exactly the adversary's).
No action reads them; the properties do.

`Hazards` selects what may go wrong besides RLS: `error`, `late` (while rows are
fetched), `privilege` (42501 not raised by a policy), `encode` (pgx cannot send
an argument), `lost`, `stall`.

*Gate* (`Gate`). `step`, `a` and `q` are the question, its attack and its privilege;
`catalog` is what the server would answer now, `seen` every catalog since the check
began. `AskLogin`, `AskMembers`, `AskTable`, `AskTriggers`, `AskRules`, `AskPrivilege`
are the questions of gate.go:35-72 in their order; of the eight queries of
`Inspector.Table` the first and the last two have an answer the gate uses. `Change` is
one statement of another session, `Lose` the connection. A list of memberships that
breaks off is any part of the list, since its error is dropped.

*Validation* (`ProfileCheck`, `Statements`). One action for each loop of `Validate`;
`CheckKeys` takes the tables in any order, as Go's maps do. A diagnostic is
`<<part, index, field, message>>`. `Statements` says when a builder of `sqlsafe`
succeeds and which rows its WHERE clause picks; null equals nothing.

*Processes* (`Cli`, `Artifacts`). Processes run one after another and share `files`.
`Start` picks the arguments, `ParseFlag`, `ParseValue` and `Reject` take them from the
left, `Resolve` does what parseRunOptions does after its loop, with any content of the
environment variable. `Answer` is the executor. `os.WriteFile` is two steps, since
opening the file empties it; `Kill` may come at any point. `Artifacts` keeps which
finding or evidence becomes a line, and at which level.

*Harness* (`Harness`, `Transaction`). `pc` is the next call of `Run`. An operation may
write, fail and swallow the error (`Work`), end the transaction through the `pgx.Tx` or
by a statement (`End`), end it and begin another (`Restart`), or end it and lose the
connection (`EndAndBreak`). `closed` is what `pgx.Tx` knows, `block` what the server
knows; they part ways when an operation uses SQL, or the connection that `tx.Conn()`
hands out, also of a closed `pgx.Tx`. The refinement of `Batch` takes the run for *spoiled* as soon as that happened, an
error is on its way or the connection is gone; a spoiled batch must answer with an error.

*Probes* (`Probes`). The append is two steps, reading the slice and writing it back, so
that the mutex has something to protect. A probe returns nil or an error, leaves by
`runtime.Goexit` (`Finish`), panics (`Panic`), or never ends.

*Planner* (`FixturePlan`). `incoming` and `ready` are the variables of `Plan`; a name
joins `ready` when its count passes zero, and the smallest is taken, which is what
sorting before each round amounts to.

*HTTP* (`Postgrest`, `Http`). An exchange says which request the service carried out in
the end and what came back: nothing, a redirect that was followed with GET, a refusal
for another reason, an error, a body that does not decode. `Result` is the
classification in `Execute`; its fields `served`, `reply` and `access` say what really
happened and only the properties read them.

## Runs

Deadlock is checked in every run but `cli`, which ends after `MaxInvocations`
processes. Where the code has returned, the model stutters.

| Run | World | Distinct states | What it shows |
|---|---|---|---|
| `core` | `Runner`; hazards error, lost, stall | 70 252 | types; a pass is true, a fail is real; evidence is complete; the database is untouched; a lost connection never concludes; writes are authorised; `Execute` implements `Verifier`; it returns, and keeps no connection, unless the server stops answering after `Open` |
| `masks` | `Runner`; all hazards, settings that leak | 101 858 | a wrong pass is always masked by a named blind spot (`Blind`); an attack runs as the adversary, and evidence is about nobody else exactly if the adversary names every setting of the owner (`Covered`); the invariant of the proofs holds in every reachable state |
| `gate` | `Gate`; two changes by other sessions, a connection that drops | 1 121 771 | with a still catalog the questions add up to `Preflight`; otherwise a pass means that no fault lasted through the check, a finding that its fault was there at some moment; an unanswered question never passes |
| `profile` | `ProfileCheck`; 7 002 documents | 50 706 | what `Validate` accepts has the shape `Runner` assumes, its statements can be built and pick one fixture; what it rejects could not be run |
| `cli` | `Cli`; two processes, good and bad arguments, failing reads and writes, kills | 463 295 | the executor is called only with `--allow-write` given as a flag and with the profile and URL named last; 0 and 1 only if report, standard output and file agree; files change only at `--output`; annotations, SARIF, terminal and advice agree with the verdict |
| `harness` | `Harness`; three operations, loss, cancellation, operations that end the transaction | 3 206 | a run without error had every operation and left nothing; a connection that is lost or inside a transaction block comes with an error, and the latter in one way only; it returns if the operations do; it implements `Batch` |
| `probes` | `Probes`; up to three workers, and none | 2 239 | every error once; nothing goes on after the return; all start together; it returns if the probes do, or the process has panicked |
| `plan` | `FixturePlan`; lists of up to four fixtures | 80 656 | dependencies first, the first by name of those that could come next, an error exactly for malformed lists and circles; it ends |
| `http` | `Postgrest`; three operations, every fault | 2 175 552 | denials are earned but for the named blind spots; a reported access was one, or a redirected read of a row that could be read; what is published arrived, or the endpoint moved |
| `failed_read`, `bypass_identity`, `http_delete` | one hazard each | – | see [below](#where-the-documents-and-the-code-part) |

Bounds, and why they are enough:

* `core`, `masks`: at most two tables, two fixtures, four operations, four roles and
  two settings. That is enough for every case the code tells apart: an operation
  repeated and one on each of two tables (the evaluator compares names over all
  tables), two fixtures of one table, fixtures in another order than the attacks, an
  attack that spoils the next one's row (`Linked`), an insert before other operations
  (`InsertFirst`), a payload that cannot be built (`NoPayload`), one role told apart
  by settings and two roles, settings that leak (`Leaky`). The loops carry nothing
  from one attack to the next but the session, the rows, the control flag and the
  evidence; a third table adds no new relation. The targets fail each condition of the
  gate in turn, two more are harmless. Evidence, rows and loops are bounded by the
  profile, so no counter needs a bound.
* `gate`: `MaxChanges = 2`. A fault can appear or vanish (one change), and can do both,
  or vanish while another appears (two), between any two questions. Profiles: one table
  with two operations, and two tables of which the login role owns the fixtures.
* `profile`: at most two attacks and three fixtures over two tables, with keys of
  none to two columns, missing and null values, names that are none. Fixtures are
  compared in pairs, and with the first attack on their table; three of them let a
  table have two with one of another table in between. In the header one thing is
  wrong at a time.
* `cli`: `MaxInvocations = 2`, since a file has at most one writer and one later
  reader or writer; argument lists of four starts and every two of twelve groups;
  reports for one table from the verdict functions themselves, and three no consumer
  could read.
* `harness`: `N = 3`, so that an operation has one before and one after it.
* `probes`: `N = 3`: two that append and one that does not.
* `plan`: every graph of four fixtures; every order of three with up to two listed
  dependencies each, repeated and on themselves; every malformed list of up to two.
* `http`: four orders of three operations, so that writes spoil what later ones see.

`PassMeansUnexposed` and `KeepsPromise` are only claimed without `late`,
`privilege` and `encode` and with profiles whose adversary overrides every
setting of the owner: with them they are false, and `PassIsEarned` says exactly
how far. `Blind` lists the four ways a denial can say nothing: a session that was
not the adversary's; a SELECT whose error surfaced in `rows.Err` or that ran in
an aborted transaction; an insert stopped by a privilege or by its encoding.
`Postgrest` has a `Blind` of its own, for requests.

## Fairness

* `Runner`: `WF(Proceed)`: Execute is one goroutine without locks or channels;
  while the server answers, its next step is always enabled and the Go scheduler
  takes it. `WF(TimeOut)`: `Open` waits under contexts with a 10 s deadline
  (connection.go:38-44, 105-107), which fires. Nothing is assumed of `Stall`, of
  the outcome of a statement or of the server, and no fairness lets a stalled
  statement end where no deadline applies.
* `Harness`: `WF(Step)`: the calls `Run` makes come back, with an answer or an error.
  `Operate` is not in it: `ReturnsIfOperationsDo` has the operations as its premise.
* `Probes`: weak fairness of the caller and of each worker's own steps, since the
  scheduler runs every goroutine that can run. Weak is enough for `lock.Lock()`:
  a worker locks once, so a mutex that keeps coming free stays free in the end.
  `Finish` is not in it: what a probe does is the caller's.
* `FixturePlan`: `WF(Step)`: a function of one goroutine.
* `Gate`, `ProfileCheck`, `Postgrest` and `Cli` make no liveness claim and have no
  fairness: a process may be killed at any point, the gate has no deadline (see `ReturnsUnlessHung`), the HTTP clients use whatever
  timeout the caller's `http.Client` has, by default none.

## Proofs

Every safety invariant, action property and refinement that a passing run checks is
also a theorem, for every value of the constants that meets the named assumptions of
the modules. Each assumption is evaluated by TLC in the run of its component.

| Module | Assumptions it rests on | What they exclude |
|---|---|---|
| `RunnerProofs` | `ProfilesAssumption`, `HazardsAssumption`, `UnsetAssumption`, `LoginRoleAssumption` | profiles validation rejects (see `AcceptedIsProfileHolds`) |
| `GateProofs` | `ProfilesAssumption` | the same; the number of changes by other sessions is not bounded |
| `ProfileCheckProofs` | `DocumentsAssumption` | what does not decode: lists are finite lists, flags are Booleans; a role that is an identifier and a setting's value are among the `Roles` and `GucValues` of `Domain` |
| `CliProofs` | `LinesAssumption` | nothing: an argument list is a list of strings; any number of processes |
| `HarnessProofs` | `NAssumption` | nothing: the number of operations is a natural number |
| `ProbesProofs` | `NAssumption` | nothing: `N` bounds the number of workers, none and fewer than none included |
| `FixturePlanProofs` | `InputsAssumption` | names are numbers, so that they can be compared |
| `PostgrestProofs` | `ProbesAssumption` | lists whose members are not operations |

None of the properties is inductive: they speak of an answer, and what makes it
right happened many steps before. Each module therefore has an invariant `IInv` in
named parts, and the properties are read off it. TLC checked each `IInv` over the
states of the component's run before it was proved; that of `Runner` stays in
run `masks`.

### A run (`RunnerProofs`)

| Theorem | States |
|---|---|
| `TypeCorrect` | `Spec => []TypeOK` |
| `Inductive` | `Spec => []IInv` |
| `NothingSurvives` | `Spec => []DatabaseUntouched` |
| `PassEarned`, `FailReal` | `Spec => []PassIsEarned`, `Spec => []FailIsReal` |
| `NoEvidenceMissing` | `Spec => []EvidenceComplete` |
| `LossInconclusive` | `Spec => []LostNeverConcludes` |
| `AttacksAsAdversary` | `Spec => []AttacksRunAsAdversary`, with and without `Covered` |
| `PassUnexposedAlways` | `Spec => [](Covered => PassMeansUnexposed)`, assuming none of `late`, `privilege`, `encode` |
| `WritesAuthorised` | `Spec => OnlyAuthorisedWrites` |
| `ImplementsVerifier` | `Spec => KeepsPromise`, assuming the same and that every profile's adversary overrides the owner's settings |
| `ReportsAreOfExecute` | `Spec => [](report # NoReport => OfExecute(report))` |

`IInv` carries the argument:

* `InTransaction`: rows exist only inside the transaction (gives
  `DatabaseUntouched`).
* `PastGate`: with a connection that survived the gate, the target is
  authorised; `GateSound` proves that a pass with every question answered
  implies every condition of the gate.
* `Remembered`: `ownerRow[a]` is the last fixture of table `a`.
* `Recorded`: the evidence is exactly the slots the two loops have been through
  (`Tried`), one piece each.
* `RowKept`: the row the control saw stays until an attack that was not denied
  touches it. So a denial before the first success is about a row that is there.
* `Honest`: a denial means that the policies refuse, or is blind, or the
  connection is gone, or an earlier attack succeeded, which rules a pass out.
* `Traced`: a success, or a row taken by one, means there is a breach.
* `Broken`: a transaction aborted during the reads was broken by a failure the
  evaluator will see, or by a late error, which is what makes an aborted SELECT
  harmless without the hazard `late`.
* `Context`: a setting the adversary does not name has the owner's value from the first
  switch on, any other that of the last switch; so a session is `Proper` exactly if
  `Covered` (`SwitchedProper`).
* `Judged`: what the report claims is grounded in all of this.

Each part has its own lemma, one step for each action; `IInvStep` puts them
together, and the theorems read the properties off `Grounded`. The refinement
maps `Close`, `TimeOut` and the failures of `Connect` and `Verify` to `Answer`
and every other step to a stutter.

### The gate (`GateProofs`)

`NoAnswerNoPass`, `FindingsWereTrueHolds`, `PassSawEverythingHolds` and
`QuestionsAddUp` state `UnansweredNeverPasses`, `FindingsWereTrue`,
`PassSawEverything` and `OneStep`. `Folded` says that the outcome is the fold of the
findings added so far, `Missing` that the first unanswered question lies behind and, but
for the memberships, has cost the pass (the table that comes next costs it then), `Described` that the table in hand is as some catalog in `seen` had it,
`Justified` that each finding was true in one, `Seen` that what the questions so far did
not complain about was absent in one. `SoFar` is the part `OneStep` needs: with a still
catalog the findings are, at every question, those of `PreflightFindings` restricted to
the questions already asked. The two theorems about truth do not use it.

### Validation (`ProfileCheckProofs`)

`OrderIsIrrelevant` says that the diagnostics and the verdict are a function of the
document (`Problems`), whatever order the map of tables is gone over in. From it follow
`AcceptedIsProfileHolds`, `StatementsBuildHolds` and `AttacksPickOneHolds`: no problem
means that every check passed (`Clean`). `RejectedForReasonHolds` goes the other way,
one lemma for each part of a document: every diagnostic has a reason behind it. The first
attack on a table, the last fixture of one and the first of two equal rows are least or
greatest elements, which exist because positions are well-founded.

### The command line (`CliProofs`)

`ConsentHolds`, `ExitHolds`, `OnlyOutputHolds` and `ClaimsHold` state `ConsentGiven`,
`ExitTellsTheTruth`, `OnlyOutputIsWritten` and `ClaimsMatchVerdict`. The parser moves
from the left one or two arguments at a time, the properties speak of the list as a
whole: an argument is a flag if it is an even number of places from the start of the
unbroken row of value flags before it. `Parsed` says that the parser stands at a
flag and that its options are those of the arguments before it; `Calls` and `Written`
tie the call, the report and the files to the phase; `Over` says how a process may end.
`ClaimsHold` assumes of the set of reports only that each is of `Execute` (`OfExecute`,
proved of `Runner`) or one that `Check` refuses.

### The harness (`HarnessProofs`)

`CleanReturnHolds`, `LeftOpenIsReportedHolds` and `RunKeepsBatch` state `CleanReturn`,
`LeftOpenIsReported` and the refinement `KeepsBatch`, for every number of operations.
`IInv` says at each call what is known if nothing was spoiled: there is one savepoint, it is
that of operation `n`, and it keeps the rows found before it (`BetweenOperations`,
`InOperation`, `AfterOperation`); the list of errors names operations that are over
(`Recorded`). Only a savepoint call that failed brings a closed `pgx.Tx` to the deferred
rollback, and no second error joins it (`InTheEnd`). In the refinement an operation takes place when its savepoint is released
and the batch is spoiled or answered where the harness's state says so; all else stutters.

### The probes (`ProbesProofs`)

`ErrorsAreGathered`, `NothingOutlivesRun` and `ProbesStartTogether` state
`EveryErrorOnce`, `NothingGoesOn` and `StartTogether` for every number of workers;
`OneAppendAtATime` is the mutual exclusion behind the first. `Counted` says that the
wait group's counter is the number of workers inside, so that zero means that all are
gone; `Exclusive` that the holder of the mutex is the only one between read and write,
and that what it read is still the list (`Gathered`).

### The planner (`FixturePlanProofs`)

`DependenciesComeFirst`, `PlanIsDeterministic` and `PlanOrErrorHolds` state
`DependenciesFirst`, `Deterministic` and `PlanOrError` for every list of fixtures.
`Counting`: a count is the number of places in the dependency list whose fixture is not
planned yet, and `ready` holds exactly the unplanned names for which it is zero. `Once`
bounds the plan; `OutOfCircles` says that nothing on a circle is ever planned; `Answered`
ties the answer to both. That a plan that stays short *has* a circle is shown with the
set of names left over, each of which depends on another of them.

### HTTP (`PostgrestProofs`)

`DenialIsEarnedHolds`, `EffectsAreSeenHolds`, `AccessIsRealHolds` and
`PublishedIsReceivedHolds` state the four properties of the run, for operation lists of
any length and any set of faults. They hold together once `Blame` is added: a row that
is not what it was has an operation before it that was not denied, or blindly.

### What is only model-checked

* Liveness (`ReturnsUnlessHung`, `ReturnsIfOperationsDo`, `ReturnsIfProbesDo`,
  `Terminates`), which is out of the prover's reach.
* The violated claims are counterexamples and need no proof.

## Where the documents and the code part

Three sentences are checked and found violated, each with no hazard but the one it
speaks of.

| Run | Sentence | What the code does |
|---|---|---|
| `failed_read` | docs/usage.md:57 | `rows.Err` is not read, so a SELECT that fails while it is fetched is a denial (attacks/run.go:34) |
| `bypass_identity` | docs/project-overview.md:138-139 | only the login role is inspected (gate.go:35) |
| `http_delete` | types.go:124, docs/architecture.md:93 | a DELETE over HTTP does not ask for its rows, so it is always denied (client.go:70) |

Others met on the way have no run of their own. The first seven are within the models,
where they appear as one of the blind spots, as an end without a report, as an
assumption or as the exception a property names; the rest is outside.

* An insert pgx could not encode, and one stopped by a missing privilege, are denials
  (attacks/run.go:96, 100; docs/todo.md:146, 82). `PassIsEarned` names both.
* Settings of the owner the adversary does not override stay in force
  (configure.go:28; docs/project-overview.md:101-102). The theorems about passes
  assume that it overrides them.
* A policy error aborts the rest of the matrix, there are no savepoints
  (runner.go:65; docs/project-overview.md:103-105).
* A fixture the owner may not insert is an error without a report
  (runner.go:48; docs/project-overview.md:136-137).
* After `Open` nothing has a deadline (runner.go:25; connection.go:98-99).
* Only the last fixture of a table is attacked (seeder.go:32; README.md:20-21).
* The outer transaction is not always rolled back (harness.go:14-16), since an operation
  can commit it. If it closes the `pgx.Tx` and begins another through `tx.Conn()`, the
  deferred rollback is told `ErrTxClosed`, which it ignores (harness.go:23-25), and the
  connection goes back inside a block. The savepoint call has failed by then, and its
  error is returned: `LeftOpenIsReported`.
* Foreign tables pass without acknowledgement (gate.go:62; docs/architecture.md:28-29).
* A report can be inconclusive without a line in any artifact
  (docs/project-overview.md:121): `ClaimsMatchVerdict` says when, namely when the
  control failed or evidence is missing and every attack made was denied. Evidence that
  failed is shown as `exposed`, with an error and with advice on policies.
* A DELETE to PostgREST names its schema in Accept-Profile, where PostgREST reads it
  from Content-Profile (client.go:61).

## Limits

* `Runner`'s world is fixed from the gate's answer on: no other session changes the
  catalog, the policies or the attacked rows. `Gate` shows what that assumption is
  worth: the gate holds no lock, so a catalog in which each fault is mended just before
  it is asked for, while another appears, passes. `PassSawEverything` states what is left.
* A predicate over the profile's `primary_key` picks one *fixture*
  (`AttacksPickOneFixture`). The table may hold rows that are not the run's; the code
  does not compare the key with the table's, and neither do the models. Key values are
  compared as values of the document, so 1 and 1.0 are two there and one in the table.
  validate.go:179-189 compares them as text with their types, in which two lists, or two
  strings with a zero byte, may look the same; such fixtures are then rejected.
* Policies are data, not expressions: what they decide is any subset. A policy
  may decide either way about a row an attack has rewritten, and about a session
  that is not exactly the adversary's.
* Direct memberships are all the gate knows (inspector.go:180): a role the login
  may assume through another role is reported as `role_not_assumable`. This only
  blocks runs that could be made, and docs/architecture.md:23-24 can be read
  either way.
* Triggers and rules do not run: the gate blocks tables that have them.
* Statements of the harness's operations are not looked into: an operation may do
  anything to its transaction but open a savepoint named like the harness's own.
  Rows it leaves unread make the next call fail, which is modelled as a connection that
  drops at that call: the rollback fails as well and takes the connection with it.
* `Http` takes redirects to be followed with GET (301, 302, 303); one that keeps the
  method (307, 308) is an exchange like any other.
* Identifiers, quoting, YAML, templates, durations, report texts and redaction are
  left out; `search_path` is the same for both identities.
* Not modelled: `report_json` (string replacement), `views`, `functions` (stateless
  queries) and `advisory` (string tests): they keep nothing, call nothing that does,
  and what could be wrong with them is in their SQL and their texts.

## Plan

Done: a run with its refinement, invariant and proofs; the gate against a changing
catalog; validation; the command line; the harness with its refinement; the probes;
the fixture planner; the HTTP packages; the theorems of all of them.

What is left:

1. `Gate` as a refinement of `Check`: the questions as stutters and the last one as the
   one step, where `QuestionsAddUp` states the end result as an invariant.
2. `Probes`: an abstract specification (a bag of errors and a return), with the workers
   mapped to it.
