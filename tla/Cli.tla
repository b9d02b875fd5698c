--------------------------------- MODULE Cli --------------------------------
(***************************************************************************)
(* internal/cli and cmd/pg-canary: one process after another, each started *)
(* with some arguments, that share the output files they write.  A process *)
(* may be killed at any moment, a read or a write may fail, and standard   *)
(* output may break off.                                                   *)
(*                                                                         *)
(* An argument is a flag, a command, or one of a few values: "" is empty,  *)
(* " " only blank.  What a process writes is the number of that process:   *)
(* the rendered report of an invocation.                                   *)
(***************************************************************************)
EXTENDS Artifacts, Naturals, Sequences

CONSTANTS
    Lines,            \* argument lists a process may be started with
    Reports,          \* reports the executor may return
    MaxInvocations    \* bound on the processes started

ASSUME LinesAssumption == Lines \subseteq Seq(STRING)

Blanks == {"", " "}
Values == Blanks \cup {"v"} \cup UNION {{line[i] : i \in 2 .. Len(line)} : line \in Lines}

VARIABLES
    run,          \* how many processes have been started
    phase,        \* where the process is
    args,         \* its arguments
    index,        \* the next argument to parse
    options,      \* RunOptions, and the variable --db-url-env names
    environment,  \* what that variable was found to hold; "" if it is not set
    called,       \* the options the executor was called with, if it was
    report,       \* what it answered
    files,        \* the report in each output file, and whether it is whole
    stdout,       \* how much of the output was written
    code          \* the exit code, or Running

vars == <<run, phase, args, index, options, environment, called, report, files, stdout, code>>
process == <<run, args, environment>>

\* domain.Report{}; of the summary only matters whether it is blank.
None == [version |-> 0, outcome |-> "", summary |-> "", findings |-> {}, operations |-> {}]
Running == 3

NoOptions == [profile |-> "", url |-> "", env |-> "", output |-> "", allow |-> FALSE, json |-> FALSE]

\* A file of an invocation before the first one modelled: 0.
Init ==
    /\ run = 0 /\ phase = "idle" /\ args = << >> /\ index = 1
    /\ options = NoOptions /\ environment = "" /\ called = {}
    /\ report = None /\ files = [v \in Values |-> [by |-> 0, whole |-> TRUE]]
    /\ stdout = "nothing" /\ code = Running

Start ==
    /\ phase = "idle" /\ run < MaxInvocations
    /\ run' = run + 1 /\ args' \in Lines
    /\ phase' = "command" /\ index' = 2
    /\ UNCHANGED <<environment, options, called, report, files, stdout, code>>

\* Of a process that is over only the files stay behind.
Reap ==
    /\ phase = "over" /\ phase' = "idle" /\ args' = << >> /\ index' = 1
    /\ options' = NoOptions /\ environment' = "" /\ called' = {}
    /\ report' = None /\ stdout' = "nothing" /\ code' = Running
    /\ UNCHANGED <<run, files>>

\* main maps every error that is not an ExitError to 2.
Exit(status) == phase' = "over" /\ code' = status

Fail == Exit(2) /\ UNCHANGED <<index, options, called, report, files, stdout>>

GoTo(next) == phase' = next /\ UNCHANGED code

\* Texts that are no report: usage, "profile is valid".
Say ==
    /\ \/ Exit(0) /\ stdout' = "whole"
       \/ Exit(2) /\ stdout' \in {"nothing", "part"}
    /\ UNCHANGED <<index, options, called, report, files>>

Names(command) == IF command = "help" THEN {"help", "-h", "--help"} ELSE {command}

Asked(command) == IF args = << >> THEN command = "help" ELSE args[1] \in Names(command)

Help == phase = "command" /\ Asked("help") /\ Say /\ UNCHANGED process

Unknown ==
    /\ phase = "command" /\ ~\E command \in {"help", "validate", "run"} : Asked(command)
    /\ Fail /\ UNCHANGED process

Validate ==
    /\ phase = "command" /\ Asked("validate")
    /\ IF Len(args) = 3 /\ args[2] = "--profile" /\ args[3] \notin Blanks
       THEN Say \/ Fail
       ELSE Fail
    /\ UNCHANGED process

RunProfile ==
    /\ phase = "command" /\ Asked("run") /\ GoTo("parse")
    /\ UNCHANGED <<process, index, options, called, report, files, stdout>>

(***************************************************************************)
(* parseRunOptions: a flag with a value takes the next argument, whatever  *)
(* it looks like; the last of several wins.                                *)
(***************************************************************************)
ValueFlags == {"--profile", "--db-url", "--db-url-env", "--output"}

Field(flag) ==
    CASE flag = "--profile"    -> "profile"
      [] flag = "--db-url"     -> "url"
      [] flag = "--db-url-env" -> "env"
      [] flag = "--output"     -> "output"

Flag == args[index]

ParseFlag ==
    /\ phase = "parse" /\ index <= Len(args) /\ Flag \in {"--allow-write", "--json"}
    /\ options' = IF Flag = "--json" THEN [options EXCEPT !.json = TRUE]
                  ELSE [options EXCEPT !.allow = TRUE]
    /\ index' = index + 1
    /\ UNCHANGED <<process, phase, called, report, files, stdout, code>>

\* Mutant: the next argument is never reached.
ParseValueAgain ==
    /\ phase = "parse" /\ index < Len(args) /\ Flag \in ValueFlags
    /\ options' = [options EXCEPT ![Field(Flag)] = args[index + 1]]
    /\ UNCHANGED <<process, phase, index, called, report, files, stdout, code>>

ParseValue ==
    /\ phase = "parse" /\ index < Len(args) /\ Flag \in ValueFlags
    /\ options' = [options EXCEPT ![Field(Flag)] = args[index + 1]]
    /\ index' = index + 2
    /\ UNCHANGED <<process, phase, called, report, files, stdout, code>>

Reject ==
    /\ phase = "parse" /\ index <= Len(args)
    /\ \/ Flag \in ValueFlags /\ index = Len(args)
       \/ Flag \notin ValueFlags \cup {"--allow-write", "--json"}
    /\ Fail /\ UNCHANGED process

\* Mutant: a URL from the environment silently overrides the one given.
AcceptableTwice ==
    /\ options.profile \notin Blanks
    /\ options.env # "" => environment' \notin Blanks
    /\ options.env = "" => options.url # ""
    /\ options.allow

\* A blank URL on the command line is taken, a blank one in the environment not.
Acceptable ==
    /\ options.profile \notin Blanks
    /\ options.url = "" \/ options.env = ""
    /\ options.env # "" => environment' \notin Blanks
    /\ options.env = "" => options.url # ""
    /\ options.allow

Resolve ==
    /\ phase = "parse" /\ index > Len(args)
    /\ environment' \in IF options.env = "" THEN {""} ELSE {"", " ", "v"}
    /\ IF Acceptable
       THEN /\ GoTo("load")
            /\ options' = [options EXCEPT !.url = IF options.env = "" THEN @ ELSE environment']
            /\ UNCHANGED <<index, called, report, files, stdout>>
       ELSE Fail
    /\ UNCHANGED <<run, args>>

\* profile.LoadFile: the file is read, decoded and validated.
Load ==
    /\ phase = "load"
    /\ \/ GoTo("call") /\ UNCHANGED <<index, options, called, report, files, stdout>>
       \/ Fail
    /\ UNCHANGED process

Call ==
    /\ phase = "call" /\ GoTo("execute") /\ called' = {options}
    /\ UNCHANGED <<process, index, options, report, files, stdout>>

\* The executor comes back with an error or with a report, which need not be a
\* valid one if it is not the runner's.
Answer ==
    /\ phase = "execute"
    /\ \/ Fail
       \/ /\ GoTo("check") /\ report' \in Reports
          /\ UNCHANGED <<index, options, called, files, stdout>>
    /\ UNCHANGED process

Valid(value) ==
    /\ value.version = 1
    /\ value.outcome \in {"pass", "fail", "inconclusive", "blocked"}
    /\ value.summary \notin Blanks

\* Mutant: a report that cannot be interpreted is rendered all the same.
CheckNothing ==
    /\ phase = "check"
    /\ GoTo(IF options.output = "" THEN "print" ELSE "open")
    /\ UNCHANGED <<process, index, options, called, report, files, stdout>>

\* Report.Validate, and formatReport, which cannot fail.
Check ==
    /\ phase = "check"
    /\ IF Valid(report)
       THEN /\ GoTo(IF options.output = "" THEN "print" ELSE "open")
            /\ UNCHANGED <<index, options, called, report, files, stdout>>
       ELSE Fail
    /\ UNCHANGED process

\* os.WriteFile: opening the file empties it.
Open ==
    /\ phase = "open"
    /\ \/ /\ GoTo("write") /\ files' = [files EXCEPT ![options.output] = [by |-> run, whole |-> FALSE]]
          /\ UNCHANGED <<index, options, called, report, stdout>>
       \/ Fail
    /\ UNCHANGED process

\* Mutant: an output file that cannot be filled is only a warning.
WriteOrGoOn ==
    /\ phase = "write" /\ GoTo("print")
    /\ \/ files' = [files EXCEPT ![options.output].whole = TRUE]
       \/ UNCHANGED files
    /\ UNCHANGED <<process, index, options, called, report, stdout>>

\* A write that fails may leave less than the report, or all of it.
Write ==
    /\ phase = "write"
    /\ \/ /\ GoTo("print") /\ files' = [files EXCEPT ![options.output].whole = TRUE]
          /\ UNCHANGED <<index, options, called, report, stdout>>
       \/ Exit(2) /\ files' \in {files, [files EXCEPT ![options.output].whole = TRUE]}
    /\ UNCHANGED <<process, index, options, called, report, stdout>>

ExitCode(outcome) ==
    CASE outcome = "pass" -> 0
      [] outcome = "fail" -> 1
      [] OTHER            -> 2

PrintReport ==
    /\ phase = "print"
    /\ \/ Exit(ExitCode(report.outcome)) /\ stdout' = "whole"
       \/ Exit(2) /\ stdout' \in {"nothing", "part"}
    /\ UNCHANGED <<process, index, options, called, report, files>>

\* The job that started the process is cancelled: no exit code of its own.
Kill ==
    /\ phase \notin {"idle", "over"} /\ phase' = "over"
    /\ UNCHANGED <<process, index, options, called, report, files, stdout, code>>

Step ==
    \/ Help \/ Unknown \/ Validate \/ RunProfile
    \/ ParseFlag \/ ParseValue \/ Reject \/ Resolve
    \/ Load \/ Call \/ Check \/ Open \/ Write \/ PrintReport

Next == Start \/ Reap \/ Step \/ Answer \/ Kill

Spec == Init /\ [][Next]_vars
-----------------------------------------------------------------------------
(***************************************************************************)
(* What the arguments of a run say, read without parsing them from the     *)
(* left: an argument is a flag if an even number of value flags stands     *)
(* immediately before it.                                                  *)
(***************************************************************************)
IsFlag(i) ==
    LET first == CHOOSE f \in 2 .. i :
            /\ \A j \in f .. i - 1 : args[j] \in ValueFlags
            /\ f = 2 \/ args[f - 1] \notin ValueFlags
    IN  (i - first) % 2 = 0

Given(flag) == {i \in 2 .. Len(args) : args[i] = flag /\ IsFlag(i)}

Last(flag) ==
    IF Given(flag) = {} THEN ""
    ELSE args[1 + CHOOSE i \in Given(flag) : \A j \in Given(flag) : j <= i]

\* The database is only ever contacted when --allow-write was given as a flag
\* (not as the value of another one), with the profile and the URL that were
\* named last, and with one source for the URL (cli.go:124-171).
ConsentGiven ==
    \A call \in called :
        /\ Given("--allow-write") # {}
        /\ call.profile = Last("--profile") /\ call.profile \notin Blanks
        /\ Last("--db-url") = "" \/ Last("--db-url-env") = ""
        /\ call.url = IF Last("--db-url-env") = "" THEN Last("--db-url") ELSE environment
        /\ call.url # ""

Delivered ==
    /\ Valid(report) /\ stdout = "whole"
    /\ Last("--output") # "" => files[Last("--output")] = [by |-> run, whole |-> TRUE]

\* A run exits with 0 or 1 only if this very run's report says so and stands in
\* full on standard output and in the file asked for, whatever an earlier run
\* left there; every other end is a 2 (main.go:12-21, cli.go:89-122).
ExitTellsTheTruth ==
    phase = "over" /\ Asked("run") /\ code # Running =>
        /\ code = 0 <=> Delivered /\ report.outcome = "pass"
        /\ code = 1 <=> Delivered /\ report.outcome = "fail"

\* A file changes only at the path named for output, and only once the executor
\* returned a valid report: neither a run that never got that far nor another
\* command damages what an earlier run left (cli.go:89-114).
OnlyOutputIsWritten ==
    [][\A v \in Values : files'[v] # files[v] =>
          /\ Asked("run") /\ v = Last("--output")
          /\ called # {} /\ Valid(report)]_vars

Errors(lines) == {l.about : l \in {x \in lines : x.level = "error"}}
Shown(level) == {l.about : l \in {x \in Terminal(report) : x.level = level}}

\* The artifacts of a report agree with its verdict: nothing alarming about a
\* pass, an error for whatever blocked a run, and for a fail exactly the accesses
\* that succeeded, each with advice.  A report other than pass without an error in
\* its annotations or its SARIF log is one of a run without findings in which every
\* attack that was made was denied: the control failed, or attacks are missing
\* (artifacts.go:14-61, terminal.go:11-39, guide.go:6-22).
ClaimsMatchVerdict ==
    Valid(report) =>
        /\ report.outcome = "pass" =>
              Errors(GitHubAnnotations(report)) = {} /\ Shown("exposed") = {}
        /\ report.outcome = "fail" =>
              LET accesses == {e \in report.operations : ~e.denied /\ ~e.error}
              IN  /\ accesses # {} /\ accesses = Shown("exposed")
                  /\ accesses = Errors(GitHubAnnotations(report))
                  /\ accesses = Guidance(report)
        /\ report.outcome # "pass" =>
              \A lines \in {GitHubAnnotations(report), SARIF(report)} :
                  Errors(lines) = {} =>
                      /\ report.outcome = "inconclusive" /\ report.findings = {}
                      /\ \A e \in report.operations : e.denied
=============================================================================
