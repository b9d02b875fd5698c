------------------------------ MODULE CliProofs ------------------------------
(***************************************************************************)
(* Proofs about Cli for all argument lists, any reports and any number of  *)
(* invocations.                                                            *)
(***************************************************************************)
EXTENDS Cli, Verdicts, Integers, TLAPS

-----------------------------------------------------------------------------
(***************************************************************************)
(* Flags of an argument list without CHOOSE: value flags stand from f up   *)
(* to i, and none right before f.                                          *)
(***************************************************************************)
First(line, f, i) ==
    /\ f \in 2 .. i /\ \A j \in f .. i - 1 : line[j] \in ValueFlags
    /\ f = 2 \/ line[f - 1] \notin ValueFlags

FlagAt(line, i) == \E f \in 2 .. i : First(line, f, i) /\ (i - f) % 2 = 0

Reached(line, n) == \A i \in 2 .. n : \E f \in 2 .. i : First(line, f, i)

Occurs(line, flag, i) == line[i] = flag /\ FlagAt(line, i)

\* The value of the last such flag before n; "" if there is none.
IsLast(line, flag, n, value) ==
    \/ value = "" /\ \A i \in 2 .. n - 1 : ~Occurs(line, flag, i)
    \/ \E i \in 2 .. n - 1 :
          /\ Occurs(line, flag, i) /\ value = line[i + 1]
          /\ \A j \in i + 1 .. n - 1 : ~Occurs(line, flag, j)

\* The next argument is a flag, and the options are those of the arguments before it.
ParsedUpTo(line, n, o) ==
    /\ n \in 2 .. Len(line) + 1 /\ Reached(line, n) /\ FlagAt(line, n)
    /\ IsLast(line, "--profile", n, o.profile) /\ IsLast(line, "--db-url", n, o.url)
    /\ IsLast(line, "--db-url-env", n, o.env) /\ IsLast(line, "--output", n, o.output)
    /\ o.allow => \E i \in 2 .. n - 1 : Occurs(line, "--allow-write", i)

\* Options that the arguments, all of them read, and the environment ask for.
Consented(line, o, variable) ==
    LET n == Len(line) + 1
    IN  /\ Reached(line, Len(line)) /\ \E i \in 2 .. Len(line) : Occurs(line, "--allow-write", i)
        /\ IsLast(line, "--profile", n, o.profile) /\ o.profile \notin Blanks
        /\ IsLast(line, "--output", n, o.output) /\ IsLast(line, "--db-url-env", n, o.env)
        /\ \E url \in Values :
              /\ IsLast(line, "--db-url", n, url)
              /\ url = "" \/ o.env = ""
              /\ o.url = IF o.env = "" THEN url ELSE variable
        /\ o.url # ""

(***************************************************************************)
(* The inductive invariant, in parts.                                      *)
(***************************************************************************)
Option ==
    [profile : Values, url : Values, env : Values, output : Values, allow : BOOLEAN, json : BOOLEAN]

Resolved == {"load", "call", "execute", "check", "open", "write", "print"}

TypeOK ==
    /\ run \in Nat /\ args \in Lines \cup {<< >>}
    /\ phase \in {"idle", "command", "parse", "over"} \cup Resolved
    /\ options \in Option
    /\ files \in [Values -> [by : Nat, whole : BOOLEAN]]

\* What cannot have happened yet.
Fresh ==
    /\ phase \in {"idle", "command"} => options = NoOptions
    /\ phase = "command" => index = 2
    /\ phase \in {"idle", "command", "parse", "load", "call"} => called = {}
    /\ phase # "over" => stdout = "nothing" /\ code = Running
    /\ phase \in {"parse"} \cup Resolved => Asked("run")

Parsed == phase = "parse" => ParsedUpTo(args, index, options)

Calls ==
    /\ phase \in Resolved => Consented(args, options, environment)
    /\ \A o \in called : Consented(args, o, environment)
    /\ phase \in {"execute", "check", "open", "write", "print"} => called # {}

\* The file asked for holds this run's report.
Filed == options.output # "" => files[options.output] = [by |-> run, whole |-> TRUE]

Written ==
    /\ phase \in {"open", "write", "print"} => Valid(report)
    /\ phase \in {"open", "write"} => options.output # ""
    /\ phase = "write" => files[options.output] = [by |-> run, whole |-> FALSE]
    /\ phase = "print" => Filed

Over ==
    phase = "over" /\ Asked("run") /\ code # Running =>
        IF stdout = "whole"
        THEN /\ Valid(report) /\ Consented(args, options, environment) /\ Filed
             /\ code = ExitCode(report.outcome)
        ELSE code = 2

IInv == TypeOK /\ Fresh /\ Parsed /\ Calls /\ Written /\ Over

-----------------------------------------------------------------------------
(***************************************************************************)
(* Reading an argument list from the left.                                 *)
(***************************************************************************)
LEMMA Parity ==
    ASSUME NEW d \in Int, d % 2 = 0
    PROVE  (d + 1) % 2 # 0 /\ (d + 2) % 2 = 0
OBVIOUS

LEMMA FirstIsUnique ==
    ASSUME NEW line, NEW i \in Nat, NEW f, NEW g, First(line, f, i), First(line, g, i)
    PROVE  f = g
<1>1. f \in Nat /\ g \in Nat /\ f >= 2 /\ g >= 2 /\ f <= i /\ g <= i
  BY DEF First
<1>2. ASSUME f < g PROVE FALSE
  <2>1. g - 1 \in f .. i - 1 /\ g # 2
    BY <1>1, <1>2
  <2> QED
    BY <2>1 DEF First
<1>3. ASSUME g < f PROVE FALSE
  <2>1. f - 1 \in g .. i - 1 /\ f # 2
    BY <1>1, <1>3
  <2> QED
    BY <2>1 DEF First
<1> QED
  BY <1>1, <1>2, <1>3

\* The argument after one that is no value flag is a flag.
LEMMA FlagAfterOther ==
    ASSUME NEW line, NEW n \in Nat, n >= 2, line[n] \notin ValueFlags
    PROVE  First(line, n + 1, n + 1) /\ FlagAt(line, n + 1)
<1>1. n + 1 \in 2 .. n + 1 /\ (n + 1) .. (n + 1) - 1 = {} /\ (n + 1) - 1 = n
      /\ (n + 1) - (n + 1) = 0
  OBVIOUS
<1>2. First(line, n + 1, n + 1)
  BY <1>1 DEF First
<1> QED
  BY <1>1, <1>2 DEF FlagAt

\* The argument after a value flag is its value, and the one behind it a flag.
LEMMA FlagAfterValue ==
    ASSUME NEW line, NEW n \in Nat, n >= 2, FlagAt(line, n), line[n] \in ValueFlags
    PROVE  /\ \E f \in 2 .. n + 1 : First(line, f, n + 1)
           /\ \E f \in 2 .. n + 2 : First(line, f, n + 2)
           /\ ~FlagAt(line, n + 1) /\ FlagAt(line, n + 2)
<1>1. PICK f \in 2 .. n : First(line, f, n) /\ (n - f) % 2 = 0
  BY DEF FlagAt
<1>2. First(line, f, n + 1) /\ f \in 2 .. n + 1
  <2>1. \A j \in f .. (n + 1) - 1 : j \in f .. n - 1 \/ j = n
    OBVIOUS
  <2> QED
    BY <1>1, <2>1 DEF First
<1>3. ~FlagAt(line, n + 1)
  <2>1. SUFFICES ASSUME NEW g \in 2 .. n + 1, First(line, g, n + 1), (n + 1 - g) % 2 = 0 PROVE FALSE
    BY DEF FlagAt
  <2>2. g = f
    BY <1>2, <2>1, FirstIsUnique
  <2>3. (n - f) + 1 = n + 1 - g /\ n - f \in Int
    BY <2>2
  <2> QED
    BY <1>1, <2>1, <2>3, Parity
<1>4. /\ \E g \in 2 .. n + 2 : First(line, g, n + 2)
      /\ FlagAt(line, n + 2)
  <2>1. CASE line[n + 1] \in ValueFlags
    <3>1. \A j \in f .. (n + 2) - 1 : j \in f .. (n + 1) - 1 \/ j = n + 1
      OBVIOUS
    <3>2. First(line, f, n + 2) /\ f \in 2 .. n + 2
      BY <1>2, <2>1, <3>1 DEF First
    <3>3. (n - f) + 2 = n + 2 - f /\ n - f \in Int
      OBVIOUS
    <3>4. (n + 2 - f) % 2 = 0
      BY <1>1, <3>3, Parity
    <3> QED
      BY <3>2, <3>4 DEF FlagAt
  <2>2. CASE line[n + 1] \notin ValueFlags
    <3>1. n + 1 \in Nat /\ n + 1 >= 2 /\ (n + 1) + 1 = n + 2 /\ n + 2 \in 2 .. n + 2
      OBVIOUS
    <3>2. First(line, (n + 1) + 1, (n + 1) + 1) /\ FlagAt(line, (n + 1) + 1)
      BY <2>2, <3>1, FlagAfterOther
    <3> QED
      BY <3>1, <3>2
  <2> QED
    BY <2>1, <2>2
<1> QED
  BY <1>2, <1>3, <1>4

LEMMA LastKept ==
    ASSUME NEW line, NEW flag, NEW value, NEW n \in Nat, n >= 2,
           IsLast(line, flag, n, value), ~Occurs(line, flag, n)
    PROVE  IsLast(line, flag, n + 1, value)
<1>1. \A i \in 2 .. (n + 1) - 1 : i \in 2 .. n - 1 \/ i = n
  OBVIOUS
<1>2. CASE value = "" /\ \A i \in 2 .. n - 1 : ~Occurs(line, flag, i)
  BY <1>1, <1>2 DEF IsLast
<1>3. CASE \E i \in 2 .. n - 1 :
              /\ Occurs(line, flag, i) /\ value = line[i + 1]
              /\ \A j \in i + 1 .. n - 1 : ~Occurs(line, flag, j)
  <2>1. PICK i \in 2 .. n - 1 :
            /\ Occurs(line, flag, i) /\ value = line[i + 1]
            /\ \A j \in i + 1 .. n - 1 : ~Occurs(line, flag, j)
    BY <1>3
  <2>2. i \in 2 .. (n + 1) - 1 /\ \A j \in i + 1 .. (n + 1) - 1 : j \in i + 1 .. n - 1 \/ j = n
    OBVIOUS
  <2>3. \A j \in i + 1 .. (n + 1) - 1 : ~Occurs(line, flag, j)
    BY <2>1, <2>2
  <2> QED
    BY <2>1, <2>2, <2>3 DEF IsLast
<1> QED
  BY <1>2, <1>3 DEF IsLast

LEMMA LastTaken ==
    ASSUME NEW line, NEW flag, NEW n \in Nat, n >= 2,
           Occurs(line, flag, n), ~Occurs(line, flag, n + 1)
    PROVE  IsLast(line, flag, n + 2, line[n + 1])
<1>1. n \in 2 .. (n + 2) - 1 /\ \A j \in n + 1 .. (n + 2) - 1 : j = n + 1
  OBVIOUS
<1>2. \A j \in n + 1 .. (n + 2) - 1 : ~Occurs(line, flag, j)
  BY <1>1
<1> QED
  BY <1>1, <1>2 DEF IsLast

\* At the end the flags are those of the reading from the right.
LEMMA FlagsAgree ==
    ASSUME Reached(args, Len(args)), NEW i \in 2 .. Len(args)
    PROVE  IsFlag(i) <=> FlagAt(args, i)
<1> DEFINE first == CHOOSE f \in 2 .. i :
              /\ \A j \in f .. i - 1 : args[j] \in ValueFlags
              /\ f = 2 \/ args[f - 1] \notin ValueFlags
<1>1. PICK f \in 2 .. i : First(args, f, i)
  BY DEF Reached
<1>2. first \in 2 .. i /\ First(args, first, i)
  BY <1>1 DEF First
<1>3. IsFlag(i) <=> (i - first) % 2 = 0
  BY DEF IsFlag
<1> HIDE DEF first
<1>4. i \in Nat
  OBVIOUS
<1>5. \A g : First(args, g, i) => g = first
  BY <1>2, <1>4, FirstIsUnique
<1> QED
  BY <1>2, <1>3, <1>5 DEF FlagAt

LEMMA LastIsLast ==
    ASSUME Reached(args, Len(args)), Len(args) \in Nat, NEW flag, NEW value,
           IsLast(args, flag, Len(args) + 1, value)
    PROVE  value = Last(flag)
<1>1. (Len(args) + 1) - 1 = Len(args)
  OBVIOUS
<1>2. Given(flag) = {i \in 2 .. Len(args) : Occurs(args, flag, i)}
  BY FlagsAgree DEF Given, Occurs
<1>3. CASE value = "" /\ \A i \in 2 .. Len(args) : ~Occurs(args, flag, i)
  BY <1>2, <1>3 DEF Last
<1>4. CASE \E i \in 2 .. Len(args) :
              /\ Occurs(args, flag, i) /\ value = args[i + 1]
              /\ \A j \in i + 1 .. Len(args) : ~Occurs(args, flag, j)
  <2>1. PICK i \in 2 .. Len(args) :
            /\ Occurs(args, flag, i) /\ value = args[i + 1]
            /\ \A j \in i + 1 .. Len(args) : ~Occurs(args, flag, j)
    BY <1>4
  <2>2. i \in Given(flag) /\ \A j \in Given(flag) : j <= i
    BY <1>2, <2>1
  <2> DEFINE c == CHOOSE k \in Given(flag) : \A j \in Given(flag) : j <= k
  <2>3. c \in Given(flag) /\ \A j \in Given(flag) : j <= c
    BY <2>2
  <2>4. Last(flag) = args[1 + c]
    BY <2>2 DEF Last
  <2> HIDE DEF c
  <2>5. c = i
    <3>1. c \in Nat /\ i \in Nat /\ c <= i /\ i <= c
      BY <1>2, <2>2, <2>3
    <3> QED
      BY <3>1
  <2>6. 1 + c = i + 1
    BY <2>5
  <2> QED
    BY <2>1, <2>4, <2>6
<1> QED
  BY <1>1, <1>3, <1>4 DEF IsLast

-----------------------------------------------------------------------------
(***************************************************************************)
(* The options after one flag more.                                        *)
(***************************************************************************)
LEMMA LineFacts ==
    ASSUME args \in Lines \cup {<< >>}
    PROVE  /\ args \in Seq(STRING) /\ Len(args) \in Nat
           /\ \A i \in 2 .. Len(args) : args[i] \in Values
           /\ {"", " ", "v"} \subseteq Values
<1>1. args \in Seq(STRING) /\ Len(args) \in Nat
  <2>1. << >> \in Seq(STRING)
    OBVIOUS
  <2>2. args \in Seq(STRING)
    BY <2>1, LinesAssumption
  <2> QED
    BY <2>2
<1>2. \A i \in 2 .. Len(args) : args[i] \in Values
  <2>1. CASE args \in Lines
    BY <2>1 DEF Values
  <2>2. CASE args = << >>
    BY <2>2
  <2> QED
    BY <2>1, <2>2
<1> QED
  BY <1>1, <1>2 DEF Values, Blanks

LEMMA AfterSwitch ==
    ASSUME NEW line, NEW n, NEW o, NEW o1, Len(line) \in Nat,
           ParsedUpTo(line, n, o), n <= Len(line), line[n] \in {"--allow-write", "--json"},
           o1.profile = o.profile, o1.url = o.url, o1.env = o.env, o1.output = o.output,
           o1.allow => o.allow \/ line[n] = "--allow-write"
    PROVE  ParsedUpTo(line, n + 1, o1)
<1>1. n \in Nat /\ n >= 2 /\ n + 1 \in 2 .. Len(line) + 1
  BY DEF ParsedUpTo
<1>2. line[n] \notin ValueFlags
  BY DEF ValueFlags
<1>3. First(line, n + 1, n + 1) /\ FlagAt(line, n + 1)
  BY <1>1, <1>2, FlagAfterOther
<1>4. Reached(line, n + 1)
  <2>1. \A i \in 2 .. n + 1 : i \in 2 .. n \/ i = n + 1
    BY <1>1
  <2>2. n + 1 \in 2 .. n + 1
    BY <1>1
  <2> QED
    BY <1>3, <2>1, <2>2 DEF ParsedUpTo, Reached
<1>5. \A flag \in ValueFlags : ~Occurs(line, flag, n)
  BY <1>2 DEF Occurs
<1>6. \A v : \A flag \in ValueFlags : IsLast(line, flag, n, v) => IsLast(line, flag, n + 1, v)
  BY <1>1, <1>5, LastKept
<1>7. /\ IsLast(line, "--profile", n + 1, o1.profile) /\ IsLast(line, "--db-url", n + 1, o1.url)
      /\ IsLast(line, "--db-url-env", n + 1, o1.env) /\ IsLast(line, "--output", n + 1, o1.output)
  BY <1>6 DEF ParsedUpTo, ValueFlags
<1>8. o1.allow => \E i \in 2 .. (n + 1) - 1 : Occurs(line, "--allow-write", i)
  <2>1. n \in 2 .. (n + 1) - 1 /\ \A i \in 2 .. n - 1 : i \in 2 .. (n + 1) - 1
    BY <1>1
  <2>2. CASE line[n] = "--allow-write"
    BY <2>1, <2>2 DEF ParsedUpTo, Occurs
  <2>3. CASE o.allow
    BY <2>1, <2>3 DEF ParsedUpTo
  <2> QED
    BY <2>2, <2>3
<1> QED
  BY <1>1, <1>3, <1>4, <1>7, <1>8 DEF ParsedUpTo

\* The value of a flag after that flag: what stands behind it, or what it was.
Now(line, n, flag, before) == IF line[n] = flag THEN line[n + 1] ELSE before

LEMMA AfterValue ==
    ASSUME NEW line, NEW n, NEW o, NEW o1, Len(line) \in Nat,
           ParsedUpTo(line, n, o), n < Len(line), line[n] \in ValueFlags,
           o1.profile = Now(line, n, "--profile", o.profile),
           o1.url = Now(line, n, "--db-url", o.url),
           o1.env = Now(line, n, "--db-url-env", o.env),
           o1.output = Now(line, n, "--output", o.output),
           o1.allow = o.allow
    PROVE  ParsedUpTo(line, n + 2, o1)
<1>1. n \in Nat /\ n >= 2 /\ n + 2 \in 2 .. Len(line) + 1
  BY DEF ParsedUpTo
<1>2. FlagAt(line, n)
  BY DEF ParsedUpTo
<1>3. /\ \E f \in 2 .. n + 1 : First(line, f, n + 1)
      /\ \E f \in 2 .. n + 2 : First(line, f, n + 2)
      /\ ~FlagAt(line, n + 1) /\ FlagAt(line, n + 2)
  BY <1>1, <1>2, FlagAfterValue
<1>4. Reached(line, n + 2)
  <2>1. SUFFICES ASSUME NEW i \in 2 .. n + 2 PROVE \E f \in 2 .. i : First(line, f, i)
    BY DEF Reached
  <2>2. i \in 2 .. n \/ i = n + 1 \/ i = n + 2
    BY <1>1
  <2>3. i \in 2 .. n => \E f \in 2 .. i : First(line, f, i)
    BY DEF ParsedUpTo, Reached
  <2> QED
    BY <1>3, <2>2, <2>3
<1>5. \A flag : ~Occurs(line, flag, n + 1)
  BY <1>3 DEF Occurs
<1>6. ASSUME NEW flag \in ValueFlags, NEW v, IsLast(line, flag, n, v)
      PROVE  IsLast(line, flag, n + 2, Now(line, n, flag, v))
  <2>1. CASE line[n] = flag
    <3>1. Occurs(line, flag, n)
      BY <1>2, <2>1 DEF Occurs
    <3> QED
      BY <1>1, <1>5, <2>1, <3>1, LastTaken DEF Now
  <2>2. CASE line[n] # flag
    <3>1. ~Occurs(line, flag, n) /\ Now(line, n, flag, v) = v
      BY <2>2 DEF Occurs, Now
    <3>2. IsLast(line, flag, n + 1, v)
      BY <1>1, <1>6, <3>1, LastKept
    <3>3. n + 1 \in Nat /\ n + 1 >= 2 /\ (n + 1) + 1 = n + 2
      BY <1>1
    <3>4. IsLast(line, flag, (n + 1) + 1, v)
      BY <1>5, <3>2, <3>3, LastKept
    <3> QED
      BY <3>1, <3>3, <3>4
  <2> QED
    BY <2>1, <2>2
<1>7. /\ IsLast(line, "--profile", n + 2, o1.profile) /\ IsLast(line, "--db-url", n + 2, o1.url)
      /\ IsLast(line, "--db-url-env", n + 2, o1.env) /\ IsLast(line, "--output", n + 2, o1.output)
  <2>1. /\ IsLast(line, "--profile", n, o.profile) /\ IsLast(line, "--db-url", n, o.url)
        /\ IsLast(line, "--db-url-env", n, o.env) /\ IsLast(line, "--output", n, o.output)
    BY DEF ParsedUpTo
  <2>2. {"--profile", "--db-url", "--db-url-env", "--output"} = ValueFlags
    BY DEF ValueFlags
  <2> QED
    BY <1>6, <2>1, <2>2
<1>8. o1.allow => \E i \in 2 .. (n + 2) - 1 : Occurs(line, "--allow-write", i)
  <2>1. \A i \in 2 .. n - 1 : i \in 2 .. (n + 2) - 1
    BY <1>1
  <2> QED
    BY <2>1 DEF ParsedUpTo
<1> QED
  BY <1>1, <1>3, <1>4, <1>7, <1>8 DEF ParsedUpTo

LEMMA EndOf ==
    ASSUME NEW m \in Nat, NEW n \in 2 .. m + 1, n > m
    PROVE  n = m + 1 /\ n - 1 = m /\ \A i \in 2 .. m : i \in 2 .. n
OBVIOUS

LEMMA AtTheEnd ==
    ASSUME NEW line, Len(line) \in Nat, NEW o, NEW o1, NEW variable, NEW n, n > Len(line),
           ParsedUpTo(line, n, o), o.url \in Values,
           o.profile \notin Blanks, o.url = "" \/ o.env = "", o.allow,
           o.env # "" => variable \notin Blanks, o.env = "" => o.url # "",
           o1.profile = o.profile, o1.env = o.env, o1.output = o.output,
           o1.url = IF o.env = "" THEN o.url ELSE variable
    PROVE  Consented(line, o1, variable)
<1>1. n = Len(line) + 1 /\ n - 1 = Len(line) /\ \A i \in 2 .. Len(line) : i \in 2 .. n
  <2>1. n \in 2 .. Len(line) + 1
    BY DEF ParsedUpTo
  <2> QED
    BY <2>1, EndOf
<1>2. /\ Reached(line, n) /\ IsLast(line, "--profile", n, o.profile)
      /\ IsLast(line, "--db-url", n, o.url) /\ IsLast(line, "--db-url-env", n, o.env)
      /\ IsLast(line, "--output", n, o.output)
      /\ \E i \in 2 .. Len(line) : Occurs(line, "--allow-write", i)
  BY <1>1 DEF ParsedUpTo
<1>3. Reached(line, Len(line))
  BY <1>1, <1>2, Zenon DEF Reached
<1>4. o1.url # ""
  BY DEF Blanks
<1>5. \E url \in Values :
          /\ IsLast(line, "--db-url", Len(line) + 1, url)
          /\ url = "" \/ o1.env = ""
          /\ o1.url = IF o1.env = "" THEN url ELSE variable
  <2> WITNESS o.url \in Values
  <2> QED
    BY <1>1, <1>2
<1> QED
  BY <1>1, <1>2, <1>3, <1>4, <1>5 DEF Consented

-----------------------------------------------------------------------------
(***************************************************************************)
(* The steps.                                                              *)
(***************************************************************************)
LEMMA InitHolds == Init => IInv
<1>1. SUFFICES ASSUME Init PROVE IInv
  OBVIOUS
<1>2. {"", " ", "v"} \subseteq Values
  BY DEF Values, Blanks
<1>3. TypeOK
  BY <1>1, <1>2 DEF Init, TypeOK, Option, NoOptions
<1>4. Fresh /\ Parsed /\ Calls /\ Written /\ Over
  BY <1>1 DEF Init, Fresh, Parsed, Calls, Written, Over, Resolved
<1> QED
  BY <1>3, <1>4 DEF IInv

LEMMA StartKeeps ==
    ASSUME IInv, Start
    PROVE  IInv'
<1> USE DEF IInv
<1>1. /\ phase = "idle" /\ run' = run + 1 /\ args' \in Lines /\ phase' = "command" /\ index' = 2
      /\ options' = options /\ called' = called /\ files' = files
      /\ stdout' = stdout /\ code' = code
  BY DEF Start
<1>2. TypeOK'
  BY <1>1 DEF TypeOK
<1>3. Fresh' /\ Parsed' /\ Calls' /\ Written' /\ Over'
  BY <1>1 DEF Fresh, Parsed, Calls, Written, Over, Resolved
<1> QED
  BY <1>2, <1>3

LEMMA ReapKeeps ==
    ASSUME IInv, Reap
    PROVE  IInv'
<1> USE DEF IInv
<1>1. /\ phase' = "idle" /\ args' = << >> /\ options' = NoOptions /\ called' = {}
      /\ stdout' = "nothing" /\ code' = Running /\ run' = run /\ files' = files
  BY DEF Reap
<1>2. {"", " ", "v"} \subseteq Values
  BY DEF Values, Blanks
<1>3. TypeOK'
  BY <1>1, <1>2 DEF TypeOK, Option, NoOptions
<1>4. Fresh' /\ Parsed' /\ Calls' /\ Written' /\ Over'
  BY <1>1 DEF Fresh, Parsed, Calls, Written, Over, Resolved
<1> QED
  BY <1>3, <1>4

\* What fails before anything was printed ends in a 2.
LEMMA FailKeeps ==
    ASSUME IInv, phase \notin {"idle", "over"}, Fail, UNCHANGED process
    PROVE  IInv'
<1> USE DEF IInv
<1>1. /\ phase' = "over" /\ code' = 2 /\ run' = run /\ args' = args /\ environment' = environment
      /\ options' = options /\ called' = called /\ files' = files /\ stdout' = stdout
  BY DEF Fail, Exit, process
<1>2. stdout # "whole"
  BY DEF Fresh
<1>3. TypeOK' /\ Fresh' /\ Parsed' /\ Calls' /\ Written'
  BY <1>1 DEF TypeOK, Fresh, Parsed, Calls, Written, Resolved
<1>4. Over'
  BY <1>1, <1>2 DEF Over
<1> QED
  BY <1>3, <1>4

\* Another command than "run" says nothing that could be taken for a verdict.
LEMMA SayKeeps ==
    ASSUME IInv, phase = "command", ~Asked("run"), Say, UNCHANGED process
    PROVE  IInv'
<1> USE DEF IInv
<1>1. /\ phase' = "over" /\ run' = run /\ args' = args /\ environment' = environment
      /\ options' = options /\ called' = called /\ files' = files
  BY DEF Say, Exit, process
<1>2. ~Asked("run")'
  BY <1>1 DEF Asked
<1>3. TypeOK' /\ Fresh' /\ Parsed' /\ Calls' /\ Written'
  BY <1>1 DEF TypeOK, Fresh, Parsed, Calls, Written, Resolved
<1>4. Over'
  BY <1>2 DEF Over
<1> QED
  BY <1>3, <1>4

LEMMA CommandKeeps ==
    ASSUME IInv, Help \/ Unknown \/ Validate
    PROVE  IInv'
<1>1. Asked("help") \/ Asked("validate") => ~Asked("run")
  BY DEF Asked, Names
<1>2. CASE Help
  BY <1>1, <1>2, SayKeeps DEF Help
<1>3. CASE Unknown
  BY <1>3, FailKeeps DEF Unknown
<1>4. CASE Validate
  BY <1>1, <1>4, SayKeeps, FailKeeps DEF Validate
<1> QED
  BY <1>2, <1>3, <1>4

LEMMA RunProfileKeeps ==
    ASSUME IInv, RunProfile
    PROVE  IInv'
<1> USE DEF IInv
<1>1. /\ phase = "command" /\ Asked("run") /\ phase' = "parse" /\ run' = run /\ args' = args
      /\ environment' = environment /\ options' = options /\ called' = called
      /\ files' = files /\ stdout' = stdout /\ code' = code /\ index' = index
  BY DEF RunProfile, GoTo, process
<1>2. index = 2 /\ options = NoOptions
  BY <1>1 DEF Fresh
<1>3. Len(args) \in Nat /\ Len(args) >= 1
  <2>1. args # << >>
    BY <1>1 DEF Asked
  <2>2. args \in Seq(STRING)
    BY LineFacts DEF TypeOK
  <2> QED
    BY <2>1, <2>2
<1>4. ParsedUpTo(args, 2, NoOptions)
  <2>1. 2 \in 2 .. Len(args) + 1 /\ 2 \in 2 .. 2 /\ (2 - 2) % 2 = 0 /\ 2 .. 2 - 1 = {}
        /\ \A i \in 2 .. 2 : i = 2
    BY <1>3
  <2>2. First(args, 2, 2)
    BY <2>1 DEF First
  <2>3. FlagAt(args, 2) /\ Reached(args, 2)
    BY <2>1, <2>2 DEF FlagAt, Reached
  <2>4. \A flag : IsLast(args, flag, 2, "")
    BY <2>1 DEF IsLast
  <2> QED
    BY <2>1, <2>3, <2>4 DEF ParsedUpTo, NoOptions
<1>5. Parsed'
  BY <1>1, <1>2, <1>4 DEF Parsed
<1>6. TypeOK' /\ Fresh' /\ Calls' /\ Written' /\ Over'
  BY <1>1 DEF TypeOK, Fresh, Calls, Written, Over, Resolved, Asked
<1> QED
  BY <1>5, <1>6

LEMMA ParseFlagKeeps ==
    ASSUME IInv, ParseFlag
    PROVE  IInv'
<1> USE DEF IInv
<1>1. /\ phase = "parse" /\ phase' = "parse" /\ run' = run /\ args' = args
      /\ environment' = environment /\ called' = called
      /\ files' = files /\ stdout' = stdout /\ code' = code /\ index' = index + 1
      /\ index <= Len(args) /\ args[index] \in {"--allow-write", "--json"}
      /\ options' = IF args[index] = "--json" THEN [options EXCEPT !.json = TRUE]
                    ELSE [options EXCEPT !.allow = TRUE]
  BY DEF ParseFlag, process, Flag
<1>2. options \in Option /\ Len(args) \in Nat
  BY LineFacts DEF TypeOK
<1>3. /\ options' \in Option
      /\ options'.profile = options.profile /\ options'.url = options.url
      /\ options'.env = options.env /\ options'.output = options.output
      /\ options'.allow => options.allow \/ args[index] = "--allow-write"
  BY <1>1, <1>2 DEF Option
<1>4. ParsedUpTo(args, index, options)
  BY <1>1 DEF Parsed
<1>5. ParsedUpTo(args, index + 1, options')
  BY <1>1, <1>2, <1>3, <1>4, AfterSwitch
<1>6. Parsed'
  BY <1>1, <1>5 DEF Parsed
<1>7. TypeOK' /\ Fresh' /\ Calls' /\ Written' /\ Over'
  BY <1>1, <1>3 DEF TypeOK, Fresh, Calls, Written, Over, Resolved, Asked
<1> QED
  BY <1>6, <1>7

LEMMA ParseValueKeeps ==
    ASSUME IInv, ParseValue
    PROVE  IInv'
<1> USE DEF IInv
<1>1. /\ phase = "parse" /\ phase' = "parse" /\ run' = run /\ args' = args
      /\ environment' = environment /\ called' = called
      /\ files' = files /\ stdout' = stdout /\ code' = code /\ index' = index + 2
      /\ index < Len(args) /\ args[index] \in ValueFlags
      /\ options' = [options EXCEPT ![Field(args[index])] = args[index + 1]]
  BY DEF ParseValue, process, Flag
<1>2. /\ options \in Option /\ Len(args) \in Nat
      /\ \A i \in 2 .. Len(args) : args[i] \in Values
  BY LineFacts DEF TypeOK
<1>3. ParsedUpTo(args, index, options)
  BY <1>1 DEF Parsed
<1>4. args[index + 1] \in Values
  <2>1. index \in 2 .. Len(args) + 1
    BY <1>3 DEF ParsedUpTo
  <2>2. index + 1 \in 2 .. Len(args)
    BY <1>1, <1>2, <2>1
  <2> QED
    BY <1>2, <2>2
<1>5. /\ options' \in Option
      /\ options'.profile = Now(args, index, "--profile", options.profile)
      /\ options'.url = Now(args, index, "--db-url", options.url)
      /\ options'.env = Now(args, index, "--db-url-env", options.env)
      /\ options'.output = Now(args, index, "--output", options.output)
      /\ options'.allow = options.allow
  <2>1. CASE args[index] = "--profile"
    <3>1. options' = [options EXCEPT !.profile = args[index + 1]]
      BY <1>1, <2>1 DEF Field
    <3> QED
      BY <1>2, <1>4, <2>1, <3>1 DEF Option, Now
  <2>2. CASE args[index] = "--db-url"
    <3>1. options' = [options EXCEPT !.url = args[index + 1]]
      BY <1>1, <2>2 DEF Field
    <3> QED
      BY <1>2, <1>4, <2>2, <3>1 DEF Option, Now
  <2>3. CASE args[index] = "--db-url-env"
    <3>1. options' = [options EXCEPT !.env = args[index + 1]]
      BY <1>1, <2>3 DEF Field
    <3> QED
      BY <1>2, <1>4, <2>3, <3>1 DEF Option, Now
  <2>4. CASE args[index] = "--output"
    <3>1. options' = [options EXCEPT !.output = args[index + 1]]
      BY <1>1, <2>4 DEF Field
    <3> QED
      BY <1>2, <1>4, <2>4, <3>1 DEF Option, Now
  <2> QED
    BY <1>1, <2>1, <2>2, <2>3, <2>4 DEF ValueFlags
<1>6. ParsedUpTo(args, index + 2, options')
  BY <1>1, <1>2, <1>3, <1>5, AfterValue
<1>7. Parsed'
  BY <1>1, <1>6 DEF Parsed
<1>8. TypeOK' /\ Fresh' /\ Calls' /\ Written' /\ Over'
  BY <1>1, <1>5 DEF TypeOK, Fresh, Calls, Written, Over, Resolved, Asked
<1> QED
  BY <1>7, <1>8

LEMMA ResolveKeeps ==
    ASSUME IInv, Resolve
    PROVE  IInv'
<1> USE DEF IInv
<1>1. /\ phase = "parse" /\ index > Len(args) /\ run' = run /\ args' = args
      /\ environment' \in IF options.env = "" THEN {""} ELSE {"", " ", "v"}
  BY DEF Resolve
<1>2. /\ options \in Option /\ Len(args) \in Nat /\ {"", " ", "v"} \subseteq Values
      /\ called = {} /\ stdout = "nothing" /\ code = Running
  BY <1>1, LineFacts DEF TypeOK, Fresh
<1>3. CASE Acceptable
  <2>1. /\ phase' = "load" /\ code' = code /\ called' = called /\ files' = files /\ stdout' = stdout
        /\ options' = [options EXCEPT !.url = IF options.env = "" THEN options.url ELSE environment']
    BY <1>3 DEF Resolve, GoTo
  <2>2. environment' \in Values
    BY <1>1, <1>2
  <2>3. /\ options' \in Option
        /\ options'.profile = options.profile /\ options'.env = options.env
        /\ options'.output = options.output
        /\ options'.url = IF options.env = "" THEN options.url ELSE environment'
    BY <1>2, <2>1, <2>2 DEF Option
  <2>4. ParsedUpTo(args, index, options)
    BY <1>1 DEF Parsed
  <2>5. /\ options.profile \notin Blanks /\ options.allow
        /\ options.url = "" \/ options.env = ""
        /\ options.env # "" => environment' \notin Blanks
        /\ options.env = "" => options.url # ""
    BY <1>3 DEF Acceptable
  <2>6. options.url \in Values
    BY <1>2 DEF Option
  <2>7. Consented(args, options', environment')
    BY <1>1, <1>2, <2>3, <2>4, <2>5, <2>6, AtTheEnd
  <2>8. TypeOK' /\ Fresh' /\ Parsed' /\ Written' /\ Over'
    BY <1>1, <1>2, <2>1, <2>3 DEF TypeOK, Fresh, Parsed, Written, Over, Resolved, Asked
  <2>9. Calls'
    BY <1>1, <1>2, <2>1, <2>7 DEF Calls
  <2> QED
    BY <2>8, <2>9
<1>4. CASE ~Acceptable
  <2>1. /\ phase' = "over" /\ code' = 2 /\ called' = called /\ files' = files /\ stdout' = stdout
        /\ options' = options
    BY <1>4 DEF Resolve, Fail, Exit
  <2>2. TypeOK' /\ Fresh' /\ Parsed' /\ Calls' /\ Written' /\ Over'
    BY <1>1, <1>2, <2>1 DEF TypeOK, Fresh, Parsed, Calls, Written, Over, Resolved
  <2> QED
    BY <2>2
<1> QED
  BY <1>3, <1>4

\* Between reading the options and answering: neither changes what was asked for.
LEMMA LoadKeeps ==
    ASSUME IInv, Load
    PROVE  IInv'
<1> USE DEF IInv
<1>1. phase = "load" /\ UNCHANGED process
  BY DEF Load
<1>2. CASE Fail
  BY <1>1, <1>2, FailKeeps
<1>3. CASE GoTo("call") /\ UNCHANGED <<index, options, called, report, files, stdout>>
  <2>1. /\ phase' = "call" /\ code' = code /\ run' = run /\ args' = args
        /\ environment' = environment /\ options' = options /\ called' = called
        /\ report' = report /\ files' = files /\ stdout' = stdout
    BY <1>1, <1>3 DEF GoTo, process
  <2> QED
    BY <1>1, <2>1 DEF TypeOK, Fresh, Parsed, Calls, Written, Over, Resolved, Asked
<1> QED
  BY <1>2, <1>3 DEF Load

LEMMA CallKeeps ==
    ASSUME IInv, Call
    PROVE  IInv'
<1> USE DEF IInv
<1>1. /\ phase = "call" /\ phase' = "execute" /\ code' = code /\ run' = run /\ args' = args
      /\ environment' = environment /\ options' = options /\ called' = {options}
      /\ report' = report /\ files' = files /\ stdout' = stdout
  BY DEF Call, GoTo, process
<1>2. Calls'
  BY <1>1 DEF Calls, Resolved
<1>3. TypeOK' /\ Fresh' /\ Parsed' /\ Written' /\ Over'
  BY <1>1 DEF TypeOK, Fresh, Parsed, Written, Over, Resolved, Asked
<1> QED
  BY <1>2, <1>3

LEMMA AnswerKeeps ==
    ASSUME IInv, Answer
    PROVE  IInv'
<1> USE DEF IInv
<1>1. phase = "execute" /\ UNCHANGED process
  BY DEF Answer
<1>2. CASE Fail
  BY <1>1, <1>2, FailKeeps
<1>3. CASE GoTo("check") /\ report' \in Reports /\ UNCHANGED <<index, options, called, files, stdout>>
  <2>1. /\ phase' = "check" /\ code' = code /\ run' = run /\ args' = args
        /\ environment' = environment /\ options' = options /\ called' = called
        /\ files' = files /\ stdout' = stdout
    BY <1>1, <1>3 DEF GoTo, process
  <2> QED
    BY <1>1, <2>1 DEF TypeOK, Fresh, Parsed, Calls, Written, Over, Resolved, Asked
<1> QED
  BY <1>2, <1>3 DEF Answer

LEMMA CheckKeeps ==
    ASSUME IInv, Check
    PROVE  IInv'
<1> USE DEF IInv
<1>1. phase = "check" /\ UNCHANGED process
  BY DEF Check
<1>2. CASE Valid(report)
  <2>1. /\ phase' = IF options.output = "" THEN "print" ELSE "open"
        /\ code' = code /\ run' = run /\ args' = args
        /\ environment' = environment /\ options' = options /\ called' = called
        /\ report' = report /\ files' = files /\ stdout' = stdout
    BY <1>1, <1>2 DEF Check, GoTo, process
  <2>2. phase' \in {"print", "open"} /\ (phase' = "open" <=> options.output # "")
    BY <2>1
  <2>3. Valid(report')
    BY <1>2, <2>1
  <2>4. TypeOK' /\ Fresh' /\ Parsed' /\ Calls' /\ Over'
    BY <1>1, <2>1, <2>2 DEF TypeOK, Fresh, Parsed, Calls, Over, Resolved, Asked
  <2>5. Written'
    BY <2>1, <2>2, <2>3 DEF Written, Filed
  <2> QED
    BY <2>4, <2>5
<1>3. CASE ~Valid(report)
  BY <1>1, <1>3, FailKeeps DEF Check
<1> QED
  BY <1>2, <1>3

LEMMA OpenKeeps ==
    ASSUME IInv, Open
    PROVE  IInv'
<1> USE DEF IInv
<1>1. phase = "open" /\ UNCHANGED process
  BY DEF Open
<1>2. CASE Fail
  BY <1>1, <1>2, FailKeeps
<1>3. CASE /\ GoTo("write")
           /\ files' = [files EXCEPT ![options.output] = [by |-> run, whole |-> FALSE]]
           /\ UNCHANGED <<index, options, called, report, stdout>>
  <2>1. /\ phase' = "write" /\ code' = code /\ run' = run /\ args' = args
        /\ environment' = environment /\ options' = options /\ called' = called
        /\ report' = report /\ stdout' = stdout
    BY <1>1, <1>3 DEF GoTo, process
  <2>2. /\ options.output \in Values /\ run \in Nat
        /\ files \in [Values -> [by : Nat, whole : BOOLEAN]]
    BY DEF TypeOK, Option
  <2>3. /\ files' \in [Values -> [by : Nat, whole : BOOLEAN]]
        /\ files'[options.output] = [by |-> run, whole |-> FALSE]
    BY <1>3, <2>2
  <2>4. TypeOK' /\ Fresh' /\ Parsed' /\ Calls' /\ Over'
    BY <1>1, <2>1, <2>3 DEF TypeOK, Fresh, Parsed, Calls, Over, Resolved, Asked
  <2>5. Written'
    BY <1>1, <2>1, <2>3 DEF Written
  <2> QED
    BY <2>4, <2>5
<1> QED
  BY <1>2, <1>3 DEF Open

LEMMA Completed ==
    ASSUME NEW n, NEW a \in BOOLEAN, NEW b \in BOOLEAN
    PROVE  [[by |-> n, whole |-> a] EXCEPT !.whole = b] = [by |-> n, whole |-> b]
OBVIOUS

LEMMA WriteKeeps ==
    ASSUME IInv, Write
    PROVE  IInv'
<1> USE DEF IInv
<1> DEFINE full == [files EXCEPT ![options.output].whole = TRUE]
<1>1. /\ phase = "write" /\ run' = run /\ args' = args /\ environment' = environment
      /\ options' = options /\ called' = called /\ report' = report
  BY DEF Write, process
<1>2. /\ options.output \in Values /\ run \in Nat /\ stdout = "nothing"
      /\ files \in [Values -> [by : Nat, whole : BOOLEAN]]
      /\ files[options.output] = [by |-> run, whole |-> FALSE]
  BY <1>1 DEF TypeOK, Option, Written, Fresh
<1>3. full \in [Values -> [by : Nat, whole : BOOLEAN]]
  BY <1>2
<1>4. full[options.output] = [by |-> run, whole |-> TRUE]
  <2>1. full[options.output] = [files[options.output] EXCEPT !.whole = TRUE]
    BY <1>2
  <2> QED
    BY <1>2, <2>1, Completed, Zenon
<1> HIDE DEF full
<1>5. CASE GoTo("print") /\ files' = full /\ stdout' = stdout
  <2>1. phase' = "print" /\ code' = code
    BY <1>5 DEF GoTo
  <2>2. TypeOK' /\ Fresh' /\ Parsed' /\ Calls' /\ Over'
    BY <1>1, <1>3, <1>5, <2>1 DEF TypeOK, Fresh, Parsed, Calls, Over, Resolved, Asked
  <2>3. Written'
    BY <1>1, <1>4, <1>5, <2>1 DEF Written, Filed
  <2> QED
    BY <2>2, <2>3
<1>6. CASE Exit(2) /\ files' \in {files, full} /\ stdout' = stdout
  <2>1. phase' = "over" /\ code' = 2
    BY <1>6 DEF Exit
  <2>2. TypeOK' /\ Fresh' /\ Parsed' /\ Calls' /\ Written'
    BY <1>1, <1>3, <1>6, <2>1 DEF TypeOK, Fresh, Parsed, Calls, Written, Resolved
  <2>3. Over'
    BY <1>2, <1>6, <2>1 DEF Over
  <2> QED
    BY <2>2, <2>3
<1> QED
  BY <1>5, <1>6 DEF Write, full

LEMMA PrintKeeps ==
    ASSUME IInv, PrintReport
    PROVE  IInv'
<1> USE DEF IInv
<1>1. /\ phase = "print" /\ run' = run /\ args' = args /\ environment' = environment
      /\ options' = options /\ called' = called /\ report' = report /\ files' = files
      /\ phase' = "over"
  BY DEF PrintReport, process, Exit
<1>2. Valid(report) /\ Filed /\ Consented(args, options, environment)
  BY <1>1 DEF Written, Calls, Resolved
<1>3. TypeOK' /\ Fresh' /\ Parsed' /\ Calls' /\ Written'
  BY <1>1 DEF TypeOK, Fresh, Parsed, Calls, Written, Resolved
<1>4. CASE Exit(ExitCode(report.outcome)) /\ stdout' = "whole"
  <2>1. code' = ExitCode(report'.outcome)
    BY <1>1, <1>4 DEF Exit
  <2>2. Valid(report') /\ Filed' /\ Consented(args', options', environment')
    BY <1>1, <1>2 DEF Filed
  <2> QED
    BY <1>3, <1>4, <2>1, <2>2 DEF Over
<1>5. CASE Exit(2) /\ stdout' \in {"nothing", "part"}
  BY <1>3, <1>5 DEF Over, Exit
<1> QED
  BY <1>4, <1>5 DEF PrintReport

LEMMA KillKeeps ==
    ASSUME IInv, Kill
    PROVE  IInv'
<1> USE DEF IInv
<1>1. /\ phase' = "over" /\ run' = run /\ args' = args /\ environment' = environment
      /\ options' = options /\ called' = called /\ files' = files /\ code' = code
      /\ code = Running
  BY DEF Kill, process, Fresh
<1> QED
  BY <1>1 DEF TypeOK, Fresh, Parsed, Calls, Written, Over, Resolved

LEMMA StutterKeeps ==
    ASSUME IInv, UNCHANGED vars
    PROVE  IInv'
<1>1. /\ phase' = phase /\ run' = run /\ args' = args /\ environment' = environment
      /\ options' = options /\ called' = called /\ files' = files /\ code' = code
      /\ index' = index /\ stdout' = stdout /\ report' = report
  BY DEF vars
<1> QED
  BY <1>1 DEF IInv, TypeOK, Fresh, Parsed, Calls, Written, Over, Filed, Asked

LEMMA RejectKeeps ==
    ASSUME IInv, Reject
    PROVE  IInv'
BY FailKeeps DEF Reject

LEMMA NextKeeps == IInv /\ [Next]_vars => IInv'
<1>1. SUFFICES ASSUME IInv, [Next]_vars PROVE IInv'
  OBVIOUS
<1>2. CASE Step
  BY <1>1, <1>2, CommandKeeps, RunProfileKeeps, ParseFlagKeeps, ParseValueKeeps, RejectKeeps,
     ResolveKeeps, LoadKeeps, CallKeeps, CheckKeeps, OpenKeeps, WriteKeeps, PrintKeeps DEF Step
<1> QED
  BY <1>1, <1>2, StartKeeps, ReapKeeps, AnswerKeeps, KillKeeps, StutterKeeps DEF Next

-----------------------------------------------------------------------------
(***************************************************************************)
(* The theorems.                                                           *)
(***************************************************************************)
\* The invariant holds in every state: types, the options as the arguments read so far
\* give them, what was called and written, and how the process ended (cli.go:61-171).
THEOREM InvariantHolds == Spec => []IInv
BY InitHolds, NextKeeps, PTL DEF Spec

LEMMA ConsentAsGiven ==
    ASSUME TypeOK, NEW o, Consented(args, o, environment)
    PROVE  /\ Given("--allow-write") # {}
           /\ o.profile = Last("--profile") /\ o.profile \notin Blanks
           /\ o.output = Last("--output")
           /\ Last("--db-url") = "" \/ Last("--db-url-env") = ""
           /\ o.url = IF Last("--db-url-env") = "" THEN Last("--db-url") ELSE environment
           /\ o.url # ""
<1>1. Len(args) \in Nat
  BY LineFacts DEF TypeOK
<1>2. Reached(args, Len(args))
  BY DEF Consented
<1>3. \A flag, value : IsLast(args, flag, Len(args) + 1, value) => value = Last(flag)
  BY <1>1, <1>2, LastIsLast
<1>4. /\ o.profile = Last("--profile") /\ o.output = Last("--output")
      /\ o.env = Last("--db-url-env") /\ o.profile \notin Blanks /\ o.url # ""
  BY <1>3 DEF Consented
<1>5. PICK i \in 2 .. Len(args) : Occurs(args, "--allow-write", i)
  BY DEF Consented
<1>6. i \in Given("--allow-write")
  BY <1>2, <1>5, FlagsAgree DEF Given, Occurs
<1>7. PICK url \in Values : /\ IsLast(args, "--db-url", Len(args) + 1, url)
                            /\ url = "" \/ o.env = ""
                            /\ o.url = IF o.env = "" THEN url ELSE environment
  BY DEF Consented
<1>8. url = Last("--db-url")
  BY <1>3, <1>7
<1> QED
  BY <1>4, <1>6, <1>7, <1>8

\* The executor is only ever called with what the arguments, read as flags and values,
\* ask for, and never without --allow-write (cli.go:124-171).
THEOREM ConsentHolds == Spec => []ConsentGiven
<1>1. IInv => ConsentGiven
  BY ConsentAsGiven DEF IInv, Calls, ConsentGiven
<1> QED
  BY <1>1, InvariantHolds, PTL

\* An exit with 0 or 1 means that this run's report says so and was delivered in full
\* (main.go:12-21, cli.go:89-122).
THEOREM ExitHolds == Spec => []ExitTellsTheTruth
<1>1. ASSUME IInv, phase = "over", Asked("run"), code # Running
      PROVE  /\ code = 0 <=> Delivered /\ report.outcome = "pass"
             /\ code = 1 <=> Delivered /\ report.outcome = "fail"
  <2>1. CASE stdout = "whole"
    <3>1. /\ Valid(report) /\ Consented(args, options, environment) /\ Filed
          /\ code = ExitCode(report.outcome)
      BY <1>1, <2>1 DEF IInv, Over
    <3>2. options.output = Last("--output")
      BY <1>1, <3>1, ConsentAsGiven DEF IInv
    <3>3. Delivered
      BY <2>1, <3>1, <3>2 DEF Delivered, Filed
    <3>4. /\ code = 0 <=> report.outcome = "pass"
          /\ code = 1 <=> report.outcome = "fail"
      BY <3>1 DEF ExitCode
    <3> QED
      BY <3>3, <3>4
  <2>2. CASE stdout # "whole"
    <3>1. code = 2 /\ ~Delivered
      BY <1>1, <2>2 DEF IInv, Over, Delivered
    <3> QED
      BY <3>1
  <2> QED
    BY <2>1, <2>2
<1>2. IInv => ExitTellsTheTruth
  BY <1>1 DEF ExitTellsTheTruth
<1> QED
  BY <1>2, InvariantHolds, PTL

LEMMA FilesKept ==
    ASSUME IInv, [Next]_vars, NEW v \in Values, files'[v] # files[v]
    PROVE  Asked("run") /\ v = Last("--output") /\ called # {} /\ Valid(report)
<1>1. (Open \/ Write) /\ v = options.output
  <2>1. files \in [Values -> [by : Nat, whole : BOOLEAN]]
    BY DEF IInv, TypeOK
  <2>2. files' # files
    OBVIOUS
  <2>3. Open \/ Write
    BY <2>2 DEF Next, Step, vars, Start, Reap, Help, Unknown, Validate, Say, Fail, RunProfile,
                ParseFlag, ParseValue, Reject, Resolve, Load, Call, Answer, Check, PrintReport, Kill
  <2>4. \/ files' = [files EXCEPT ![options.output] = [by |-> run, whole |-> FALSE]]
        \/ files' = [files EXCEPT ![options.output].whole = TRUE]
    BY <2>2, <2>3 DEF Open, Write, Fail
  <2> QED
    BY <2>1, <2>3, <2>4
<1>2. phase \in {"open", "write"}
  BY <1>1 DEF Open, Write
<1>3. /\ Asked("run") /\ called # {} /\ Valid(report)
      /\ Consented(args, options, environment)
  BY <1>2 DEF IInv, Fresh, Calls, Written, Resolved
<1>4. options.output = Last("--output")
  BY <1>3, ConsentAsGiven DEF IInv
<1> QED
  BY <1>1, <1>3, <1>4

\* A file changes only at the path named for output, and only for a valid report
\* (cli.go:89-114).
THEOREM OnlyOutputHolds == Spec => OnlyOutputIsWritten
<1>1. IInv /\ [Next]_vars =>
          [\A v \in Values : files'[v] # files[v] =>
              /\ Asked("run") /\ v = Last("--output")
              /\ called # {} /\ Valid(report)]_vars
  BY FilesKept
<1> QED
  BY <1>1, InvariantHolds, PTL DEF Spec, OnlyOutputIsWritten

-----------------------------------------------------------------------------
LEMMA ReportOK == Spec => [](report \in Reports \cup {None})
<1>1. Init => report \in Reports \cup {None}
  BY DEF Init
<1>2. report \in Reports \cup {None} /\ [Next]_vars => (report \in Reports \cup {None})'
  BY DEF Next, Step, vars, Start, Reap, Help, Unknown, Validate, Say, Fail, RunProfile,
         ParseFlag, ParseValue, Reject, Resolve, Load, Call, Answer, Check, Open, Write,
         PrintReport, Kill
<1> QED
  BY <1>1, <1>2, PTL DEF Spec

LEMMA LineFields ==
    ASSUME NEW level, NEW about
    PROVE  Line(level, about).level = level /\ Line(level, about).about = about
BY DEF Line

\* The lines at the level of an error, and those that speak of an access.
LEMMA ErrorLines ==
    ASSUME OfExecute(report)
    PROVE  /\ Errors(GitHubAnnotations(report)) = report.findings \cup Undenied(report)
           /\ Errors(SARIF(report)) = report.findings \cup Undenied(report)
           /\ Shown("exposed") = Undenied(report)
<1>1. /\ \A f \in report.findings : f.severity \in {"blocked", "inconclusive"}
      /\ \A e \in report.operations : e.denied \in BOOLEAN
  BY DEF OfExecute, FromGate, FromMatrix
<1>2. \A f \in report.findings : Stops(f)
  BY <1>1 DEF Stops
<1>3. /\ GitHubAnnotations(report) = {Line("error", f) : f \in report.findings \cup Undenied(report)}
      /\ SARIF(report) = {Line("error", f) : f \in report.findings \cup Undenied(report)}
  BY <1>2 DEF GitHubAnnotations, SARIF
<1>4. ASSUME NEW things PROVE Errors({Line("error", x) : x \in things}) = things
  <2> DEFINE lines == {Line("error", x) : x \in things}
  <2>1. ASSUME NEW x \in things PROVE x \in Errors(lines)
    <3>1. Line("error", x) \in {l \in lines : l.level = "error"} /\ Line("error", x).about = x
      BY LineFields
    <3> QED
      BY <3>1 DEF Errors
  <2>2. ASSUME NEW a \in Errors(lines) PROVE a \in things
    <3>1. PICK l \in lines : a = l.about
      BY DEF Errors
    <3> QED
      BY <3>1, LineFields
  <2> QED
    BY <2>1, <2>2
<1>5. Shown("exposed") = Undenied(report)
  <2>1. ASSUME NEW e \in Undenied(report) PROVE e \in Shown("exposed")
    <3>1. e \in report.operations /\ Line("exposed", e) \in Terminal(report)
      BY DEF Undenied, Terminal
    <3>2. /\ Line("exposed", e) \in {l \in Terminal(report) : l.level = "exposed"}
          /\ Line("exposed", e).about = e
      BY <3>1, LineFields
    <3> QED
      BY <3>2 DEF Shown
  <2>2. ASSUME NEW a \in Shown("exposed") PROVE a \in Undenied(report)
    <3>1. PICK l \in Terminal(report) : l.level = "exposed" /\ a = l.about
      BY DEF Shown
    <3>2. CASE \E f \in report.findings : l = Line(f.severity, f)
      BY <1>1, <3>1, <3>2, LineFields
    <3>3. CASE \E e \in report.operations : l = Line(IF e.denied THEN "denied" ELSE "exposed", e)
      <4>1. PICK e \in report.operations : l = Line(IF e.denied THEN "denied" ELSE "exposed", e)
        BY <3>3
      <4>2. a = e /\ ~e.denied
        BY <3>1, <4>1, LineFields
      <4> QED
        BY <4>2 DEF Undenied
    <3> QED
      BY <3>1, <3>2, <3>3 DEF Terminal
  <2> QED
    BY <2>1, <2>2
<1> QED
  BY <1>3, <1>4, <1>5

LEMMA VerdictClaims ==
    ASSUME OfExecute(report)
    PROVE  ClaimsMatchVerdict
<1> DEFINE accesses == {e \in report.operations : ~e.denied /\ ~e.error}
<1>1. /\ Errors(GitHubAnnotations(report)) = report.findings \cup Undenied(report)
      /\ Errors(SARIF(report)) = report.findings \cup Undenied(report)
      /\ Shown("exposed") = Undenied(report)
  BY ErrorLines
<1>2. CASE FromGate(report)
  <2>1. report.outcome \in {"blocked", "inconclusive"} /\ report.findings # {}
    BY <1>2 DEF FromGate, GateOutcome
  <2> QED
    BY <1>1, <2>1 DEF ClaimsMatchVerdict
<1>3. CASE FromMatrix(report)
  <2>1. PICK controlOK \in BOOLEAN, required \in SUBSET Operations :
            report.outcome = EvaluateOutcome(controlOK, {}, required, report.operations)
    BY <1>3 DEF FromMatrix
  <2>2. report.findings = {} /\ Guidance(report) = Undenied(report)
    BY <1>3 DEF FromMatrix, Guidance
  <2>3. report.outcome \in {"inconclusive", "fail", "pass"}
    BY <2>1 DEF EvaluateOutcome
  <2>4. report.outcome \in {"fail", "pass"} => \A e \in report.operations : ~e.error \/ e.denied
    BY <2>1 DEF EvaluateOutcome
  <2>5. report.outcome = "fail" => Undenied(report) # {}
    BY <2>1 DEF EvaluateOutcome, Undenied
  <2>6. report.outcome = "pass" => Undenied(report) = {}
    BY <2>1 DEF EvaluateOutcome, Undenied
  <2>7. report.outcome = "fail" => accesses = Undenied(report)
    BY <2>4 DEF Undenied
  <2>8. report.outcome = "pass" =>
            Errors(GitHubAnnotations(report)) = {} /\ Shown("exposed") = {}
    BY <1>1, <2>2, <2>6
  <2>9. report.outcome = "fail" =>
            /\ accesses # {} /\ accesses = Shown("exposed")
            /\ accesses = Errors(GitHubAnnotations(report))
            /\ accesses = Guidance(report)
    BY <1>1, <2>2, <2>5, <2>7
  <2>10. ASSUME report.outcome # "pass", Undenied(report) = {}
         PROVE  /\ report.outcome = "inconclusive" /\ report.findings = {}
                /\ \A e \in report.operations : e.denied
    BY <2>2, <2>3, <2>5, <2>10 DEF Undenied
  <2> HIDE DEF accesses
  <2>11. report.outcome # "pass" =>
            \A lines \in {GitHubAnnotations(report), SARIF(report)} :
                Errors(lines) = {} =>
                    /\ report.outcome = "inconclusive" /\ report.findings = {}
                    /\ \A e \in report.operations : e.denied
    BY <1>1, <2>2, <2>10
  <2> QED
    BY <2>8, <2>9, <2>11 DEF ClaimsMatchVerdict, accesses
<1> QED
  BY <1>2, <1>3 DEF OfExecute

\* The artifacts agree with the verdict for every report Execute can return, whatever
\* the findings, the evidence and the operations asked for; reports no consumer could
\* read are allowed, too (artifacts.go:14-61, terminal.go:11-39, guide.go:6-22).
THEOREM ClaimsHold ==
    ASSUME \A r \in Reports : OfExecute(r) \/ ~Valid(r)
    PROVE  Spec => []ClaimsMatchVerdict
<1>1. ~Valid(None)
  BY DEF Valid, None
<1>2. report \in Reports \cup {None} => ClaimsMatchVerdict
  <2>1. SUFFICES ASSUME report \in Reports \cup {None}, Valid(report) PROVE ClaimsMatchVerdict
    BY DEF ClaimsMatchVerdict
  <2>2. OfExecute(report)
    BY <1>1, <2>1
  <2> QED
    BY <2>2, VerdictClaims
<1> QED
  BY <1>2, ReportOK, PTL
=============================================================================
