------------------------------- MODULE Probes -------------------------------
(***************************************************************************)
(* internal/concurrency.Run: one goroutine for each worker, all released   *)
(* at once, every error gathered in one list.  The probes are the caller's *)
(* and the callers' errors are told apart by the worker they come from.    *)
(***************************************************************************)
EXTENDS Integers, Sequences, FiniteSets

CONSTANT N      \* the largest number of workers Run is called with

ASSUME NAssumption == N \in Nat

VARIABLES
    workers,   \* the argument of Run
    pc,        \* the caller: "spawn" | "wait" | "returned"
    spawned,   \* goroutines created so far
    start,     \* the channel "start" is closed
    group,     \* the counter of the WaitGroup
    lock,      \* the worker that holds the mutex, or Nobody
    errs,      \* the shared slice
    at,        \* where each worker is
    outcome,   \* how its probe ended: "open" | "nil" | "error" | "exit"
    seen,      \* the slice as an append found it
    crashed    \* a panic has ended the process

shared == <<workers, pc, spawned, start, group, lock, errs, crashed>>
own    == <<at, outcome, seen>>
vars   == <<shared, own>>

Nobody == 0

Workers == 1 .. workers

Init ==
    /\ workers \in -1 .. N
    /\ pc = "spawn" /\ spawned = 0 /\ start = FALSE /\ group = 0
    /\ lock = Nobody /\ errs = << >> /\ crashed = FALSE
    /\ at = [w \in Workers |-> "none"]
    /\ outcome = [w \in Workers |-> "open"]
    /\ seen = [w \in Workers |-> << >>]

(***************************************************************************)
(* The caller.                                                             *)
(***************************************************************************)
\* One error, of no worker.
Refuse ==
    /\ pc = "spawn" /\ workers < 1
    /\ errs' = <<Nobody>> /\ pc' = "returned"
    /\ UNCHANGED <<workers, spawned, start, group, lock, crashed, own>>

Spawn ==
    /\ pc = "spawn" /\ spawned < workers
    /\ spawned' = spawned + 1 /\ group' = group + 1
    /\ at' = [at EXCEPT ![spawned'] = "waiting"]
    /\ UNCHANGED <<workers, pc, start, lock, errs, crashed, outcome, seen>>

Release ==
    /\ pc = "spawn" /\ workers >= 1 /\ spawned = workers
    /\ start' = TRUE /\ pc' = "wait"
    /\ UNCHANGED <<workers, spawned, group, lock, errs, crashed, own>>

\* Mutant: does not wait.
ReturnAtOnce ==
    /\ pc = "wait" /\ pc' = "returned"
    /\ UNCHANGED <<workers, spawned, start, group, lock, errs, crashed, own>>

Wait ==
    /\ pc = "wait" /\ group = 0 /\ pc' = "returned"
    /\ UNCHANGED <<workers, spawned, start, group, lock, errs, crashed, own>>

Caller == ~crashed /\ (Refuse \/ Spawn \/ Release \/ Wait)

(***************************************************************************)
(* A worker.                                                               *)
(***************************************************************************)
Move(w, from, to) == at[w] = from /\ at' = [at EXCEPT ![w] = to]

\* Mutant: the goroutine does not wait for the channel.
StartEarly(w) ==
    /\ Move(w, "waiting", "probing")
    /\ UNCHANGED <<shared, outcome, seen>>

Start(w) ==
    /\ start /\ Move(w, "waiting", "probing")
    /\ UNCHANGED <<shared, outcome, seen>>

\* Mutant: a worker tries a probe that failed again.
FinishUnlessFailed(w) ==
    /\ \E o \in {"nil", "error", "exit"} :
          /\ outcome' = [outcome EXCEPT ![w] = o]
          /\ Move(w, "probing", IF o = "error" THEN "waiting" ELSE "leaving")
    /\ UNCHANGED <<shared, seen>>

\* A probe returns, or leaves its goroutine by runtime.Goexit; the deferred Done
\* is run either way.
Finish(w) ==
    /\ \E o \in {"nil", "error", "exit"} :
          /\ outcome' = [outcome EXCEPT ![w] = o]
          /\ Move(w, "probing", IF o = "error" THEN "failed" ELSE "leaving")
    /\ UNCHANGED <<shared, seen>>

\* Nothing recovers: the process ends.
Panic(w) ==
    /\ at[w] = "probing" /\ crashed' = TRUE
    /\ UNCHANGED <<workers, pc, spawned, start, group, lock, errs, own>>

\* Mutant: no mutex.
LockNothing(w) ==
    /\ Move(w, "failed", "appending")
    /\ UNCHANGED <<shared, outcome, seen>>

Lock(w) ==
    /\ lock = Nobody /\ lock' = w /\ Move(w, "failed", "appending")
    /\ UNCHANGED <<workers, pc, spawned, start, group, errs, crashed, outcome, seen>>

\* append reads the slice and writes it back.
Read(w) ==
    /\ Move(w, "appending", "writing")
    /\ seen' = [seen EXCEPT ![w] = errs]
    /\ UNCHANGED <<shared, outcome>>

Write(w) ==
    /\ Move(w, "writing", "unlocking")
    /\ errs' = Append(seen[w], w)
    /\ UNCHANGED <<workers, pc, spawned, start, group, lock, crashed, outcome, seen>>

Unlock(w) ==
    /\ Move(w, "unlocking", "leaving")
    /\ lock' = Nobody
    /\ UNCHANGED <<workers, pc, spawned, start, group, errs, crashed, outcome, seen>>

Done(w) ==
    /\ Move(w, "leaving", "gone")
    /\ group' = group - 1
    /\ UNCHANGED <<workers, pc, spawned, start, lock, errs, crashed, outcome, seen>>

Advance(w) == Start(w) \/ Lock(w) \/ Read(w) \/ Write(w) \/ Unlock(w) \/ Done(w)

Worker(w) == ~crashed /\ (Advance(w) \/ Finish(w) \/ Panic(w))

Over == (crashed \/ pc = "returned") /\ UNCHANGED vars

Next == Caller \/ (\E w \in Workers : Worker(w)) \/ Over

\* The scheduler runs every goroutine that can run; nothing is assumed of what a
\* probe does.  A worker locks once, so a mutex that is free again and again is
\* free for good in the end.
Fairness == WF_vars(Caller) /\ \A w \in 1 .. N : WF_vars(w \in Workers /\ ~crashed /\ Advance(w))

Spec == Init /\ [][Next]_vars /\ Fairness

-----------------------------------------------------------------------------
\* Run returns the error of every worker that failed, each once and no other,
\* however the appends of the workers interleave (probe.go:12, 26-30).
EveryErrorOnce ==
    pc = "returned" /\ workers >= 1 =>
        \A w \in Workers :
            Cardinality({i \in 1 .. Len(errs) : errs[i] = w}) =
                IF outcome[w] = "error" THEN 1 ELSE 0

\* When Run returns, every worker has been created and has left: no probe goes on
\* under the caller's connection or context, and none was left out
\* (probe.go:21-24, 34).
NothingGoesOn ==
    pc = "returned" => \A w \in Workers : at[w] = "gone" /\ outcome[w] # "open"

\* No probe begins before the last worker has been created (probe.go:12, 17, 25, 33).
StartTogether ==
    \A w \in Workers : at[w] \notin {"none", "waiting"} => \A v \in Workers : at[v] # "none"

\* Run returns if every probe comes to an end one way or another; only a panic,
\* which nothing recovers, takes the process instead (probe.go:24, 33-35).
ReturnsIfProbesDo ==
    (\A w \in 1 .. N : []<>(w \notin Workers \/ at[w] # "probing"))
        => <>(pc = "returned" \/ crashed)
=============================================================================
