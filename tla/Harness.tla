------------------------------- MODULE Harness ------------------------------
(***************************************************************************)
(* internal/harness.Run: every operation in one outer transaction, each    *)
(* under a savepoint of its own.  The operations are the caller's; they    *)
(* get the transaction itself and may do with it what a pgx.Tx lets them.  *)
(***************************************************************************)
EXTENDS Transaction

CONSTANTS
    N,          \* number of operations
    Faults      \* what may go wrong besides statements the server rejects

(***************************************************************************)
(* "lost"    the connection drops                                          *)
(* "cancel"  the context is cancelled                                      *)
(* "ends"    an operation commits or rolls back the transaction it is given*)
(***************************************************************************)
ASSUME NAssumption == N \in Nat
ASSUME FaultsAssumption == Faults \subseteq {"lost", "cancel", "ends"}

VARIABLES
    cancelled,         \* ctx
    pc, n,             \* the next call of Run, and the operation it is about
    operationErrors,   \* Result.OperationErrors, as the operations they came from
    err                \* the calls whose errors the returned error joins

vars == <<session, cancelled, pc, n, operationErrors, err>>

Init ==
    /\ SessionInit /\ cancelled = FALSE
    /\ pc = "begin" /\ n = 1 /\ operationErrors = << >> /\ err = {}

\* Whether a statement sent through the transaction reaches the server.
Works == conn = "up" /\ ~closed /\ ~cancelled

\* A connection breaks during a call, or because a context ends during it.
Breaks ==
    /\ Works /\ Drop
    /\ \/ "lost" \in Faults /\ UNCHANGED cancelled
       \/ "cancel" \in Faults /\ cancelled' = TRUE

Unsent == ~Works /\ UNCHANGED <<session, cancelled>>

GiveUp(call) == err' = err \cup {call} /\ pc' = "rollback" /\ UNCHANGED <<n, operationErrors>>

NextOperation == IF n < N THEN "savepoint" ELSE "rollback"

\* A Begin that fails gives the connection up; nothing is deferred yet.
Begin ==
    /\ pc = "begin"
    /\ \/ /\ Works /\ BeginBlock /\ UNCHANGED <<cancelled, err>>
          /\ pc' = IF N = 0 THEN "rollback" ELSE "savepoint"
       \/ /\ Breaks \/ (~Works /\ Drop /\ UNCHANGED cancelled)
          /\ err' = {"begin"} /\ pc' = "returned"
    /\ UNCHANGED <<n, operationErrors>>

Savepoint ==
    /\ pc = "savepoint"
    /\ \/ /\ Works /\ Mark(n) /\ pc' = "operate"
          /\ UNCHANGED <<cancelled, n, operationErrors, err>>
       \/ (Breaks \/ Unsent) /\ GiveUp("savepoint")

(***************************************************************************)
(* What an operation can do to the transaction: write or not, run into     *)
(* errors, end the transaction through the pgx.Tx or by a statement, and   *)
(* after that go on without one, begin another or lose the connection.     *)
(* Its statements need not go through the pgx.Tx, whose Conn() hands out   *)
(* the connection also when it is closed, nor under Run's context.         *)
(***************************************************************************)
Work ==
    /\ rows' \in {rows, rows \cup {n}}
    /\ block' \in {"active", "failed"}
    /\ UNCHANGED <<conn, closed, marks, durable, cancelled>>

\* What may outlive a transaction an operation ended.
Kept == {{}, {n}, rows, rows \cup {n}}

End ==
    /\ \E kept \in Kept, shut \in BOOLEAN : EndBlock(kept, shut)
    /\ UNCHANGED cancelled

\* Ended through the pgx.Tx, which is closed then, or by a statement.
Restart ==
    /\ \E kept \in Kept : durable' = kept /\ rows' \in {kept, kept \cup {n}}
    /\ block' \in {"active", "failed"} /\ closed' \in BOOLEAN /\ marks' = NoMarks
    /\ UNCHANGED <<conn, cancelled>>

EndAndBreak ==
    /\ \E kept \in Kept : durable' = kept /\ rows' = kept
    /\ conn' = "lost" /\ block' = "idle" /\ closed' \in BOOLEAN /\ marks' = NoMarks
    /\ \/ "lost" \in Faults /\ UNCHANGED cancelled
       \/ "cancel" \in Faults /\ cancelled' = TRUE

\* Whatever happened to it, an operation may return an error or swallow it.
Operate ==
    /\ pc = "operate"
    /\ \/ conn = "up" /\ Work
       \/ conn = "up" /\ "ends" \in Faults /\ (End \/ Restart \/ EndAndBreak)
       \/ Breaks
       \/ Unsent
    /\ \/ pc' = "undo" /\ operationErrors' = Append(operationErrors, n)
       \/ pc' = "release" /\ UNCHANGED operationErrors
    /\ UNCHANGED <<n, err>>

\* A call that fails: without the server's answer, or because the server rejects it.
Fails(call, acceptable) ==
    /\ \/ Works /\ ~acceptable /\ Reject /\ UNCHANGED cancelled
       \/ Breaks
       \/ Unsent
    /\ GiveUp(call)

\* Mutant: an operation that failed is left as it is.
UndoNothing ==
    /\ pc = "undo" /\ pc' = "release"
    /\ UNCHANGED <<session, cancelled, n, operationErrors, err>>

\* Mutant: tries again for as long as it fails.
UndoUntilItWorks ==
    /\ pc = "undo"
    /\ \/ Works /\ BackTo(n) /\ pc' = "release" /\ UNCHANGED cancelled
       \/ /\ Breaks \/ Unsent \/ (Works /\ Reject /\ UNCHANGED cancelled)
          /\ UNCHANGED pc
    /\ UNCHANGED <<n, operationErrors, err>>

Undo ==
    /\ pc = "undo"
    /\ \/ /\ Works /\ BackTo(n) /\ pc' = "release"
          /\ UNCHANGED <<cancelled, n, operationErrors, err>>
       \/ Fails("undo", block # "idle" /\ n \in DOMAIN marks)

\* Mutant: a transaction that is already closed has nothing to release.
ReleaseClosedIsFine ==
    /\ pc = "release"
    /\ \/ /\ Works \/ closed
          /\ Forget(n) \/ (closed /\ UNCHANGED session)
          /\ n' = n + 1 /\ pc' = NextOperation
          /\ UNCHANGED <<cancelled, operationErrors, err>>
       \/ ~closed /\ Fails("release", block = "active" /\ n \in DOMAIN marks)

Release ==
    /\ pc = "release"
    /\ \/ /\ Works /\ Forget(n) /\ n' = n + 1 /\ pc' = NextOperation
          /\ UNCHANGED <<cancelled, operationErrors, err>>
       \/ Fails("release", block = "active" /\ n \in DOMAIN marks)

\* Mutant: the rollback is not deferred, a return on an error leaves it out.
RollbackUnlessError ==
    /\ pc = "rollback" /\ pc' = "returned"
    /\ \/ closed \/ err # {}
       \/ ~closed /\ ~Works
    /\ UNCHANGED <<session, cancelled, n, operationErrors, err>>

(***************************************************************************)
(* The deferred rollback, under the caller's context.  A transaction that  *)
(* is already closed is no error, whatever block the connection is in; a   *)
(* rollback that fails takes the connection with it.                       *)
(***************************************************************************)
Rollback ==
    /\ pc = "rollback" /\ pc' = "returned"
    /\ \/ closed /\ UNCHANGED <<session, cancelled, err>>
       \/ Works /\ EndBlock(durable, TRUE) /\ UNCHANGED <<cancelled, err>>
       \/ /\ ~closed /\ (Breaks \/ (~Works /\ Drop /\ UNCHANGED cancelled))
          /\ err' = err \cup {"rollback"}
    /\ UNCHANGED <<n, operationErrors>>

Step == Begin \/ Savepoint \/ Undo \/ Release \/ Rollback

\* The caller cancels the context between two calls.
Cancel ==
    /\ "cancel" \in Faults /\ ~cancelled /\ pc # "returned"
    /\ cancelled' = TRUE /\ UNCHANGED <<session, pc, n, operationErrors, err>>

Returned == pc = "returned" /\ UNCHANGED vars

Next == Step \/ Operate \/ Cancel \/ Returned

\* Run is one goroutine; nothing is assumed of the operations.
Fairness == WF_vars(Step)

Spec == Init /\ [][Next]_vars /\ Fairness

-----------------------------------------------------------------------------
\* Run returns without an error only after every operation had its turn, over a
\* connection that is fit for use and with nothing of the run left: also when an
\* operation ended the transaction, lost its error or broke the connection
\* (harness.go:14-45).
CleanReturn ==
    pc = "returned" /\ err = {} =>
        n = N + 1 /\ conn = "up" /\ block = "idle" /\ rows = {} /\ durable = {}

\* A connection that is no longer fit for use is never handed back in silence: one
\* that was given up is reported, and one that is still inside a transaction block
\* comes with the error of the savepoint call that failed.  The latter happens in
\* one way only: an operation closed the pgx.Tx and began another transaction over
\* its connection, which the deferred rollback takes for one that is over
\* (harness.go:22-27, 33).
LeftOpenIsReported ==
    pc = "returned" =>
        /\ conn = "lost" => err # {}
        /\ block # "idle" => closed /\ err \in {{"undo"}, {"release"}}

\* Run returns if every operation does, whatever fails (harness.go:28-44).
ReturnsIfOperationsDo == []<>(pc # "operate") => <>(pc = "returned")

(***************************************************************************)
(* How a run keeps the promise of Batch.                                   *)
(***************************************************************************)
Spoiled ==
    \/ err # {} \/ conn = "lost" \/ closed
    \/ pc \in {"undo", "release"} /\ (block = "idle" \/ n \notin DOMAIN marks)

BatchState ==
    IF pc = "returned" THEN IF err = {} THEN "ok" ELSE "error"
    ELSE IF Spoiled THEN "spoiled" ELSE "open"

B == INSTANCE Batch WITH
        ran     <- n - 1,
        failed  <- {operationErrors[i] : i \in 1 .. Len(operationErrors)} \cap 1 .. n - 1,
        effects <- IF BatchState = "ok" THEN rows
                   ELSE IF BatchState # "open" THEN {}
                   ELSE IF n \in DOMAIN marks THEN marks[n] ELSE rows,
        state   <- BatchState

\* Run implements Batch: operations take place one after another, whole or not at
\* all, one that returned an error leaves no trace and does not keep the next
\* from running (harness.go:14-16).
KeepsBatch == B!Spec
=============================================================================
