---------------------------- MODULE Transaction -----------------------------
(***************************************************************************)
(* One pgx.Tx over a PostgreSQL session with savepoints, as                *)
(* internal/harness uses it.  It is outside the repository.  What a run    *)
(* writes is a set of tokens, one for each operation; "rows" is what the   *)
(* session sees of them and "durable" what outlives it.                    *)
(***************************************************************************)
EXTENDS Naturals, Sequences

VARIABLES
    conn,       \* "up" | "lost"
    block,      \* the server's transaction block: "idle" | "active" | "failed"
    closed,     \* the pgx.Tx was committed or rolled back through itself
    marks,      \* the rows each existing savepoint goes back to
    rows,
    durable

session == <<conn, block, closed, marks, rows, durable>>

NoMarks == << >>

SessionInit ==
    /\ conn = "up" /\ block = "idle" /\ closed = FALSE
    /\ marks = NoMarks /\ rows = {} /\ durable = {}

\* The connection is gone; the server notices and rolls back.
Drop ==
    /\ conn' = "lost" /\ block' = "idle" /\ marks' = NoMarks /\ rows' = durable
    /\ UNCHANGED <<closed, durable>>

BeginBlock ==
    /\ block = "idle" /\ block' = "active"
    /\ UNCHANGED <<conn, closed, marks, rows, durable>>

\* SAVEPOINT
Mark(n) ==
    /\ block = "active"
    /\ marks' = [m \in (DOMAIN marks) \cup {n} |-> IF m = n THEN rows ELSE marks[m]]
    /\ UNCHANGED <<conn, block, closed, rows, durable>>

\* ROLLBACK TO SAVEPOINT: it also brings a failed block back; the savepoint stays.
BackTo(n) ==
    /\ block # "idle" /\ n \in DOMAIN marks
    /\ rows' = marks[n] /\ block' = "active"
    /\ marks' = [m \in {m \in DOMAIN marks : m <= n} |-> marks[m]]
    /\ UNCHANGED <<conn, closed, durable>>

\* RELEASE SAVEPOINT: not in a failed block; later savepoints go with it.
Forget(n) ==
    /\ block = "active" /\ n \in DOMAIN marks
    /\ marks' = [m \in {m \in DOMAIN marks : m < n} |-> marks[m]]
    /\ UNCHANGED <<conn, block, closed, rows, durable>>

\* The block ends; "kept" is what of the run's rows outlives it.
EndBlock(kept, shut) ==
    /\ durable' = kept /\ rows' = kept /\ block' = "idle" /\ marks' = NoMarks
    /\ closed' = shut /\ UNCHANGED conn

\* A statement raises an error.
Reject ==
    /\ block' = IF block = "idle" THEN "idle" ELSE "failed"
    /\ UNCHANGED <<conn, closed, marks, rows, durable>>
=============================================================================
