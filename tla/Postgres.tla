------------------------------ MODULE Postgres ------------------------------
(***************************************************************************)
(* The one PostgreSQL session a run uses, and the rows the run can add or  *)
(* change, seen through pgx.  It is outside the repository; it is modelled *)
(* from how internal/database, internal/runner and internal/session use it.*)
(*                                                                         *)
(* "rows" is what the session sees of the run's own changes and "durable"  *)
(* what of them survives the session; a statement outside a transaction    *)
(* commits by itself.  Both are relative to the contents before the run:   *)
(* the empty set is an untouched database.                                 *)
(***************************************************************************)
EXTENDS Preflight

VARIABLES
    conn,       \* "none" | "up" | "lost" | "closed"
    txStatus,   \* "idle" | "active" | "failed"
    role,       \* current_user
    settings,   \* current value of every session setting
    rows,       \* {<<"owner", f>>, <<"taken", f>>, <<"planted", a>>}
    durable

server == <<conn, txStatus, role, settings, rows, durable>>

NoSettings == [g \in Gucs |-> Unset]

ServerInit ==
    /\ conn = "none" /\ txStatus = "idle"
    /\ role = LoginRole /\ settings = NoSettings
    /\ rows = {} /\ durable = {}

Dial == conn = "none" /\ conn' = "up" /\ UNCHANGED <<txStatus, role, settings, rows, durable>>

\* The server notices the end of the session and rolls back.
Lose ==
    /\ conn = "up"
    /\ conn' = "lost" /\ txStatus' = "idle" /\ rows' = durable
    /\ UNCHANGED <<role, settings, durable>>

HangUp ==
    /\ conn' = IF conn = "up" THEN "closed" ELSE conn
    /\ txStatus' = "idle" /\ rows' = durable
    /\ UNCHANGED <<role, settings, durable>>

BeginTx == txStatus' = "active" /\ UNCHANGED <<conn, role, settings, rows, durable>>

\* Everything SET LOCAL and set_config(.., true) did ends with the transaction.
RollbackTx ==
    /\ txStatus' = "idle" /\ rows' = durable
    /\ role' = LoginRole /\ settings' = NoSettings
    /\ UNCHANGED <<conn, durable>>

\* A statement raises an error: its effects are undone, and a transaction it
\* ran in accepts nothing but a rollback from here on.
Raise ==
    /\ txStatus' = IF txStatus = "idle" THEN "idle" ELSE "failed"
    /\ UNCHANGED <<conn, role, settings, rows, durable>>

Accepting == conn = "up" /\ txStatus # "failed"

Write(new) ==
    /\ rows' = new
    /\ durable' = IF txStatus = "idle" THEN new ELSE durable
    /\ UNCHANGED <<conn, txStatus, role, settings>>

\* The setting an identity does not mention keeps its value.
Overlay(base, identity) ==
    [g \in Gucs |-> IF identity.settings[g] = Unset THEN base[g]
                    ELSE identity.settings[g]]

\* Outside a transaction SET LOCAL warns and set_config(.., true) is undone at
\* the end of its statement.
SetLocal(identity) ==
    /\ IF txStatus = "idle"
       THEN UNCHANGED <<role, settings>>
       ELSE role' = identity.role /\ settings' = Overlay(settings, identity)
    /\ UNCHANGED <<conn, txStatus, rows, durable>>
=============================================================================
