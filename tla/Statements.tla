----------------------------- MODULE Statements -----------------------------
(***************************************************************************)
(* internal/sqlsafe: which statements can be built, and which rows the     *)
(* WHERE clause of one picks.  A row is a function from columns to values; *)
(* quoting is left out.                                                    *)
(***************************************************************************)
EXTENDS Naturals, Sequences, FiniteSets

CONSTANTS
    Identifiers,   \* the names Identifier and isIdentifier let through
    Null           \* a value that is given but null

Elements(s) == {s[i] : i \in 1 .. Len(s)}

Identifier(name) == name \in Identifiers

Qualified(schema, table) == Identifier(schema) /\ Identifier(table)

Predicate(keys, row) ==
    keys # << >> /\ \A k \in Elements(keys) : Identifier(k) /\ k \in DOMAIN row

\* "k1 = $1 AND k2 = $2": nothing equals null.
Picks(keys, row, other) ==
    \A k \in Elements(keys) : k \in DOMAIN other /\ row[k] = other[k] /\ row[k] # Null

SelectBuilds(schema, table, keys, row) == Qualified(schema, table) /\ Predicate(keys, row)

DeleteBuilds(schema, table, keys, row) == Qualified(schema, table) /\ Predicate(keys, row)

UpdateBuilds(schema, table, keys, row, mutation) ==
    /\ Qualified(schema, table) /\ Predicate(keys, row)
    /\ Cardinality(DOMAIN mutation) = 1 /\ \A c \in DOMAIN mutation : Identifier(c)

\* The callers list the columns of the row itself.
InsertBuilds(schema, table, values) ==
    /\ Qualified(schema, table)
    /\ DOMAIN values # {} /\ \A c \in DOMAIN values : Identifier(c)
=============================================================================
