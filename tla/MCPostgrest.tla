---------------------------- MODULE MCPostgrest -----------------------------
(***************************************************************************)
(* Orders of operations for Postgrest: reads before and after the writes,  *)
(* writes that spoil each other, and an insert before and after them.      *)
(***************************************************************************)
EXTENDS Postgrest

SomeProbes ==
    { <<"select", "update", "insert">>, <<"delete", "select", "update">>,
      <<"update", "select", "delete">>, <<"insert", "delete", "delete">> }

OneDelete == { <<"delete", "select">> }
=============================================================================
