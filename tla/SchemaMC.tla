------------------------------ MODULE SchemaMC ------------------------------
(***************************************************************************)
(* The schema of a database, for TLC: tables are interchangeable.          *)
(***************************************************************************)
EXTENDS Schema, TLC

TablesAlike == Permutations(Table)
=============================================================================
