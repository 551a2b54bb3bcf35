---------------------------- MODULE KVMemTreeMC ----------------------------
(***************************************************************************)
(* Two instances of KVMemTree for one run of TLC: few rows whose deletion  *)
(* is logged, and many rows that are removed at once.  The keys and        *)
(* addresses that the configuration gives are those of both; the           *)
(* invariants of KVMemTree look only at nodes in the tree, so they mean    *)
(* the same in either.                                                     *)
(***************************************************************************)
EXTENDS KVMemTree

VARIABLE instance

Rows == INSTANCE KVMemTree WITH Key <- 1..3
Shape == INSTANCE KVMemTree WITH MaxCopy <- 1, Transactional <- FALSE

MCInit ==
    \/ instance = "rows" /\ Rows!Init
    \/ instance = "shape" /\ Shape!Init

RowsStep == instance = "rows" /\ Rows!Next /\ UNCHANGED instance
ShapeStep == instance = "shape" /\ Shape!Next /\ UNCHANGED instance

MCNext == RowsStep \/ ShapeStep

MCSpec == MCInit /\ [][MCNext]_<<instance, vars>>

\* States that differ only in the addresses of payloads behave alike.
View ==
    IF instance = "rows" THEN <<instance, Rows!UpToPayloadNames>>
    ELSE <<instance, vars>>
=============================================================================
