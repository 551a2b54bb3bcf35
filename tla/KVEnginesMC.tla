----------------------------- MODULE KVEnginesMC -----------------------------
(***************************************************************************)
(* Both engines built on a library, for one run of TLC: a process is       *)
(* linked with one of them.                                                *)
(***************************************************************************)
EXTENDS KVBdbCursor

CONSTANT WtFailing  \* the calls of WiredTiger that may fail

VARIABLES engine, wt, between

W == INSTANCE KVWt WITH Failing <- WtFailing, Calls <- {}

MCInit == CursorInit /\ W!Init /\ engine \in {"kvbdb", "kvwt"}

BdbStep == engine = "kvbdb" /\ CursorNext /\ UNCHANGED <<engine, wt, between>>
WtStep == engine = "kvwt" /\ W!Next /\ UNCHANGED <<engine, kv, committing, cursor>>

MCNext == BdbStep \/ WtStep

MCSpec == MCInit /\ [][MCNext]_<<engine, cursorVars, wt, between>>

\* The return code of the last method is read by nothing that follows.
AllButReturnCode ==
    <<engine, [kv EXCEPT !.rc = "OK"], committing, cursor,
      [wt EXCEPT !.rc = "OK"], between>>

\* KVWt!ImplementsKVStore: the engine keeps the promises of kv.h up to level 2.
WtImplementsKVStore == W!ImplementsKVStore
=============================================================================
