------------------------------ MODULE KVEngine ------------------------------
(***************************************************************************)
(* What the models of the two storage engines that are built on a library, *)
(* KVBdb and KVWt, have in common.                                         *)
(***************************************************************************)
EXTENDS Integers, FiniteSets

CONSTANTS
    Key, Val, NoVal,    \* as in KVStore; keys are numbers, in memcmp order
    MaxLevel,           \* the deepest level the clients reach
    NULL,
    Failing,            \* library calls that may fail
    Calls               \* what clients do beyond what the engine is good for

ASSUME KVEngineAssumption ==
    /\ Key \subseteq Nat /\ NoVal \notin Val
    /\ MaxLevel \in Nat /\ MaxLevel >= 2 /\ MaxLevel <= 16

Level == 0..MaxLevel
Content == [Key -> Val \cup {NoVal}]
Empty == [k \in Key |-> NoVal]

\* How a call of the library may turn out.
Outcomes(what) == IF what \in Failing THEN {"OK", "ERROR"} ELSE {"OK"}
=============================================================================
