------------------------------ MODULE KVStore ------------------------------
(***************************************************************************)
(* What kv.h promises of every key-value storage engine that implements    *)
(* nested transactions: the transaction level, the content, and, for each  *)
(* level above 1, the content the store would go back to if that level     *)
(* were rolled back.  A storage engine implements this module when its     *)
(* xBegin, xCommitPhaseTwo, xRollback, xRevert, xReplace and xDelete do    *)
(* to its visible content what the actions below do to theirs.             *)
(***************************************************************************)
EXTENDS Naturals

CONSTANTS
    Key,        \* the keys (an unstructured set: order plays no role here)
    Val,        \* the values
    NoVal,      \* stands for "no entry with this key", and is not in Val
    MaxLevel    \* the deepest transaction level the clients reach, 2 or more

Levels == 0..MaxLevel
WriteLevels == 2..MaxLevel
Content == [Key -> Val \cup {NoVal}]

VARIABLES
    iTransLevel,    \* 0: no transaction, 1: reading, 2: writing, 3..: nested
    content,        \* the entries a cursor would find
    atBegin         \* atBegin[l]: content at the Begin that raised the level
                    \* to l or above; the present content if l is not open

vars == <<iTransLevel, content, atBegin>>

TypeOK ==
    /\ iTransLevel \in Levels
    /\ content \in Content
    /\ atBegin \in [WriteLevels -> Content]

Init ==
    /\ iTransLevel = 0
    /\ content = [k \in Key |-> NoVal]
    /\ atBegin = [l \in WriteLevels |-> content]

(***************************************************************************)
(* The content that rolling back to level l restores: what was there when  *)
(* the level was raised above l.  Level 1 only reads, so rolling back to   *)
(* level 0 also restores what was there when level 2 began.                *)
(***************************************************************************)
Restored(l) == IF l >= MaxLevel THEN content
               ELSE IF l = 0 THEN atBegin[2] ELSE atBegin[l + 1]

(***************************************************************************)
(* "The xBegin method increases transaction level.  The increase may be no *)
(* more than 1 unless the transaction level is initially 0 in which case   *)
(* it can be increased immediately to 2."                                  *)
(***************************************************************************)
Begin(l) ==
    /\ l = iTransLevel + 1 \/ (iTransLevel = 0 /\ l = 2)
    /\ l \in Levels
    /\ iTransLevel' = l
    /\ UNCHANGED <<content, atBegin>>

Write(k, v) ==
    /\ iTransLevel >= 2
    /\ content' = [content EXCEPT ![k] = v]
    /\ atBegin' = [l \in WriteLevels |->
                     IF l <= iTransLevel THEN atBegin[l] ELSE content']
    /\ UNCHANGED iTransLevel

(***************************************************************************)
(* "... lowers the transaction level to the value given in the second      *)
(* argument, making all the changes made at higher transaction levels      *)
(* permanent."                                                             *)
(***************************************************************************)
CommitPhaseTwo(l) ==
    /\ l \in Levels /\ l < iTransLevel
    /\ iTransLevel' = l
    /\ atBegin' = [m \in WriteLevels |->
                     IF m <= l THEN atBegin[m] ELSE content]
    /\ UNCHANGED content

(***************************************************************************)
(* "An xRollback to level N causes the database to revert to the state it  *)
(* was in on the most recent xBegin to level N+1."                         *)
(***************************************************************************)
Rollback(l) ==
    /\ l \in Levels /\ l <= iTransLevel
    /\ iTransLevel' = l
    /\ content' = Restored(l)
    /\ atBegin' = [m \in WriteLevels |->
                     IF m <= l THEN atBegin[m] ELSE content']

(***************************************************************************)
(* "This call is equivalent to xRollback(N-1) followed by xBegin(N) but is *)
(* atomic and might be more efficient."                                    *)
(***************************************************************************)
Revert(l) ==
    /\ l \in Levels \ {0} /\ l <= iTransLevel
    /\ iTransLevel' = l
    /\ content' = Restored(l - 1)
    /\ atBegin' = [m \in WriteLevels |->
                     IF m <= l - 1 THEN atBegin[m] ELSE content']

(***************************************************************************)
(* Closing a store and opening a new one in its place.  The content of an  *)
(* in-memory store does not survive.                                       *)
(***************************************************************************)
Reopen ==
    /\ iTransLevel' = 0
    /\ content' = [k \in Key |-> NoVal]
    /\ atBegin' = [l \in WriteLevels |-> content']

Next ==
    \/ \E l \in Levels : Begin(l)
    \/ \E k \in Key, v \in Val \cup {NoVal} : Write(k, v)
    \/ \E l \in Levels : CommitPhaseTwo(l)
    \/ \E l \in Levels : Rollback(l)
    \/ \E l \in Levels : Revert(l)
    \/ Reopen

Spec == Init /\ [][Next]_vars
=============================================================================
