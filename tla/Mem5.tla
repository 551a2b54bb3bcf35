-------------------------------- MODULE Mem5 --------------------------------
(***************************************************************************)
(* The memory allocator of src/sqlite4-build/src/mem5.c: a fixed pool cut  *)
(* into blocks of a power of two of atoms, a control byte per atom, a list *)
(* of free blocks per size, blocks split by malloc and joined with their   *)
(* buddies by free.  The links kept inside the free blocks are modelled by *)
(* sequences.  Each call runs under one mutex, so it is one action.        *)
(***************************************************************************)
EXTENDS Naturals, Sequences, SequencesExt, FiniteSetsExt

CONSTANTS
    Pools,          \* the numbers of atoms that the pool may have, less than
                    \* twice the largest block
    LogMax,         \* logarithm of the largest block
    MaxOut,         \* bound on the atoms that the program has checked out
    MaxLogSize      \* bound on the logarithm of the size of a request

VARIABLES
    nBlock,     \* atoms in the pool
    ctrl,       \* aCtrl: of each atom, the byte that describes a block there
    freelist,   \* aiFreelist: the free blocks of each size
    held,       \* the blocks that the program has
    refused     \* the last request was refused

vars == <<nBlock, ctrl, freelist, held, refused>>

Atom == 0..(nBlock - 1)
Log == 0..LogMax
Ctrl == [free : BOOLEAN, log : Log]

\* One byte of aCtrl is left as the application's memory had it.
Junk == {[free |-> FALSE, log |-> 0], [free |-> TRUE, log |-> 0], [free |-> TRUE, log |-> 1]}

\* memsys5Init gives out the pool from the largest size down, at most one block
\* of each size: the binary digits of nBlock.
Initially(log) == (nBlock \div 2^log) % 2 = 1
FirstOf(log) == (nBlock \div 2^(log + 1)) * 2^(log + 1)

Init ==
    /\ nBlock \in Pools
    /\ \E junk \in Junk :
        ctrl = [a \in Atom |->
                    LET here == {log \in Log : Initially(log) /\ FirstOf(log) = a}
                    IN IF here = {} THEN junk
                       ELSE [free |-> TRUE, log |-> CHOOSE log \in here : TRUE]]
    /\ freelist = [log \in Log |-> IF Initially(log) THEN <<FirstOf(log)>> ELSE <<>>]
    /\ held = {}
    /\ refused = FALSE

-----------------------------------------------------------------------------
(* Free lists.                                                             *)

Unlink(fl, i, log) == [fl EXCEPT ![log] = SelectSeq(@, LAMBDA x : x # i)]
Link(fl, i, log) == [fl EXCEPT ![log] = <<i>> \o @]

AfterUnlinkFirst(fl, log, i) == Unlink(fl, i, log)

\* memsys5UnlinkFirst: the block with the lowest address, but the loop ends at
\* block 0 as if that were the end of the list.
First(fl, log) ==
    LET s == fl[log]
        end == Min({k \in 1..Len(s) : s[k] = 0} \cup {Len(s) + 1})
    IN IF end = 1 THEN 0 ELSE Min({s[k] : k \in 1..(end - 1)})

\* The size of the list that malloc takes a block from; none when there is none.
Bins(fl, log) == {b \in log..LogMax : fl[b] # <<>>}

-----------------------------------------------------------------------------
(* memsys5MallocUnsafe and memsys5FreeUnsafe, as functions of the control  *)
(* bytes and the free lists.                                               *)

\* Wrong on purpose: the halves that are split off keep their old byte.
Split_NoCtrl(st, i, bin, log) ==
    [ctrl |-> [st.ctrl EXCEPT ![i] = [free |-> FALSE, log |-> log]],
     fl |-> [b \in Log |-> IF b \in log..(bin - 1)
                           THEN <<i + 2^b>> \o st.fl[b] ELSE st.fl[b]]]

\* Block i of size 2^bin becomes one of size 2^log; the halves split off are
\* free.
Split(st, i, bin, log) ==
    [ctrl |-> [a \in Atom |->
                 IF a = i THEN [free |-> FALSE, log |-> log]
                 ELSE IF \E b \in log..(bin - 1) : a = i + 2^b
                 THEN [free |-> TRUE, log |-> CHOOSE b \in log..(bin - 1) : a = i + 2^b]
                 ELSE st.ctrl[a]],
     fl |-> [b \in Log |-> IF b \in log..(bin - 1)
                           THEN <<i + 2^b>> \o st.fl[b] ELSE st.fl[b]]]

Buddy(i, log) == IF (i \div 2^log) % 2 = 1 THEN i - 2^log ELSE i + 2^log

\* The block can be joined with its buddy, which is inside the pool and free
\* as a whole.
JoinsBuddy(c, i, log) ==
    LET b == Buddy(i, log)
    IN /\ log < LogMax
       /\ b + 2^log <= nBlock
       /\ c[b] = [free |-> TRUE, log |-> log]

\* The loop of memsys5FreeUnsafe, from a block that is free and on no list.
RECURSIVE Coalesce(_, _, _)
Coalesce(st, i, log) ==
    IF ~JoinsBuddy(st.ctrl, i, log)
    THEN [st EXCEPT !.fl = Link(@, i, log)]
    ELSE LET b == Buddy(i, log)
             low == Min({i, b})
             high == Max({i, b})
         IN Coalesce([ctrl |-> [st.ctrl EXCEPT ![low] = [free |-> TRUE, log |-> log + 1],
                                               ![high] = [free |-> FALSE, log |-> 0]],
                      fl |-> Unlink(st.fl, b, log)],
                     low, log + 1)

\* Wrong on purpose: the block is not joined with its buddies.
Released_NoCoalesce(st, i) ==
    LET log == st.ctrl[i].log
    IN [ctrl |-> [st.ctrl EXCEPT ![i].free = TRUE], fl |-> Link(st.fl, i, log)]

\* The first and the last control byte of the block are marked free, then the
\* first is written again.
Released(st, i) ==
    LET log == st.ctrl[i].log
    IN Coalesce([st EXCEPT !.ctrl = [@ EXCEPT ![i + 2^log - 1].free = TRUE,
                                              ![i] = [free |-> TRUE, log |-> log]]],
                i, log)

State == [ctrl |-> ctrl, fl |-> freelist]
Becomes(st) == ctrl' = st.ctrl /\ freelist' = st.fl

\* The block that a request of 2^log atoms gets, and the state after it.
Allocation(log) ==
    LET bin == Min(Bins(freelist, log))
        i == First(freelist, bin)
    IN [block |-> i,
        state |-> Split([State EXCEPT !.fl = AfterUnlinkFirst(@, bin, i)], i, bin, log)]

-----------------------------------------------------------------------------
(* The calls.                                                              *)

SizeOf(i) == 2^(ctrl[i].log)
Out == MapThenSumSet(SizeOf, held)

\* memsys5Malloc.
Malloc(log) ==
    /\ Out + 2^log <= MaxOut
    /\ IF Bins(freelist, log) = {}
       THEN refused' = TRUE /\ UNCHANGED <<ctrl, freelist, held>>
       ELSE LET a == Allocation(log)
            IN /\ Becomes(a.state)
               /\ held' = held \cup {a.block}
               /\ refused' = FALSE

\* memsys5Free.
Free(i) ==
    /\ i \in held
    /\ Becomes(Released(State, i))
    /\ held' = held \ {i}
    /\ refused' = FALSE

\* memsys5Realloc to a larger size: a new block, a copy, and the old one freed.
\* A smaller size keeps the block.
Realloc(i, log) ==
    /\ i \in held /\ log > ctrl[i].log
    /\ Out + 2^log <= MaxOut
    /\ IF Bins(freelist, log) = {}
       THEN refused' = TRUE /\ UNCHANGED <<ctrl, freelist, held>>
       ELSE LET a == Allocation(log)
            IN /\ Becomes(Released(a.state, i))
               /\ held' = (held \ {i}) \cup {a.block}
               /\ refused' = FALSE

Next ==
    /\ \/ \E log \in 0..MaxLogSize : Malloc(log)
       \/ \E i \in held : Free(i) \/ \E log \in 0..MaxLogSize : Realloc(i, log)
    /\ UNCHANGED nBlock

Spec == Init /\ [][Next]_vars

-----------------------------------------------------------------------------
(* Properties.                                                             *)

FreeBlocks == UNION {{<<i, log>> : i \in Range(freelist[log])} : log \in Log}
HeldBlocks == {<<i, ctrl[i].log>> : i \in held}
AtomsOf(b) == b[1]..(b[1] + 2^(b[2]) - 1)

\* The blocks that the program has and those on the free lists cover the pool
\* and do not overlap: nothing is given out twice and nothing is lost,
\* whatever the order of the calls (mem5.c:265-280, 316-348).
BlocksTileThePool ==
    /\ \A b, c \in FreeBlocks \cup HeldBlocks : b # c => AtomsOf(b) \cap AtomsOf(c) = {}
    /\ UNION {AtomsOf(b) : b \in FreeBlocks \cup HeldBlocks} = Atom
    /\ \A log \in Log : \A j, k \in DOMAIN freelist[log] :
            j # k => freelist[log][j] # freelist[log][k]

\* A block is on the list of its size exactly when the byte at its address says
\* so, which is what memsys5Unlink and memsys5Link assert and all that
\* memsys5FreeUnsafe asks before it joins two blocks; bytes inside of blocks
\* may say anything, and are never taken for the byte of a block
\* (mem5.c:146, 169, 334-335).
ListsFollowCtrl ==
    /\ \A b \in FreeBlocks : ctrl[b[1]] = [free |-> TRUE, log |-> b[2]]
    /\ \A i \in held : ~ctrl[i].free
    /\ \A i \in held : JoinsBuddy(ctrl, i, ctrl[i].log) =>
            <<Buddy(i, ctrl[i].log), ctrl[i].log>> \in FreeBlocks

\* "If two adjacent free blocks are the halves of a larger block, then the two
\* blocks are coalesed into the single larger block." (mem5.c:30-31)
BuddiesAreJoined ==
    \A b \in FreeBlocks : b[2] < LogMax => <<Buddy(b[1], b[2]), b[2]>> \notin FreeBlocks

\* After any calls of xMalloc, xFree and xRealloc the pool is sound: its blocks
\* tile it, lists and control bytes agree, and what can be joined is joined
\* (mem5.c:24-47, 194-398).
PoolIsSound == BlocksTileThePool /\ ListsFollowCtrl /\ BuddiesAreJoined

\* Robson's bound, which the file quotes (mem5.c:39-47): with n the largest
\* request and M the most that is checked out at a time, no request is refused
\* as long as N >= M*(1 + log2(n)/2) - n + 1.
RobsonsBound ==
    2 * nBlock >= MaxOut * (2 + MaxLogSize) - 2 * 2^MaxLogSize + 2 => ~refused

\* The bound holds of a pool that is one block; of a pool that Init has to cut
\* into several it does not.
NeverBreaksDown == nBlock \in {2^log : log \in Log} => RobsonsBound

\* "New memory is allocated from the first available free block."
\* (mem5.c:33, 207-209)
TakesTheFirst ==
    \A log \in Log : freelist[log] # <<>> =>
        First(freelist, log) = Min(Range(freelist[log]))
=============================================================================
