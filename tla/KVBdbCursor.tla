---------------------------- MODULE KVBdbCursor ----------------------------
(***************************************************************************)
(* The cursors of the BerkeleyDB storage engine (kvbdb_common.c) on top of *)
(* its transactions.  Up to level 1 all cursors of a store are one cursor  *)
(* of the library, that of the store (pCsr); from level 2 on each has one  *)
(* of its own, which belongs to the transaction of the level at which it   *)
(* was opened and ends with it.                                            *)
(***************************************************************************)
EXTENDS KVBdb, TLC

CONSTANTS
    Csr,        \* the cursors of the clients
    BigVal,     \* the values that do not fit into a cursor's buffer
    ManyUpTo    \* bound: the deepest level with more than one open cursor

ASSUME KVBdbCursorAssumption == BigVal \subseteq Val /\ ManyUpTo \in Nat

VARIABLE cursor     \* the KVBdbCursor objects

cursorVars == <<kv, committing, cursor>>

NoCsr == [open |-> FALSE, level |-> 0, csr |-> NULL, dir |-> "NONE",
          eof |-> FALSE, cached |-> NULL]

CursorInit == Init /\ cursor = [c \in Csr |-> NoCsr]

Open == {c \in Csr : cursor[c].open}
MayOpen(n, l) == l <= ManyUpTo \/ n <= 1
Sharing(c) == {b \in Open : cursor[b].csr = cursor[c].csr}

-----------------------------------------------------------------------------
(* The library's cursor d, in the state s: the rows it can be moved to,    *)
(* and the row it is on.  A get that fails leaves it where it is.          *)

Rows(s, d) == LET seen == View(s, s.dbc[d].txn) IN {k \in Key : seen[k] # NoVal}
Pos(s, d) == s.dbc[d].pos
MoveTo(s, d, k) == [s EXCEPT !.dbc[d].pos = k]

Least(ks) == CHOOSE k \in ks : \A j \in ks : k <= j
Greatest(ks) == CHOOSE k \in ks : \A j \in ks : j <= k

\* What DB_NEXT and DB_PREV find.
After(s, d) == {k \in Rows(s, d) : Pos(s, d) = NULL \/ k > Pos(s, d)}
Before(s, d) == {k \in Rows(s, d) : Pos(s, d) = NULL \/ k < Pos(s, d)}

\* A cursor of a transaction that has a child is refused.
Refused(s, d) == s.dbc[d].txn # NULL /\ Below(s, s.dbc[d].txn) # {}

-----------------------------------------------------------------------------
(* Opening and closing.                                                    *)

\* Wrong on purpose: the store's cursor is used at every level.
OpenCursor_AlwaysRead(c) ==
    /\ c \notin Open /\ kv.iTransLevel >= 1
    /\ MayOpen(Cardinality(Open) + 1, kv.iTransLevel)
    /\ kv.iTransLevel = 1 => "shared_cursors" \in Calls
                             \/ \A b \in Open : cursor[b].csr # kv.pCsr
    /\ \E s \in OpenRead([kv EXCEPT !.rc = "OK"]) :
        /\ kv' = s
        /\ cursor' = IF s.rc # "OK" THEN cursor
                     ELSE [cursor EXCEPT ![c] =
                             [NoCsr EXCEPT !.open = TRUE, !.csr = s.pCsr,
                                           !.level = kv.iTransLevel]]
    /\ UNCHANGED committing

\* kvbdbOpenCursor.  Clients that know better open only one at level 1.
OpenCursor(c) ==
    /\ c \notin Open /\ kv.iTransLevel >= 1
    /\ MayOpen(Cardinality(Open) + 1, kv.iTransLevel)
    /\ kv.iTransLevel = 1 => "shared_cursors" \in Calls
                             \/ \A b \in Open : cursor[b].csr # kv.pCsr
    /\ \E s \in IF kv.iTransLevel = 1 THEN OpenRead([kv EXCEPT !.rc = "OK"])
                ELSE {IF rc = "OK"
                      THEN [LibOpen(kv, FreeDbc(kv), kv.pTxn[kv.iTransLevel])
                              EXCEPT !.rc = rc]
                      ELSE [kv EXCEPT !.rc = rc] : rc \in Outcomes("cursor")} :
        /\ kv' = s
        /\ cursor' = IF s.rc # "OK" THEN cursor
                     ELSE [cursor EXCEPT ![c] =
                             [NoCsr EXCEPT !.open = TRUE, !.level = kv.iTransLevel,
                                           !.csr = IF kv.iTransLevel = 1 THEN s.pCsr
                                                   ELSE FreeDbc(kv)]]
    /\ UNCHANGED committing

\* kvbdbCloseCursor: with it goes the store's cursor if that is what it uses.
CloseCursor(c) ==
    LET d == cursor[c].csr
    IN /\ c \in Open
       /\ kv' = [LibClose(kv, d) EXCEPT
                   !.rc = "OK", !.pCsr = IF d = @ THEN NULL ELSE @]
       /\ cursor' = [cursor EXCEPT ![c] = NoCsr]
       /\ UNCHANGED committing

-----------------------------------------------------------------------------
(* Moving.  A result is the state after it, with the return code, and      *)
(* whether the cursor is at EOF.                                           *)

Result(s, rc, atEOF) == [s |-> [s EXCEPT !.rc = rc], eof |-> atEOF]

kvbdbSeekEQ(s, d, k) ==
    IF k \in Rows(s, d) THEN Result(MoveTo(s, d, k), "OK", FALSE)
    ELSE Result(s, "NOTFOUND", TRUE)

kvbdbSeekGE(s, d, k) ==
    LET found == {j \in Rows(s, d) : j >= k}
    IN IF found = {} THEN Result(s, "NOTFOUND", TRUE)
       ELSE Result(MoveTo(s, d, Least(found)),
                   IF Least(found) = k THEN "OK" ELSE "INEXACT", FALSE)

\* Wrong on purpose: from the first row after the key there is no step back.
kvbdbSeekLE_NoPrev(s, d, k) ==
    LET rows == Rows(s, d)
        found == {j \in rows : j >= k}
    IN IF rows = {} THEN Result(s, "NOTFOUND", TRUE)
       ELSE IF found = {} THEN Result(MoveTo(s, d, Greatest(rows)), "INEXACT", FALSE)
       ELSE Result(MoveTo(s, d, Least(found)),
                   IF k \in rows THEN "OK" ELSE "INEXACT", FALSE)

\* DB_SET_RANGE finds the first row from the key on; from there DB_PREV, or
\* DB_LAST when there is none.  When DB_PREV fails the cursor stays after the
\* key and, since EOF is cleared at the end, does not say that it is at EOF.
kvbdbSeekLE(s, d, k) ==
    LET rows == Rows(s, d)
        found == {j \in rows : j >= k}
        less == {j \in rows : j < k}
    IN IF k \in rows THEN Result(MoveTo(s, d, k), "OK", FALSE)
       ELSE IF less # {} THEN Result(MoveTo(s, d, Greatest(less)), "INEXACT", FALSE)
       ELSE IF found # {} THEN Result(MoveTo(s, d, Least(found)), "NOTFOUND", FALSE)
       ELSE Result(s, "NOTFOUND", TRUE)

\* kvbdbSeek, with its three directions.
SeekResult(c, k, dir) ==
    LET d == cursor[c].csr
    IN IF ~kv.dbc[d].open THEN Result([kv EXCEPT !.stale = TRUE], "MISUSE", TRUE)
       ELSE IF Refused(kv, d) THEN Result(kv, "MISUSE", TRUE)
       ELSE IF dir = "EQ" THEN kvbdbSeekEQ(kv, d, k)
       ELSE IF dir = "LE" THEN kvbdbSeekLE(kv, d, k)
       ELSE kvbdbSeekGE(kv, d, k)

Seek(c, k, dir) ==
    /\ c \in Open
    /\ \E r \in {SeekResult(c, k, dir)} :
        /\ kv' = r.s
        /\ cursor' = [cursor EXCEPT ![c] =
                        [@ EXCEPT !.eof = r.eof, !.cached = NULL,
                                  !.dir = IF r.s.rc \in {"OK", "INEXACT"} THEN dir
                                          ELSE "NONE"]]
    /\ UNCHANGED committing

\* Wrong on purpose: what was read of the row before is kept.
Step_KeepsCache(c, forward) ==
    LET d == cursor[c].csr
        found == IF forward THEN After(kv, d) ELSE Before(kv, d)
        r == IF cursor[c].dir \notin {"EQ", IF forward THEN "GE" ELSE "LE"}
             THEN Result(kv, "MISMATCH", cursor[c].eof)
             ELSE IF cursor[c].eof THEN Result(kv, "MISUSE", TRUE)
             ELSE IF ~kv.dbc[d].open
             THEN Result([kv EXCEPT !.stale = TRUE], "MISUSE", TRUE)
             ELSE IF Refused(kv, d) THEN Result(kv, "MISUSE", TRUE)
             ELSE IF found = {} THEN Result(kv, "NOTFOUND", TRUE)
             ELSE Result(MoveTo(kv, d, IF forward THEN Least(found) ELSE Greatest(found)),
                         "OK", FALSE)
    IN /\ c \in Open
       /\ kv' = r.s
       /\ cursor' = [cursor EXCEPT ![c] = [@ EXCEPT !.eof = r.eof]]
       /\ UNCHANGED committing

\* kvbdbNextEntry and kvbdbPrevEntry: only in the direction of the last seek
\* (after an exact one, in both).
Step(c, forward) ==
    LET d == cursor[c].csr
        found == IF forward THEN After(kv, d) ELSE Before(kv, d)
        r == IF cursor[c].dir \notin {"EQ", IF forward THEN "GE" ELSE "LE"}
             THEN Result(kv, "MISMATCH", cursor[c].eof)
             ELSE IF cursor[c].eof THEN Result(kv, "MISUSE", TRUE)
             ELSE IF ~kv.dbc[d].open
             THEN Result([kv EXCEPT !.stale = TRUE], "MISUSE", TRUE)
             ELSE IF Refused(kv, d) THEN Result(kv, "MISUSE", TRUE)
             ELSE IF found = {} THEN Result(kv, "NOTFOUND", TRUE)
             ELSE Result(MoveTo(kv, d, IF forward THEN Least(found) ELSE Greatest(found)),
                         "OK", FALSE)
    IN /\ c \in Open
       /\ kv' = r.s
       /\ cursor' = [cursor EXCEPT ![c] = [@ EXCEPT !.eof = r.eof, !.cached = NULL]]
       /\ UNCHANGED committing

-----------------------------------------------------------------------------
(* Reading, deleting, resetting.                                           *)

\* kvbdbKey and kvbdbData: the row is read into the cursor's buffers once.  For
\* a row that does not fit the buffers are never enlarged: the library is asked
\* for the sizes with buffers of length 0, which it calls too small again.
Read(c) ==
    LET d == cursor[c].csr
        row == <<Pos(kv, d), View(kv, kv.dbc[d].txn)[Pos(kv, d)]>>
    IN /\ c \in Open /\ cursor[c].cached = NULL
       /\ IF ~kv.dbc[d].open
          THEN /\ kv' = [kv EXCEPT !.stale = TRUE]
               /\ UNCHANGED cursor
          ELSE IF Refused(kv, d)
          THEN /\ kv' = [kv EXCEPT !.rc = "MISUSE"]
               /\ cursor' = [cursor EXCEPT ![c].eof = TRUE]
          ELSE IF Pos(kv, d) \notin Rows(kv, d)
          THEN /\ kv' = [kv EXCEPT !.rc = "NOTFOUND"]
               /\ cursor' = [cursor EXCEPT ![c].eof = TRUE]
          ELSE IF row[2] \in BigVal
          THEN /\ kv' = [kv EXCEPT !.rc = "ERROR"]
               /\ UNCHANGED cursor
          ELSE /\ kv' = [kv EXCEPT !.rc = "OK"]
               /\ cursor' = [cursor EXCEPT ![c].eof = FALSE, ![c].cached = row]
       /\ UNCHANGED committing

\* kvbdbDelete.  The row goes from the transaction of the cursor, what has been
\* read of it stays in the buffers.
Delete(c) ==
    LET d == cursor[c].csr
        h == kv.dbc[d].txn
    IN /\ c \in Open /\ ~Between
       /\ kv' = IF kv.iTransLevel < 2 THEN [kv EXCEPT !.rc = "INTERNAL"]
                ELSE IF ~kv.dbc[d].open THEN [kv EXCEPT !.stale = TRUE]
                ELSE IF Refused(kv, d) \/ h = NULL THEN [kv EXCEPT !.rc = "MISUSE"]
                ELSE IF Pos(kv, d) \notin Rows(kv, d) THEN [kv EXCEPT !.rc = "ERROR"]
                ELSE [kv EXCEPT !.rc = "OK", !.txn[h].view[Pos(kv, d)] = NoVal]
       /\ UNCHANGED <<committing, cursor>>

\* kvbdbReset: the library's cursor stays where it is.
Reset(c) ==
    /\ c \in Open
    /\ cursor' = [cursor EXCEPT ![c] = [@ EXCEPT !.dir = "NONE", !.eof = FALSE,
                                                 !.cached = NULL]]
    /\ UNCHANGED <<kv, committing>>

-----------------------------------------------------------------------------
(* The methods of the store, called by clients that close their cursors    *)
(* before what they are opened in ends, as sqlite4VdbeHalt does with those *)
(* of its statement.                                                       *)

ClosedFrom(l) == "cursors_survive" \in Calls \/ \A c \in Open : cursor[c].level < l

\* The lowest level whose cursors end when a commit, or a rollback, goes to l.
CommitEnds(l) == IF l = 0 THEN 0 ELSE IF l = 1 THEN 2 ELSE l + 1
RollbackEnds(l) == IF l = 1 THEN 2 ELSE l

StoreNext ==
    \/ \E l \in Level \ {0} : MayOpen(Cardinality(Open), l) /\ Begin(l)
    \/ \E l \in Level : ClosedFrom(CommitEnds(l)) /\ (PhaseOne(l) \/ PhaseTwo(l) \/ Commit(l))
    \/ \E l \in Level : ClosedFrom(RollbackEnds(l)) /\ Rollback(l)
    \/ \E l \in Level \ {0} : ClosedFrom(RollbackEnds(l - 1)) /\ Revert(l)
    \/ \E k \in Key, v \in Val : Write(k, v)

CursorNext ==
    \/ StoreNext /\ UNCHANGED cursor
    \/ \E c \in Csr : OpenCursor(c) \/ CloseCursor(c)
    \/ \E c \in Csr, k \in Key, dir \in {"EQ", "LE", "GE"} : Seek(c, k, dir)
    \/ \E c \in Csr, forward \in BOOLEAN : Step(c, forward)
    \/ \E c \in Csr : Read(c) \/ Delete(c) \/ Reset(c)

CursorSpec == CursorInit /\ [][CursorNext]_cursorVars

\* Cursors differ in nothing but their name.
CursorsAlike == Permutations(Csr)

-----------------------------------------------------------------------------
(* Properties.                                                             *)

\* The values the variables may have.
CursorTypeOK ==
    /\ TypeOK
    /\ cursor \in [Csr -> [open : BOOLEAN, level : Level, csr : Dbc \cup {NULL},
                           dir : {"NONE", "EQ", "LE", "GE"}, eof : BOOLEAN,
                           cached : (Key \X Val) \cup {NULL}]]

\* Every open cursor has an open cursor of the library to itself, in the
\* transaction of the level at which it was opened, and the library has no
\* other but that of the store: the calls of kvbdbBegin, kvbdbRollback and
\* kvbdbCloseCursor that open, close and share it never lose or free one
\* that is in use (kvbdb_common.c:773-779, 3026-3034, 3208-3225).
DbcsAreOwned ==
    /\ \A d \in Dbc : kv.dbc[d].open =>
        d = kv.pCsr \/ \E c \in Open : cursor[c].csr = d
    /\ \A c \in Open :
        /\ Sharing(c) = {c}
        /\ kv.dbc[cursor[c].csr].open
        /\ IF cursor[c].level < 2
           THEN cursor[c].csr = kv.pCsr /\ kv.dbc[cursor[c].csr].txn = NULL
           ELSE kv.dbc[cursor[c].csr].txn = kv.pTxn[cursor[c].level]

\* The engine and the library agree on what exists: each level has its live
\* transaction, each cursor its own cursor of the library, only the outermost
\* transaction is prepared, and nothing that has ended is used.
HandlesAreSound ==
    NoStaleHandle /\ HandlesFollowLevels /\ PreparedOnlyBetween /\ DbcsAreOwned

\* What a cursor has in its buffers is the row it is on: xKey and xData never
\* answer for one row while xDelete deletes another (kv.h:102-112).
BuffersHoldTheRow ==
    \A c \in Open : cursor[c].cached # NULL =>
        cursor[c].cached[1] = Pos(kv, cursor[c].csr)

\* In every state, a seek of any cursor that succeeds leaves it on the nearest
\* row in its direction, exact or not as it says, and one that finds nothing is
\* right (kv.h:67-92).
SeekFindsNearest ==
    \A c \in Open, k \in Key, dir \in {"EQ", "LE", "GE"} :
        LET d == cursor[c].csr
            after == SeekResult(c, k, dir).s
            pos == Pos(after, d)
            fits == {j \in Rows(kv, d) : CASE dir = "EQ" -> j = k
                                           [] dir = "LE" -> j <= k
                                           [] dir = "GE" -> j >= k}
        IN /\ after.rc = "OK" => pos = k /\ k \in fits
           /\ after.rc = "INEXACT" =>
                /\ pos \in fits /\ k \notin fits
                /\ \A j \in fits : IF dir = "LE" THEN j <= pos ELSE j >= pos
           /\ after.rc = "NOTFOUND" => fits = {}

\* "A cursor is at all times pointing to either an entry in the database or
\* to EOF" (kv.h:62): while it is open, only its own xSeek, xNext and xPrev
\* move it, whatever other cursors do (kv.h:120-126).
CursorKeepsItsPlace ==
    [][\A c \in Open :
        cursor'[c].open /\ Pos(kv', cursor[c].csr) # Pos(kv, cursor[c].csr) =>
            \/ \E k \in Key, dir \in {"EQ", "LE", "GE"} : Seek(c, k, dir)
            \/ \E forward \in BOOLEAN : Step(c, forward)]_cursorVars

\* "or else the seek fails and the cursor is left pointing to EOF" (kv.h:68-77).
FailedSeekIsAtEOF ==
    \A c \in Open, k \in Key, dir \in {"EQ", "LE", "GE"} :
        SeekResult(c, k, dir).s.rc = "NOTFOUND" => SeekResult(c, k, dir).eof

\* A row that exists can be read, whatever its size.
RowsCanBeRead ==
    [][\A c \in Open :
        Read(c) /\ Pos(kv, cursor[c].csr) \in Rows(kv, cursor[c].csr)
                /\ ~Refused(kv, cursor[c].csr) => kv'.rc = "OK"]_cursorVars
=============================================================================
