-------------------------------- MODULE Fts5 --------------------------------
(***************************************************************************)
(* A full-text index, src/sqlite4-build/src/fts5.c, and the statements     *)
(* that maintain it.  For each row that holds a token the index has an     *)
(* entry with the places of this token; beside them are the number of      *)
(* tokens of each row and the totals of the table.  A list of places and a *)
(* size record are sequences of the numbers that are stored as varints.    *)
(***************************************************************************)
EXTENDS Integers, Sequences, SequencesExt, FiniteSets, FiniteSetsExt, Functions

CONSTANTS
    Pk,             \* primary keys, which sort as numbers
    NCol,           \* columns of the table
    Documents,      \* rows: for each column the tokens that xTokenize reports
    None

VARIABLES
    docs,           \* the table: a function from the keys in use
    ftsIndex,       \* the index entries: a function from <<token, pk>>
    sizes,          \* the row size records: a function from pk
    global          \* the global size record, or None

vars == <<docs, ftsIndex, sizes, global>>

Col == 0..(NCol - 1)

NoEntries == <<>>

Init ==
    /\ docs = NoEntries
    /\ ftsIndex = NoEntries
    /\ sizes = NoEntries
    /\ global = None

-----------------------------------------------------------------------------
(* Lists of places.                                                        *)

Place(c, s, o) == [c |-> c, s |-> s, o |-> o]

ColumnMark(c) == 4 * c + 1
StreamMark(s) == 4 * s + 3

\* fts5InstanceListNext, called until the end of the list.
Places(data) ==
    LET Read(st, v) ==
            IF v % 4 = 1 THEN [st EXCEPT !.at.c = v \div 4, !.at.o = 0]
            ELSE IF v % 4 = 3 THEN [st EXCEPT !.at.s = v \div 4]
            ELSE LET here == [st.at EXCEPT !.o = @ + v \div 2]
                 IN [at |-> here, read |-> Append(st.read, here)]
    IN FoldLeft(Read, [at |-> Place(0, 0, 0), read |-> <<>>], data).read

\* fts5InstanceListAppend for each of places, in an empty list.
PlaceList(places) ==
    LET Put(st, p) ==
            LET moved == p.c # st.at.c
                base == IF moved THEN 0 ELSE st.at.o
            IN [at |-> p,
                data |-> st.data \o (IF moved THEN <<ColumnMark(p.c)>> ELSE <<>>)
                           \o (IF p.s # st.at.s THEN <<StreamMark(p.s)>> ELSE <<>>)
                           \o <<2 * (p.o - base)>>]
    IN FoldLeft(Put, [at |-> Place(0, 0, 0), data |-> <<>>], places).data

-----------------------------------------------------------------------------
(* Tokenizing a row.  A token t of stream s at offset o is [t, s, o]; the  *)
(* offsets of a column never decrease.                                     *)

NewTerm == [at |-> Place(0, 0, 0), data |-> <<>>]

\* The columns of size records with room for n streams, cleared.
NoTokens(n) == [c \in Col |-> [s \in 0..(n - 1) |-> 0]]

\* sCtx.nStream: 4, doubled until the stream is below it.
RECURSIVE StreamsFor(_, _)
StreamsFor(n, s) == IF n > s THEN n ELSE StreamsFor(2 * n, s)

\* fts5TokenizeCb, for column c.
TokenizeCb(p, c, tok) ==
    LET n == IF tok.s >= p.nStream THEN StreamsFor(4, tok.s) ELSE p.nStream
        kept == [k \in Col |-> [s \in 0..(n - 1) |-> IF s < p.nStream THEN p.sz[k][s] ELSE 0]]
        old == IF tok.t \in DOMAIN p.terms THEN p.terms[tok.t] ELSE NewTerm
        moved == c # old.at.c
        base == IF moved THEN 0 ELSE old.at.o
        new == [at |-> Place(c, tok.s, tok.o),
                data |-> old.data \o (IF tok.s # old.at.s THEN <<StreamMark(tok.s)>> ELSE <<>>)
                           \o (IF moved THEN <<ColumnMark(c)>> ELSE <<>>)
                           \o <<2 * (tok.o - base)>>]
    IN [nStream |-> n,
        sz |-> [kept EXCEPT ![c][tok.s] = @ + 1],
        terms |-> [t \in DOMAIN p.terms \cup {tok.t} |-> IF t = tok.t THEN new ELSE p.terms[t]]]

\* The loop over the columns of sqlite4Fts5Update.
Tokenized(doc) ==
    FoldLeft(LAMBDA p, c : FoldLeft(LAMBDA q, tok : TokenizeCb(q, c - 1, tok), p, doc[c]),
             [nStream |-> 0, sz |-> NoTokens(0), terms |-> NoEntries],
             [c \in 1..NCol |-> c])

-----------------------------------------------------------------------------
(* Size records.                                                           *)

\* fts5StoreSizeRecord: what follows the number of rows, if there is one.
SizeRecord(size) ==
    <<size.nStream>>
      \o FoldLeft(LAMBDA r, c : r \o [s \in 1..size.nStream |-> size.sz[c - 1][s - 1]],
                  <<>>, [c \in 1..NCol |-> c])

\* fts5LoadSizeRecord of a record that was found, without the number of rows.
LoadedSize(data, nMin) ==
    LET n == data[1]
        nAlloc == IF n < nMin THEN nMin ELSE n
    IN [nStream |-> nAlloc,
        sz |-> [c \in Col |-> [s \in 0..(nAlloc - 1) |->
                                  IF s < n THEN data[2 + c * n + s] ELSE 0]]]

\* fts5LoadSizeRecord with pnRow: without a record all is zero.
LoadedGlobal(g, nMin) ==
    IF g = None THEN [nRow |-> 0, size |-> [nStream |-> nMin, sz |-> NoTokens(nMin)]]
    ELSE [nRow |-> g[1], size |-> LoadedSize(Tail(g), nMin)]

\* fts5GetSize, within the streams of the record.
GetSize(size, iC, iS) ==
    LET C == IF iC < 0 THEN Col ELSE {iC}
        S == IF iS < 0 THEN 0..(size.nStream - 1) ELSE {iS}
    IN MapThenSumSet(LAMBDA x : size.sz[x[1]][x[2]], C \X S)

-----------------------------------------------------------------------------
(* OP_FtsUpdate and OP_Clear, on a record with the three kinds of entries. *)

Without(f, S) == [x \in DOMAIN f \ S |-> f[x]]

\* sqlite4Fts5Update.  The streams of the totals never become fewer.
FtsUpdate(x, pk, doc, bDel) ==
    LET ctx == Tokenized(doc)
        its == (DOMAIN ctx.terms) \X {pk}
        sign == IF bDel THEN -1 ELSE 1
        total == LoadedGlobal(x.global, ctx.nStream)
        sum == [nStream |-> total.size.nStream,
                sz |-> [c \in Col |-> [s \in 0..(total.size.nStream - 1) |->
                           total.size.sz[c][s]
                             + (IF s < ctx.nStream THEN sign * ctx.sz[c][s] ELSE 0)]]]
    IN [entries |-> IF bDel THEN Without(x.entries, its)
                    ELSE [k \in its |-> ctx.terms[k[1]].data] @@ x.entries,
        sizes |-> IF bDel THEN Without(x.sizes, {pk})
                  ELSE (pk :> SizeRecord(ctx)) @@ x.sizes,
        global |-> <<total.nRow + sign>> \o SizeRecord(sum)]

\* OP_Clear of the index: every key with its root page number.
Cleared == [entries |-> NoEntries, sizes |-> NoEntries, global |-> None]

Stored == [entries |-> ftsIndex, sizes |-> sizes, global |-> global]

Store(x) ==
    /\ ftsIndex' = x.entries
    /\ sizes' = x.sizes
    /\ global' = x.global

\* Mutant: the totals still count the row.
WithoutRow_StillCounted(x, pk) ==
    IF pk \in DOMAIN docs
    THEN [FtsUpdate(x, pk, docs[pk], TRUE) EXCEPT !.global = x.global] ELSE x

\* The index entries of row pk, deleted by sqlite4GenerateRowIndexDelete.
WithoutRow(x, pk) ==
    IF pk \in DOMAIN docs THEN FtsUpdate(x, pk, docs[pk], TRUE) ELSE x

\* The loop of sqlite4RefillIndex over the rows, in the order of their keys.
Filled(x, rows) ==
    FoldLeft(LAMBDA y, pk : FtsUpdate(y, pk, rows[pk], FALSE), x,
             SetToSortSeq(DOMAIN rows, <))

-----------------------------------------------------------------------------
(* Statements.  A key in use makes INSERT and UPDATE fail, or, with OR     *)
(* REPLACE, deletes its row first.                                         *)

Insert(pk, doc) ==
    /\ Store(FtsUpdate(WithoutRow(Stored, pk), pk, doc, FALSE))
    /\ docs' = (pk :> doc) @@ docs

Delete(pk) ==
    /\ pk \in DOMAIN docs
    /\ Store(WithoutRow(Stored, pk))
    /\ docs' = Without(docs, {pk})

\* sqlite4Update: constraint checks, sqlite4GenerateRowIndexDelete, then
\* sqlite4CompleteInsertion, also when only the primary key changes.
Update(pk, new, doc) ==
    /\ pk \in DOMAIN docs
    /\ LET replaced == IF new = pk THEN Stored ELSE WithoutRow(Stored, new)
       IN Store(FtsUpdate(WithoutRow(replaced, pk), new, doc, FALSE))
    /\ docs' = (new :> doc) @@ Without(docs, {pk})

\* DELETE without WHERE: OP_Clear of the table and of each index.
DeleteAll ==
    /\ Store(Cleared)
    /\ docs' = NoEntries

\* REINDEX: OP_Clear, then a pass over the table.
Reindex ==
    /\ Store(Filled(Cleared, docs))
    /\ UNCHANGED docs

Next ==
    \/ \E pk \in Pk, doc \in Documents : Insert(pk, doc)
    \/ \E pk \in Pk : Delete(pk)
    \/ \E pk, new \in Pk, doc \in Documents : Update(pk, new, doc)
    \/ DeleteAll
    \/ Reindex

Spec == Init /\ [][Next]_vars

-----------------------------------------------------------------------------
\* The tokens of a column, of one stream or, if s < 0, of all.
Count(doc, c, s) == Len(SelectSeq(doc[c + 1], LAMBDA tok : s < 0 \/ tok.s = s))

\* The places of token t in a row, in the order in which they are reported.
PlacesOf(doc, t) ==
    FoldLeft(LAMBDA r, c : r \o FoldLeft(LAMBDA q, tok :
                                  IF tok.t = t THEN Append(q, Place(c - 1, tok.s, tok.o)) ELSE q,
                                <<>>, doc[c]),
             <<>>, [c \in 1..NCol |-> c])

TermsOf(doc) == UNION {{doc[c][k].t : k \in DOMAIN doc[c]} : c \in 1..NCol}

\* What queries read of the index is what the rows hold, after any sequence of
\* statements: no entry is left of a row that is gone or has changed, each
\* list decodes to the places of its token, and the sizes and totals that
\* ranking divides by count the tokens of the rows.  The totals are updated
\* by differences and never recomputed.
FtsIndexIsExact ==
    /\ DOMAIN ftsIndex = UNION {TermsOf(docs[pk]) \X {pk} : pk \in DOMAIN docs}
    /\ \A k \in DOMAIN ftsIndex :
          LET places == PlacesOf(docs[k[2]], k[1])
          IN Places(ftsIndex[k]) = places /\ Places(PlaceList(places)) = places
    /\ DOMAIN sizes = DOMAIN docs
    /\ \A pk \in DOMAIN docs :
          LET size == LoadedSize(sizes[pk], 0)
          IN \A c \in Col, s \in -1..(size.nStream - 1) :
                GetSize(size, c, s) = Count(docs[pk], c, s)
    /\ LET total == LoadedGlobal(global, 0)
           Sum(c, s) == MapThenSumSet(LAMBDA pk : Count(docs[pk], c, s), DOMAIN docs)
       IN /\ total.nRow = Cardinality(DOMAIN docs)
          /\ \A c \in Col, s \in -1..(total.size.nStream - 1) :
                GetSize(total.size, c, s) = Sum(c, s)
          /\ GetSize(total.size, -1, -1) = MapThenSumSet(LAMBDA c : Sum(c, -1), Col)

\* The assertion of sqlite4Fts5Update: only stream 0 is counted in the totals.
OnlyFirstStreamIsCounted ==
    LET size == LoadedGlobal(global, 0).size
    IN \A c \in Col, s \in 1..(size.nStream - 1) : size.sz[c][s] = 0
=============================================================================
