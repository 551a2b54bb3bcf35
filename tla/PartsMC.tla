------------------------------ MODULE PartsMC ------------------------------
(***************************************************************************)
(* The parts that keep nothing between two calls, the containers of one    *)
(* thread, full-text search and the Lua binding, for one run of TLC: each  *)
(* behaviour is one of them, and the variables of the others stay as they  *)
(* are.                                                                    *)
(***************************************************************************)
EXTENDS Integers, Lsqlite4

CONSTANTS
    LogMax, MaxOut, MaxLogSize, MaxColumn, HalfWidth, Gap, MxExp, MaxRound,
    RowKey, MaxTerm, Batches, MaxAdd, HashKey, Nil, Threshold, MaxBucket,
    Pk, NCol, LastInStore, MaxToken,
    OddPhrases      \* ask also for phrases that are not answered as they read

VARIABLES
    what,                                           \* the part
    nBlock, ctrl, freelist, held, refused,          \* of Mem5
    tables, order, rows, keys,                      \* of KeyEncoding
    enc, row, data,                                 \* of RecordEncoding
    A, B, isInt, op, result,                        \* of Decimal
    set, nTerm, term, scanned, passed, added, earlier, out,     \* of RowSet
    list, ht, stored,                               \* of Hash
    docs, ftsIndex, sizes, global,                  \* of Fts5
    match, csr, hits,                               \* of Fts5Query
    tokens, node, root, hier, rc                    \* of Fts5Parse

poolVars == <<nBlock, ctrl, freelist, held, refused>>
keyVars == <<tables, order, rows, keys>>
recordVars == <<enc, row, data>>
decimalVars == <<A, B, isInt, op, result>>
rowSetVars == <<set, nTerm, term, scanned, passed, added, earlier, out>>
hashVars == <<list, ht, stored>>
indexVars == <<docs, ftsIndex, sizes, global>>
cursorVars == <<match, csr, hits>>
parseVars == <<tokens, node, root, hier, rc>>
ftsVars == <<indexVars, cursorVars, parseVars>>
partVars == <<poolVars, keyVars, recordVars, decimalVars, rowSetVars, hashVars, ftsVars>>

-----------------------------------------------------------------------------
(* Inputs at the boundaries of the forms that values are encoded in.       *)

\* A block of eight atoms, and a pool that is cut into three.
Pools == {8, 11}

\* Significands and exponents of numbers: equal values in two forms, exponents
\* in base 100 of either parity and on both sides of -1, 0, 10 and 240.
Mantissas ==
    {<<1, -484>>, <<1, -482>>, <<1, -4>>, <<99, -4>>, <<1, -2>>, <<1, -1>>, <<10, -2>>,
     <<9999, -3>>, <<1, 0>>, <<12, 0>>, <<123, -1>>, <<100, 0>>, <<1, 2>>, <<101, 0>>, <<99, 18>>,
     <<1, 20>>, <<1, 478>>, <<1, 480>>}
KeyNum(sign, p) == [t |-> "num", sign |-> sign, m |-> p[1], e |-> p[2]]
KeyNumbers ==
    {KeyNum(s, p) : s \in {0, 1}, p \in Mantissas}
      \cup {KeyNum(0, <<0, 1000>>), KeyNum(0, <<1, 1000>>), KeyNum(1, <<1, 1000>>),
            KeyNum(1, <<0, 3>>)}
Texts == {[t |-> "text", z |-> z] : z \in {<<>>, <<1>>, <<97>>, <<97, 98>>}}
Blobs == {[t |-> "blob", z |-> z] :
             z \in {<<>>, <<0>>, <<0, 0>>, <<128>>, <<97, 98>>,
                    <<0, 0, 0, 0, 0, 0, 0>>, <<0, 0, 0, 0, 0, 0, 254, 0>>}}
FirstVal == {[t |-> "null"]} \cup KeyNumbers \cup Texts \cup Blobs
NextVal == {[t |-> "text", z |-> <<97>>], [t |-> "blob", z |-> <<0>>],
            [t |-> "blob", z |-> <<0, 1>>]}

\* Table numbers on both sides of the forms of a varint.
Tables == {<<2, 2>>, <<2288, 2287>>, <<67823, 67824>>}

Encodings == {"utf8", "utf16le", "utf16be"}
Repeated(b, n) == [k \in 1..n |-> b]
RowInts ==
    {0, 1, -1, 127, 128, -128, -129, 32512, 32513, 32767, 32768, -32768, -32769,
     8323072, 8323073, 8388607, 8388608, -8388608, -8388609, 2130706432}
RowReal(sign, m, e) == [t |-> "real", sign |-> sign, m |-> m, e |-> e]
Values ==
    {[t |-> "null"]}
      \cup {[t |-> "int", i |-> i] : i \in RowInts}
      \cup {RowReal(0, Repeated(0, 8), 1000), RowReal(1, <<0>> \o Repeated(255, 7), -999),
            RowReal(0, Repeated(255, 8), 60), RowReal(1, Repeated(0, 7) \o <<241>>, -1)}
      \cup {[t |-> "str", z |-> z] :
               z \in {<<>>, <<0, 1>>, <<2>>, <<3>>, <<97, 0>>, <<195, 169>>, Repeated(97, 60)}}
      \cup {[t |-> "blob", z |-> z] : z \in {<<>>, <<0>>, <<2, 255>>, Repeated(1, 600)}}

Significands == {0, 1, 2, 5, 7, 9, 10, 25, 26, 125, 127, 128, 250, 255}
Exponents == {-3, -1, 0, 1, 3}
Ints == {-128, -127, -100, -64, -16, -13, -12, -8, -1, 0, 1, 2, 7, 8, 11, 12, 13, 16, 17,
         64, 100, 126, 127}

\* Keys that share a bucket in a table of two and some of those in larger ones.
HashOf == <<0, 10, 1, 11, 4>>

\* Rows with a token twice, a token that begins with another, no token at all,
\* and tokens of several streams, of which the highest makes the size record
\* grow.
a == <<1>>
ab == <<1, 2>>
b == <<2>>
Token(t, s, o) == [t |-> t, s |-> s, o |-> o]
Plain(ts) == [k \in DOMAIN ts |-> Token(ts[k], 0, k - 1)]
Documents ==
    {<<Plain(<<a, b, a>>), <<>>>>, <<Plain(<<b>>), Plain(<<ab, b, a>>)>>, <<<<>>, <<>>>>,
     <<<<Token(ab, 0, 0), Token(b, 1, 1)>>, <<Token(b, 0, 0), Token(a, 1, 1), Token(a, 5, 3)>>>>}

Full(t) == [z |-> t, pre |-> FALSE]
Pre(t) == [z |-> t, pre |-> TRUE]
PhraseOf(iCol, strs, near) == <<"p", [iCol |-> iCol, strs |-> strs, near |-> near]>>
One(token) == PhraseOf(-1, <<<<token>>>>, <<>>)

\* Operands: tokens, a prefix, a column, a phrase of two tokens, a NEAR.
Operands == {One(Full(a)), One(Full(b)), One(Pre(a)), PhraseOf(0, <<<<Full(b)>>>>, <<>>),
             PhraseOf(-1, <<<<Full(a), Full(b)>>>>, <<>>)}
Nears == {PhraseOf(-1, <<<<Full(a)>>, <<Full(b)>>>>, <<n>>) : n \in {0, 1}}
           \cup {PhraseOf(-1, <<<<Full(ab)>>, <<Full(b)>>, <<Full(a)>>>>, <<0, 1>>),
                 PhraseOf(-1, <<<<Pre(a)>>, <<Full(b)>>>>, <<0>>)}
Odd == {PhraseOf(-1, <<<<Full(b)>>, <<Full(a), Full(b)>>>>, <<1>>),
        PhraseOf(0, <<<<Full(b)>>, <<Full(a)>>>>, <<1>>),
        PhraseOf(-1, <<<<Full(a), Full(b)>>, <<Full(a)>>>>, <<1>>)}
Exprs ==
    LET Op == {"AND", "OR", "NOT"}
        Ends == {One(Full(a)), PhraseOf(0, <<<<Full(b)>>>>, <<>>)}
    IN Operands \cup Nears \cup {One(Full(<<3>>))}
         \cup {<<o, x, y>> : o \in Op, x \in Operands, y \in Operands}
         \cup {<<o, <<q, One(Full(ab)), y>>, w>> : o, q \in Op, y, w \in Ends}
         \cup {<<o, w, <<q, y, One(Full(ab))>>>> : o, q \in Op, y, w \in Ends}
         \cup (IF OddPhrases THEN Odd ELSE {})

-----------------------------------------------------------------------------
P == INSTANCE Mem5
K == INSTANCE KeyEncoding
R == INSTANCE RecordEncoding
D == INSTANCE Decimal
S == INSTANCE RowSet
H == INSTANCE Hash
Q == INSTANCE Fts5Query
T == INSTANCE Fts5Parse

NoPool == nBlock = 0 /\ ctrl = <<>> /\ freelist = <<>> /\ held = {} /\ refused = FALSE
NoKeys == tables = <<>> /\ order = <<>> /\ rows = <<>> /\ keys = <<>>
NoRecord == enc = "none" /\ row = <<>> /\ data = <<>>
NoDecimal == A = 0 /\ B = 0 /\ isInt = FALSE /\ op = "none" /\ result = 0
NoRowSet ==
    /\ set = S!Null /\ nTerm = 0 /\ term = 0 /\ scanned = {} /\ passed = <<>>
    /\ added = <<>> /\ earlier = {} /\ out = <<>>
NoQuery == match = <<>> /\ csr = None /\ hits = <<>>

\* The initial states of the other parts are also those of the runs without them.
MCInit ==
    /\ what \in {"pool", "keys", "records", "decimal", "row set", "hash", "fts", "match",
                "parse", "lua"}
    /\ Init /\ H!Init /\ T!Init
    /\ IF what = "match" THEN Q!QueryInit ELSE Q!Init /\ NoQuery
    /\ IF what = "pool" THEN P!Init ELSE NoPool
    /\ IF what = "keys" THEN K!Init ELSE NoKeys
    /\ IF what = "records" THEN R!Init ELSE NoRecord
    /\ IF what = "decimal" THEN D!Init ELSE NoDecimal
    /\ IF what = "row set" THEN S!Init ELSE NoRowSet

otherVars ==
    <<poolVars, keyVars, recordVars, decimalVars, rowSetVars, hashVars, vars>>

PoolStep ==
    /\ what = "pool" /\ P!Next
    /\ UNCHANGED <<what, keyVars, recordVars, decimalVars, rowSetVars, hashVars, ftsVars, vars>>
KeyStep ==
    /\ what = "keys" /\ K!Next
    /\ UNCHANGED <<what, poolVars, recordVars, decimalVars, rowSetVars, hashVars, ftsVars, vars>>
RecordStep ==
    /\ what = "records" /\ R!Next
    /\ UNCHANGED <<what, poolVars, keyVars, decimalVars, rowSetVars, hashVars, ftsVars, vars>>
DecimalStep ==
    /\ what = "decimal" /\ D!Next
    /\ UNCHANGED <<what, poolVars, keyVars, recordVars, rowSetVars, hashVars, ftsVars, vars>>
RowSetStep ==
    /\ what = "row set" /\ S!Next
    /\ UNCHANGED <<what, poolVars, keyVars, recordVars, decimalVars, hashVars, ftsVars, vars>>
HashStep ==
    /\ what = "hash" /\ H!Next
    /\ UNCHANGED <<what, poolVars, keyVars, recordVars, decimalVars, rowSetVars, ftsVars, vars>>
IndexStep == what = "fts" /\ Q!Next /\ UNCHANGED <<what, otherVars, cursorVars, parseVars>>
MatchStep == what = "match" /\ Q!QueryNext /\ UNCHANGED <<what, otherVars, parseVars>>
ParseStep == what = "parse" /\ T!Next /\ UNCHANGED <<what, otherVars, indexVars, cursorVars>>
LuaStep == what = "lua" /\ Next /\ UNCHANGED <<what, partVars>>

MCNext ==
    \/ PoolStep \/ KeyStep \/ RecordStep \/ DecimalStep \/ RowSetStep \/ HashStep
    \/ IndexStep \/ MatchStep \/ ParseStep \/ LuaStep

MCSpec == MCInit /\ [][MCNext]_<<what, partVars, vars>>

-----------------------------------------------------------------------------
\* Mem5!PoolIsSound: nothing is given out twice, nothing is lost, and the
\* control bytes and the free lists agree.
PoolIsSound == what = "pool" => P!PoolIsSound

\* Mem5!NeverBreaksDown: Robson's bound holds of a pool that is one block.
NeverBreaksDown == what = "pool" => P!NeverBreaksDown

\* A sound pool that is one block never breaks down below Robson's bound.
PoolServes == PoolIsSound /\ NeverBreaksDown

\* KeyEncoding!KeysSortButLastBlobs: keys sort as the rows they encode.
KeysSortButLastBlobs == what = "keys" => K!KeysSortButLastBlobs

\* KeyEncoding!KeysSortAsRows: also rows that end with a descending blob.
KeysSortAsRows == what = "keys" => K!KeysSortAsRows

\* KeyEncoding!FieldsReadBack: a key is cut where it was put together, and the
\* number of a row reads back.
FieldsReadBack == what = "keys" => K!FieldsReadBack

\* KeyEncoding!PrefixCountsFields: also when a blob comes last.
PrefixCountsFields == what = "keys" => K!PrefixCountsFields

\* KeyEncoding!NumbersReadBack: every number reads back from its key.
NumbersReadBack == what = "keys" => K!NumbersReadBack

\* RecordEncoding!RowReadsBack: every column of a row reads back.
RowReadsBack == what = "records" => R!RowReadsBack

\* FieldsReadBack of KeyEncoding and RowReadsBack of RecordEncoding: what is
\* encoded reads back.
EncodingsReadBack == FieldsReadBack /\ RowReadsBack

\* RowSet!RowSetIsSound and Hash!HashIsSound: containers return what was put there.
ContainersAreSound ==
    (what = "row set" => S!RowSetIsSound) /\ (what = "hash" => H!HashIsSound)

\* RowSet!ReadsEachOnce: a key that was added twice is read once.
ReadsEachOnce == what = "row set" => S!ReadsEachOnce

\* RowSet!PassesOnce: a row that several terms find is passed once.
PassesOnce == what = "row set" => S!PassesOnce

\* Decimal!ExactOrMarked: what is not marked approximate is exact.
ExactOrMarked == what = "decimal" => D!ExactOrMarked

\* Decimal!IntegersStayIntegers: also the product of two large ones.
IntegersStayIntegers == what = "decimal" => D!IntegersStayIntegers

\* Decimal!ComparesExactly: comparison is exact.
ComparesExactly == what = "decimal" => D!ComparesExactly

\* Both: a decimal is what it says, in results and in comparisons.
DecimalsAreExact == ExactOrMarked /\ ComparesExactly

\* Decimal!RoundsToNearest: also of a significand that is nearly full.
RoundsToNearest == what = "decimal" => D!RoundsToNearest

\* Decimal!ProductsAreClose: a product is close to the exact one.
ProductsAreClose == what = "decimal" => D!ProductsAreClose

\* Decimal!QuotientsAreClose: a quotient is close to the exact one.
QuotientsAreClose == what = "decimal" => D!QuotientsAreClose

\* Fts5!FtsIndexIsExact: the full-text index is that of the rows.
FtsIndexIsExact == what = "fts" => Q!FtsIndexIsExact

\* Fts5!OnlyFirstStreamIsCounted: tokens of other streams are not counted.
OnlyFirstStreamIsCounted == what = "fts" => Q!OnlyFirstStreamIsCounted

\* Fts5Query!FtsFindsRows: MATCH returns the rows that match.
FtsFindsRows == what = "match" => Q!FtsFindsRows

\* Fts5Query!FtsFindsMatches and Fts5Parse!FtsParsesByPrecedence: an expression
\* is read by its grammar and finds its rows, with their counts.
FtsAnswers ==
    /\ what = "match" => Q!FtsFindsMatches
    /\ what = "parse" => T!FtsParsesByPrecedence

\* Fts5Query!MissingTokenIsNoError: a token that no row holds is no error.
MissingTokenIsNoError == what = "match" => Q!MissingTokenIsNoError

\* Fts5Parse!ImplicitAndIsAnd: also an AND that is left out, beside a NOT.
ImplicitAndIsAnd == what = "parse" => T!ImplicitAndIsAnd
=============================================================================
