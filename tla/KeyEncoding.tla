---------------------------- MODULE KeyEncoding ----------------------------
(***************************************************************************)
(* The keys of tables and indexes, src/sqlite4-build/src/vdbecodec.c: how  *)
(* a row of values becomes one byte string, and how byte strings are cut   *)
(* into fields again.  Two rows of one table or index are encoded in step, *)
(* column by column, so that their keys can be compared.                   *)
(***************************************************************************)
EXTENDS Varint

CONSTANTS
    Tables,     \* pairs of table numbers
    FirstVal,   \* values of the first column
    NextVal     \* values of the columns after it

NField == 2     \* pKeyInfo->nField

VARIABLES
    tables,     \* the table numbers of the two keys
    order,      \* aSortOrder: of each column, "asc" or "desc"
    rows,       \* the values encoded so far, of both rows
    keys        \* the two keys

vars == <<tables, order, rows, keys>>

Null == [t |-> "null"]
Num(sign, m, e) == [t |-> "num", sign |-> sign, m |-> m, e |-> e]
Text(z) == [t |-> "text", z |-> z]
Blob(z) == [t |-> "blob", z |-> z]

NaN == Num(0, 0, 1000)
Inf(sign) == Num(sign, 1, 1000)
IsSpecial(v) == v.e > 999

-----------------------------------------------------------------------------
(* encodeOneKeyValue.                                                      *)

TrailingZeros(m) == Max({k \in 0..9 : m % 10^k = 0})

RECURSIVE Centimals(_)
Centimals(m) == IF m = 0 THEN <<>> ELSE Append(Centimals(m \div 100), m % 100)

Invert(z) == [k \in DOMAIN z |-> 255 - z[k]]

\* A number that is not zero, without trailing zeros: its digits in base 100,
\* and the power of 100 that brings the point in front of them.
Normal(v) ==
    LET z == TrailingZeros(v.m)
        m == v.m \div 10^z
        e == v.e + z
        digits == IF e % 2 = 0 THEN Centimals(m)
                  ELSE Append(Centimals(m \div 10), 10 * (m % 10))
    IN [digits |-> digits,
        e |-> Len(digits) + (e \div 2)]

\* Wrong on purpose: the exponent of a small number is not inverted.
EncodeNumericKey_SmallNotInverted(v) ==
    IF v.m = 0 THEN IF IsSpecial(v) THEN <<6>> ELSE <<21>>
    ELSE IF IsSpecial(v) THEN IF v.sign = 1 THEN <<7>> ELSE <<35>>
    ELSE LET n == Normal(v)
             mantissa == [k \in DOMAIN n.digits |->
                              2 * n.digits[k] + (IF k < Len(n.digits) THEN 1 ELSE 0)]
             head == IF n.e >= 11 THEN <<34>> \o PutVarint(n.e)
                     ELSE IF n.e >= 0 THEN <<23 + n.e>>
                     ELSE <<22>> \o PutVarint(-n.e)
             code == head[1]
         IN IF v.sign = 0 THEN head \o mantissa
            ELSE <<42 - code>> \o Invert(Tail(head) \o mantissa)

\* encodeNumericKey.  The codes of negative numbers mirror those of positive
\* ones around zero, 0x15, and all that follows the code is inverted.
EncodeNumericKey(v) ==
    IF v.m = 0 THEN IF IsSpecial(v) THEN <<6>> ELSE <<21>>
    ELSE IF IsSpecial(v) THEN IF v.sign = 1 THEN <<7>> ELSE <<35>>
    ELSE LET n == Normal(v)
             mantissa == [k \in DOMAIN n.digits |->
                              2 * n.digits[k] + (IF k < Len(n.digits) THEN 1 ELSE 0)]
             head == IF n.e >= 11 THEN <<34>> \o PutVarint(n.e)
                     ELSE IF n.e >= 0 THEN <<23 + n.e>>
                     ELSE <<22>> \o Invert(PutVarint(-n.e))
         IN IF v.sign = 0 THEN head \o mantissa
            ELSE <<42 - head[1]>> \o Invert(Tail(head) \o mantissa)

\* The bits of a byte string, and a group of them as the low bits of a byte.
Bits(z) == [k \in 1..(8 * Len(z)) |->
                (z[(k - 1) \div 8 + 1] \div 2^(7 - ((k - 1) % 8))) % 2]
Group(bits, k) ==
    FoldLeft(LAMBDA x, j : 2 * x + (IF j <= Len(bits) THEN bits[j] ELSE 0),
             0, [j \in 1..7 |-> 7 * (k - 1) + j])

\* A blob that is not the last value: seven bits in each byte.
BlobBytes(z) ==
    LET bits == Bits(z) IN [k \in 1..((8 * Len(z) + 6) \div 7) |-> 128 + Group(bits, k)]

\* Text ends where its first zero byte is.
UpToZero(z) == SubSeq(z, 1, Min({k \in 1..Len(z) : z[k] = 0} \cup {Len(z) + 1}) - 1)

Ascending(v, isLastValue) ==
    CASE v.t = "null" -> <<5>>
      [] v.t = "num" -> EncodeNumericKey(v)
      [] v.t = "text" -> <<36>> \o UpToZero(v.z) \o <<0>>
      [] v.t = "blob" /\ isLastValue -> <<38>> \o v.z
      [] OTHER -> <<37>> \o BlobBytes(v.z) \o <<0>>

EncodeOneKeyValue(v, sortOrder, isLastValue) ==
    LET z == Ascending(v, isLastValue)
    IN IF sortOrder = "desc" THEN Invert(z) ELSE z

-----------------------------------------------------------------------------
(* sqlite4VdbeShortKey and sqlite4VdbeDecodeNumericKey.                    *)

\* The position after the first byte from p on that passes a test.
After(z, p, Test(_)) == 1 + Min({k \in p..Len(z) : Test(z[k])} \cup {Len(z) + 1})

InvertedVarint == {22, 8, 221, 235}         \* 0x16, 0x08, 0xDD, 0xEB
PlainVarint == {34, 247, 20, 233}           \* 0x22, 0xF7, 0x14, 0xE9
OneByte == {5, 250, 6, 249, 7, 248, 21, 234, 35, 220}

\* Wrong on purpose: the exponent of a large or small number is not skipped.
AfterExponent_NotSkipped(z, p) == p + 1

\* The position of the digits of a number whose code is at p.
AfterExponent(z, p) ==
    LET c == z[p]
        d == IF c \in InvertedVarint THEN 255 - z[p + 1] ELSE z[p + 1]
    IN IF c \notin InvertedVarint \cup PlainVarint THEN p + 1
       ELSE p + 2 + (IF d > 240 THEN 1 ELSE 0) + (IF d > 248 THEN d - 248 ELSE 0)

\* The position after the field whose code is at p, in a key of n bytes at the
\* start of z.  Text and numbers may be cut: then the scan runs on past n.
AfterField(z, n, p) ==
    LET c == z[p]
    IN CASE c \in OneByte -> p + 1
         [] c \in {36, 37} -> After(z, p + 1, LAMBDA b : b = 0)
         [] c \in {219, 218} -> After(z, p + 1, LAMBDA b : b = 255)
         [] c \in {38, 217} -> n + 1
         [] OTHER -> IF c < 21 \/ (c > 220 /\ c < 234)
                     THEN After(z, AfterExponent(z, p), LAMBDA b : b % 2 = 1)
                     ELSE After(z, AfterExponent(z, p), LAMBDA b : b % 2 = 0)

RECURSIVE Scan(_, _, _, _, _)
Scan(z, n, nField, p, i) ==
    IF i = nField \/ p > n THEN [size |-> p - 1, fields |-> i]
    ELSE LET q == AfterField(z, n, p)
         IN IF q > n + 1 THEN [size |-> q - 1, fields |-> i]
            ELSE Scan(z, n, nField, q, i + 1)

\* sqlite4VdbeShortKey of the first n bytes of z: the length of the key without
\* all but its first nField fields, and how many fields there were.
ShortKey(z, n, nField) == Scan(z, n, nField, GetVarint64(z).size + 1, 0)

\* sqlite4VdbeDecodeNumericKey: the value, and whether it is one.
DecodeNumericKey(z) ==
    LET c == z[1]
        inverted == c \in {20, 233, 8, 221} \cup 9..19 \cup 222..232
        varint == IF c \in InvertedVarint THEN Invert(SubSeq(z, 2, 3)) ELSE SubSeq(z, 2, 3)
        first == AfterExponent(z, 1)
        digits == [k \in first..Len(z) |-> IF inverted THEN 255 - z[k] ELSE z[k]]
        last == Min({k \in DOMAIN digits : digits[k] % 2 = 0})
        m == FoldLeft(LAMBDA x, k : 100 * x + digits[k] \div 2, 0,
                      [j \in 1..(last - first + 1) |-> first + j - 1])
        e == CASE c \in 9..19 -> 19 - c
               [] c \in 236..246 -> c - 236
               [] c \in 23..33 -> c - 23
               [] c \in 222..232 -> 232 - c
               [] c \in {20, 233, 22, 235} -> -VarintOf(varint)
               [] OTHER -> VarintOf(varint)
        sign == IF c \in 9..19 \cup 236..246 THEN 1 ELSE 0
    IN CASE c \in {6, 249} -> NaN
         [] c \in {7, 248} -> Inf(1)
         [] c \in {21, 234} -> Num(0, 0, 0)
         [] c \in {35, 220} -> Inf(0)
         [] OTHER -> Num(sign, m, 2 * (e - (last - first + 1)))

-----------------------------------------------------------------------------
(* sqlite4VdbeEncodeKey, for the two rows.                                 *)

Init ==
    /\ tables \in Tables
    /\ order \in [1..NField -> {"asc", "desc"}]
    /\ rows = <<<<>>, <<>>>>
    /\ keys = [k \in 1..2 |-> PutVarint(tables[k])]

\* The next column of both rows.
EncodeColumn(v, w) ==
    LET i == Len(rows[1]) + 1
    IN /\ i <= NField
       /\ rows' = <<Append(rows[1], v), Append(rows[2], w)>>
       /\ keys' = <<keys[1] \o EncodeOneKeyValue(v, order[i], i = NField),
                    keys[2] \o EncodeOneKeyValue(w, order[i], i = NField)>>
       /\ UNCHANGED <<tables, order>>

Next == LET V == IF rows[1] = <<>> THEN FirstVal ELSE NextVal
        IN \E v, w \in V : EncodeColumn(v, w)

Spec == Init /\ [][Next]_vars

-----------------------------------------------------------------------------
(* The order of values, as numbers, texts and blobs are compared.          *)

Rank(v) ==
    CASE v.t = "null" -> 0
      [] v.t = "num" /\ IsSpecial(v) /\ v.m = 0 -> 1
      [] v.t = "num" -> 2
      [] v.t = "text" -> 3
      [] v.t = "blob" -> 4

\* Of finite numbers that are not zero, the place of the first digit; and with
\* it equal, exponents that differ by as much as the numbers of digits do.
Digits(m) == Max({k \in 1..9 : 10^(k - 1) <= m})
Place(v) == v.e + Digits(v.m)
Smaller(v, w) ==
    \/ Place(v) < Place(w)
    \/ /\ Place(v) = Place(w)
       /\ v.m * 10^(Max({0, v.e - w.e})) < w.m * 10^(Max({0, w.e - v.e}))

Side(v) == IF v.m = 0 THEN 0 ELSE IF v.sign = 1 THEN -1 ELSE 1
NumBefore(v, w) ==
    \/ Side(v) < Side(w)
    \/ Side(v) = Side(w) /\ Side(v) = 1 /\ Smaller(v, w)
    \/ Side(v) = Side(w) /\ Side(v) = -1 /\ Smaller(w, v)

ValBefore(v, w) ==
    \/ Rank(v) < Rank(w)
    \/ /\ Rank(v) = Rank(w)
       /\ CASE v.t = "num" -> Rank(v) = 2 /\ NumBefore(v, w)
            [] v.t \in {"text", "blob"} -> Before(v.z, w.z)
            [] OTHER -> FALSE

SameVal(v, w) == ~ValBefore(v, w) /\ ~ValBefore(w, v)

RowBefore ==
    \E i \in DOMAIN rows[1] :
        /\ \A j \in 1..(i - 1) : SameVal(rows[1][j], rows[2][j])
        /\ IF order[i] = "asc" THEN ValBefore(rows[1][i], rows[2][i])
                               ELSE ValBefore(rows[2][i], rows[1][i])
SameRow == \A i \in DOMAIN rows[1] : SameVal(rows[1][i], rows[2][i])

-----------------------------------------------------------------------------
(* Properties.                                                             *)

\* "The encoding is designed such that memcmp() can be used to sort the keys
\* into their proper order": rows with equal values have equal keys, and keys
\* are ordered as the rows are, column by column, each in its direction, after
\* the table numbers (vdbecodec.c:728-799, 820-918; www/key_encoding.wiki).
KeysSortAsRows ==
    IF tables[1] # tables[2]
    THEN Before(keys[1], keys[2]) <=> tables[1] < tables[2]
    ELSE /\ Before(keys[1], keys[2]) <=> RowBefore
         /\ keys[1] = keys[2] <=> SameRow

\* They do when the last column is not one of blobs in descending order: such a
\* blob ends with nothing that would sort a prefix of it after it.
KeysSortButLastBlobs ==
    ~(/\ Len(rows[1]) = NField /\ order[NField] = "desc"
      /\ \A k \in 1..2 : rows[k][NField].t = "blob")
    => KeysSortAsRows

\* A key is cut into fields where they were put together: the first n fields
\* are what encoding the first n values gave, which is what a seek by some of
\* the columns and the way from an index to its table rely on
\* (vdbecodec.c:925-1001; vdbe.c:2779, 3072, 3784).
ShortKeyFindsFields ==
    \A k \in 1..2 : \A n \in 0..Len(rows[k]) :
        LET head == FoldLeft(LAMBDA z, i : z \o EncodeOneKeyValue(rows[k][i], order[i], i = NField),
                             PutVarint(tables[k]), [i \in 1..n |-> i])
        IN ShortKey(keys[k], Len(keys[k]), n) = [size |-> Len(head), fields |-> n]

CommonBytes ==
    LET n == Min({Len(keys[1]), Len(keys[2])})
    IN Min({i \in 0..n : i = n \/ keys[1][i + 1] # keys[2][i + 1]})
CommonFields ==
    Min({i \in 0..Len(rows[1]) : i = Len(rows[1]) \/ ~SameVal(rows[1][i + 1], rows[2][i + 1])})

\* Two keys that agree in some bytes agree in the fields that those bytes hold
\* as a whole, and in no other (OP_AnalyzeKey, vdbe.c:3441-3449).
PrefixCountsFields ==
    tables[1] = tables[2] =>
        ShortKey(keys[1], CommonBytes, NField + 1).fields = CommonFields

\* It does when no blob comes last, which AfterField takes to the end of the
\* bytes that it was given.
PrefixCountsFieldsButBlobs ==
    (\A k \in 1..2 : Len(rows[k]) = NField => rows[k][NField].t # "blob") => PrefixCountsFields

Decoded(v, sortOrder) == DecodeNumericKey(EncodeOneKeyValue(v, sortOrder, FALSE))

\* What OP_NewRowid and OP_Rowid read from the key of a row is its number, in
\* ascending or descending tables (vdbecodec.c:162-311; vdbe.c:3180, 3511).
RowidsReadBack ==
    \A k \in 1..2 : \A i \in DOMAIN rows[k] :
        LET v == rows[k][i]
        IN v.t = "num" /\ v.e = 0 => SameVal(Decoded(v, order[i]), v)

\* What is asked of a key without its types is answered right: where its fields
\* end, how many two keys have in common, and the number of its row.
FieldsReadBack == ShortKeyFindsFields /\ PrefixCountsFieldsButBlobs /\ RowidsReadBack

\* Every number that a key holds reads back.
NumbersReadBack ==
    \A k \in 1..2 : \A i \in DOMAIN rows[k] :
        LET v == rows[k][i] IN v.t = "num" => SameVal(Decoded(v, order[i]), v)
=============================================================================
