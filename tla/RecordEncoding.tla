--------------------------- MODULE RecordEncoding ---------------------------
(***************************************************************************)
(* The data of a row, src/sqlite4-build/src/vdbecodec.c: a header that has *)
(* the type and size of every column, then the contents.  The header codes *)
(* that the encoder never writes for a value (ZERO, ONE, KEY, TYPED) are   *)
(* left out of the decoder.                                                *)
(***************************************************************************)
EXTENDS Varint

CONSTANTS
    Encodings,  \* the text encodings of databases: "utf8", "utf16le", "utf16be"
    Values,     \* values of the columns
    MaxColumn   \* bound on the columns of a row

VARIABLES
    enc,        \* ENC(db)
    row,        \* the values of the columns
    data        \* the encoded row

vars == <<enc, row, data>>

Null == [t |-> "null"]
Integer(i) == [t |-> "int", i |-> i]
Real(sign, m, e) == [t |-> "real", sign |-> sign, m |-> m, e |-> e]  \* m: 8 bytes
Str(z) == [t |-> "str", z |-> z]
Blob(z) == [t |-> "blob", z |-> z]

-----------------------------------------------------------------------------
(* sqlite4VdbeEncodeData.                                                  *)

\* The bound on an integer of n bytes, for the sizes that TLC's integers have.
\* Of naturals it is below the largest that would fit.
Fits(v, n) == IF v < 0 THEN v \div 256^(n - 1) >= -128 ELSE v <= 127 * 256^(n - 1)

SignificantBytes(v) == Min({n \in 1..4 : Fits(v, n)} \cup {5})

\* Strings get a byte for their encoding, unless they are UTF-8 and their first
\* byte, a signed char, cannot be taken for one.
HasMark(z) == z # <<>> /\ (enc # "utf8" \/ z[1] < 3 \/ z[1] >= 128)
MarkOf == CHOOSE k \in 0..2 : <<"utf8", "utf16le", "utf16be">>[k + 1] = enc

\* Wrong on purpose: text that starts with a control character is not marked.
StrContent_NoMark(z) == IF enc # "utf8" /\ z # <<>> THEN <<MarkOf>> \o z ELSE z

StrContent(z) == IF HasMark(z) THEN <<MarkOf>> \o z ELSE z

RealContent(v) ==
    PutVarint((IF v.e < 0 THEN -4 * v.e + 2 ELSE 4 * v.e) + v.sign) \o PutVarint64(v.m)

Content(v) ==
    CASE v.t = "null" -> <<>>
      [] v.t = "int" -> BigEndian(v.i, SignificantBytes(v.i))
      [] v.t = "real" -> RealContent(v)
      [] v.t = "str" -> StrContent(v.z)
      [] v.t = "blob" -> v.z

HeaderCode(v) ==
    LET n == Len(Content(v))
    IN CASE v.t = "null" -> <<0>>
         [] v.t = "int" -> <<n + 2>>
         [] v.t = "real" -> <<n + 9>>
         [] v.t = "str" -> PutVarint(22 + 4 * n)
         [] v.t = "blob" -> PutVarint(23 + 4 * n)

Each(Op(_), r) == FoldLeft(LAMBDA z, v : z \o Op(v), <<>>, r)

EncodeData(r) ==
    LET header == Each(HeaderCode, r)
    IN PutVarint(Len(header)) \o header \o Each(Content, r)

-----------------------------------------------------------------------------
(* sqlite4VdbeDecoderGetColumn.                                            *)

SizeOf(type) ==
    IF type >= 22 THEN (type - 22) \div 4
    ELSE IF type = 0 THEN 0
    ELSE IF type <= 10 THEN type - 2 ELSE type - 9

\* A value of a type whose content is z.
ContentOf(type, z) ==
    CASE type = 0 -> Null
      [] type \in 3..10 ->
            Integer(AsNat(Tail(z)) + 256^(Len(z) - 1) * (IF z[1] < 128 THEN z[1] ELSE z[1] - 256))
      [] type \in 11..21 ->
            LET e == VarintOf(z)
                abs == e \div 4
            IN Real(e % 2, GetVarint64(SubSeq(z, GetVarint64(z).size + 1, Len(z))).u,
                    IF (e \div 2) % 2 = 1 THEN -abs ELSE abs)
      [] type >= 22 /\ type % 4 = 2 ->
            Str(IF z # <<>> /\ z[1] <= 2 THEN Tail(z) ELSE z)
      [] OTHER -> Blob(z)

RECURSIVE Column(_, _, _, _, _)
\* The column that is i further, from the header byte at n and the content at
\* ofst, or none when the header ends before.
Column(a, n, endHdr, ofst, i) ==
    IF n > endHdr THEN {}
    ELSE LET code == SubSeq(a, n, Len(a))
             type == VarintOf(code)
         IN IF i = 0 THEN {ContentOf(type, SubSeq(a, ofst, ofst + SizeOf(type) - 1))}
            ELSE Column(a, n + GetVarint64(code).size, endHdr, ofst + SizeOf(type), i - 1)

\* Column iVal, counted from 0, of an encoded row; the default, which a column
\* that was added to the table later has, when the row is shorter.
GetColumn(a, iVal, default) ==
    LET n == GetVarint64(a).size
        endHdr == n + VarintOf(a)
        found == Column(a, n + 1, endHdr, endHdr + 1, iVal)
    IN IF found = {} THEN default ELSE CHOOSE v \in found : TRUE

-----------------------------------------------------------------------------
Init ==
    /\ enc \in Encodings
    /\ row = <<>>
    /\ data = EncodeData(<<>>)

\* Rows of every length are encoded, each a column longer than the one before.
AddColumn(v) ==
    /\ Len(row) < MaxColumn
    /\ row' = Append(row, v)
    /\ data' = EncodeData(row')
    /\ UNCHANGED enc

Next == \E v \in Values : AddColumn(v)

Spec == Init /\ [][Next]_vars

-----------------------------------------------------------------------------
(* Properties.                                                             *)

\* Every column of a row reads back as it was written, whatever stands before
\* it, and the columns behind the last are the default (vdbecodec.c:422-532,
\* 561-671; www/data_encoding.wiki).
RowReadsBack ==
    \A i \in 0..MaxColumn :
        GetColumn(data, i, "default") = IF i < Len(row) THEN row[i + 1] ELSE "default"
=============================================================================
