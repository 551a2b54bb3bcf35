------------------------------- MODULE Varint -------------------------------
(***************************************************************************)
(* The variable-length integers of src/sqlite4-build/src/varint.c.  A      *)
(* 64-bit integer is the sequence of its 8 bytes, most significant first,  *)
(* because TLC's own integers have 32 bits; so is any other bit string.    *)
(***************************************************************************)
EXTENDS Integers, Sequences, SequencesExt, FiniteSetsExt

Byte == 0..255

\* The n low bytes of an integer, in two's complement.
BigEndian(x, n) == [k \in 1..n |-> (x \div 256^(n - k)) % 256]

\* The natural number that some bytes are, in either direction.
AsNat(s) == FoldLeft(LAMBDA x, b : 256 * x + b, 0, s)
AsU64(x) == [k \in 1..8 |-> IF k <= 4 THEN 0 ELSE BigEndian(x, 4)[k - 4]]

\* memcmp, and then the shorter first: the order of the keys of every store.
Before(s, t) ==
    LET n == Min({Len(s), Len(t)})
        diffs == {k \in 1..n : s[k] # t[k]}
    IN IF diffs = {} THEN Len(s) < Len(t) ELSE s[Min(diffs)] < t[Min(diffs)]

LeadingZeros(u) == Min({k \in 0..8 : k = 8 \/ u[k + 1] # 0})

\* sqlite4PutVarint64.
PutVarint64(u) ==
    LET n == 8 - LeadingZeros(u)
        x == AsNat(SubSeq(u, 6, 8))
    IN IF n > 3 \/ x > 67823 THEN <<247 + Max({n, 3})>> \o SubSeq(u, 9 - Max({n, 3}), 8)
       ELSE IF x <= 240 THEN <<x>>
       ELSE IF x <= 2287 THEN <<(x - 240) \div 256 + 241, (x - 240) % 256>>
       ELSE <<249>> \o BigEndian(x - 2288, 2)

PutVarint(x) == PutVarint64(AsU64(x))

\* sqlite4GetVarint64: how many bytes were read, 0 when they are not all there,
\* and the value.
GetVarint64(z) ==
    LET size == IF z[1] <= 240 THEN 1 ELSE IF z[1] <= 248 THEN 2 ELSE z[1] - 246
    IN IF z = <<>> \/ Len(z) < size THEN [size |-> 0, u |-> AsU64(0)]
       ELSE [size |-> size,
             u |-> CASE size = 1 -> AsU64(z[1])
                     [] size = 2 -> AsU64((z[1] - 241) * 256 + z[2] + 240)
                     [] size = 3 -> AsU64(2288 + 256 * z[2] + z[3])
                     [] OTHER -> [k \in 1..(9 - size) |-> 0] \o SubSeq(z, 2, size)]

\* The value of a varint that is known to be small.
VarintOf(z) == AsNat(SubSeq(GetVarint64(z).u, 5, 8))
=============================================================================
