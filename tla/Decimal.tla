------------------------------ MODULE Decimal ------------------------------
(***************************************************************************)
(* The decimal numbers of src/sqlite4-build/src/math.c and the arithmetic  *)
(* of SQL on them, OP_Add to OP_Remainder of vdbe.c.  The width of the     *)
(* significand and the limits that follow from it are parameters: with 64  *)
(* bits no value could be compared with an exact one by TLC.               *)
(***************************************************************************)
EXTENDS Integers, FiniteSetsExt

CONSTANTS
    HalfWidth,      \* half of the bits of a significand, 32 in the code
    Gap,            \* exponents so far apart that one number vanishes, 40
    MxExp,          \* SQLITE4_MX_EXP, 999
    MaxRound,       \* digits that a number to be rounded may have too many, 30
    Significands, Exponents,    \* of the operands
    Ints            \* of the integers that are operands

VARIABLES
    A, B,       \* two operands
    isInt,      \* both have the type MEM_Int, otherwise MEM_Real
    op,         \* the operation that was carried out
    result      \* its result

vars == <<A, B, isInt, op, result>>

Half == 2^HalfWidth
MaxM == Half * Half - 1             \* LARGEST_UINT64
TenthMax == MaxM \div 10            \* TENTH_MAX
LargestInt == Half * (Half \div 2) - 1      \* LARGEST_INT64
SmallestInt == -LargestInt - 1              \* SMALLEST_INT64
NanExp == 2 * MxExp                 \* SQLITE4_NAN_EXP

Num(sign, m, e, approx) == [sign |-> sign, m |-> m, e |-> e, approx |-> approx]
IsInf(x) == x.e > MxExp /\ x.m # 0
IsNan(x) == x.e > MxExp /\ x.m = 0
Negated(x) == [x EXCEPT !.sign = 1 - @]

RECURSIVE Up(_, _), Down(_, _)

\* A significand is multiplied by ten while it stays in range and the exponent
\* is above e.
Up(x, e) == IF x.e > e /\ x.m <= TenthMax
            THEN Up([x EXCEPT !.m = 10 * @, !.e = @ - 1], e) ELSE x

\* A significand is divided by ten while it can be without loss and the
\* exponent is below e.
Down(x, e) == IF x.e < e /\ x.m # 0 /\ x.m % 10 = 0
              THEN Down([x EXCEPT !.m = @ \div 10, !.e = @ + 1], e) ELSE x

Stripped(x) == Down(x, MxExp + 100)

\* The digits below 10^e are cut off.
CutTo(x, e) ==
    IF x.e < e THEN [x EXCEPT !.m = @ \div 10^(e - x.e), !.e = e, !.approx = TRUE] ELSE x

\* adjustExponent, of a number and one whose exponent is not greater.
Adjusted(hi, lo) ==
    IF lo.m = 0 THEN <<hi, [lo EXCEPT !.e = hi.e]>>
    ELSE IF hi.m = 0 THEN <<[hi EXCEPT !.e = lo.e], lo>>
    ELSE IF hi.e > lo.e + Gap
    THEN <<hi, [lo EXCEPT !.m = 0, !.e = hi.e, !.approx = TRUE]>>
    ELSE LET low == Down(lo, hi.e)
             high == Up(hi, low.e)
         IN <<high, CutTo(low, high.e)>>

AdjustExponent(a, b) ==
    IF a.e < b.e THEN LET p == Adjusted(b, a) IN <<p[2], p[1]>> ELSE Adjusted(a, b)

-----------------------------------------------------------------------------
(* sqlite4_num_add and sqlite4_num_sub call each other; the signs decide    *)
(* which of these two does the work.                                       *)

\* Wrong on purpose: only the first of the digits that overflow is looked at.
SumOf_OneDigit(a, b) ==
    LET p == AdjustExponent(a, b)
        x == p[1]  y == p[2]
        approx == x.approx \/ y.approx
    IN IF a.e > MxExp THEN IF b.e > MxExp /\ b.m = 0 THEN b ELSE a
       ELSE IF b.e > MxExp THEN b
       ELSE IF x.m + y.m <= MaxM THEN [x EXCEPT !.m = @ + y.m, !.approx = approx]
       ELSE [x EXCEPT !.m = x.m \div 10 + y.m \div 10, !.e = @ + 1,
                      !.approx = approx \/ x.m % 10 # 0]

\* Two numbers of the same sign.
SumOf(a, b) ==
    LET p == AdjustExponent(a, b)
        x == p[1]  y == p[2]
        approx == x.approx \/ y.approx
    IN IF a.e > MxExp THEN IF b.e > MxExp /\ b.m = 0 THEN b ELSE a
       ELSE IF b.e > MxExp THEN b
       ELSE IF x.m + y.m <= MaxM THEN [x EXCEPT !.m = @ + y.m, !.approx = approx]
       ELSE IF x.e + 1 > MxExp
       THEN [x EXCEPT !.m = @ \div 10, !.e = @ + 1, !.approx = approx \/ x.m % 10 # 0]
       ELSE [x EXCEPT !.m = x.m \div 10 + y.m \div 10, !.e = @ + 1,
                      !.approx = approx \/ x.m % 10 # 0 \/ y.m % 10 # 0]

DifferenceOf(a, b) ==
    LET p == AdjustExponent(a, b)
        x == p[1]  y == p[2]
        approx == x.approx \/ y.approx
    IN IF a.e > MxExp \/ b.e > MxExp THEN [a EXCEPT !.e = NanExp, !.m = 0]
       ELSE IF y.m > x.m
       THEN Negated([y EXCEPT !.m = @ - x.m, !.approx = approx])
       ELSE [x EXCEPT !.m = @ - y.m, !.approx = approx]

NumAdd(a, b) ==
    IF a.sign = b.sign THEN SumOf(a, b)
    ELSE IF a.sign = 1 THEN DifferenceOf(b, [a EXCEPT !.sign = 0])
    ELSE DifferenceOf(a, [b EXCEPT !.sign = 0])

NumSub(a, b) ==
    IF a.sign = b.sign THEN DifferenceOf(a, b) ELSE SumOf(a, [b EXCEPT !.sign = a.sign])

-----------------------------------------------------------------------------
(* sqlite4_num_mul and sqlite4_num_div.                                    *)

MultWillOverflow(x, y) ==
    \/ (x \div Half) * (y \div Half) # 0
    \/ (x \div Half) * (y % Half) + (y \div Half) * (x % Half)
         + ((x % Half) * (y % Half)) \div Half > Half - 1

RECURSIVE Tens(_, _), Shrunk(_, _, _)

\* A five of x and a two of y become a ten.
Tens(x, y) == IF x.m % 5 = 0 /\ y.m % 2 = 0
              THEN Tens([x EXCEPT !.m = @ \div 5, !.e = @ + 1], [y EXCEPT !.m = @ \div 2])
              ELSE <<x, y>>

\* The larger factor loses digits until the product fits.
Shrunk(x, y, approx) ==
    IF ~MultWillOverflow(x.m, y.m)
    THEN [m |-> (x.m * y.m) % (MaxM + 1), e |-> x.e + y.e, approx |-> approx]
    ELSE IF x.m > y.m THEN Shrunk([x EXCEPT !.m = @ \div 10, !.e = @ + 1], y, TRUE)
    ELSE Shrunk(x, [y EXCEPT !.m = @ \div 10, !.e = @ + 1], TRUE)

SignOf(a, b) == (a.sign + b.sign) % 2

NumMul(a, b) ==
    IF a.e > MxExp \/ b.e > MxExp
    THEN Num(SignOf(a, b), IF a.m # 0 /\ b.m # 0 THEN 1 ELSE 0, MxExp + 1, FALSE)
    ELSE IF a.m = 0 THEN a
    ELSE IF b.m = 0 THEN b
    ELSE LET p == Tens(Stripped(a), Stripped(b))
             q == Tens(p[2], p[1])
             r == Shrunk(q[2], q[1], a.approx \/ b.approx)
         IN Num(SignOf(a, b), r.m, r.e, r.approx)

Quotient(a, b, approx) ==
    LET y == Stripped(b)
    IN [m |-> a.m \div y.m, e |-> a.e - y.e, approx |-> approx \/ a.m % y.m # 0]

RECURSIVE Filled(_)
Filled(x) == IF x.m < TenthMax THEN Filled([x EXCEPT !.m = 10 * @, !.e = @ - 1]) ELSE x

NumDiv(a, b) ==
    IF a.e > MxExp THEN [a EXCEPT !.m = 0]
    ELSE IF b.e > MxExp THEN IF b.m # 0 THEN Num(0, 0, 0, TRUE) ELSE b
    ELSE IF b.m = 0 THEN Num(SignOf(a, b), 0, NanExp, TRUE)
    ELSE IF a.m = 0 THEN a
    ELSE LET r == Quotient(Filled(a), b, a.approx \/ b.approx)
         IN Num(SignOf(a, b), r.m, r.e, r.approx)

-----------------------------------------------------------------------------
(* sqlite4_num_compare, _round, _to_int64 and _from_int64.                 *)

\* Wrong on purpose: of two negative numbers the smaller is the greater.
NumCompare_Magnitudes(a, b) ==
    LET p == AdjustExponent(a, b)
    IN IF IsInf(a) \/ IsInf(b) \/ IsNan(a) \/ IsNan(b) THEN 0
       ELSE IF a.sign # b.sign /\ a.m + b.m # 0 THEN IF a.sign = 1 THEN 1 ELSE 3
       ELSE IF p[1].m = p[2].m THEN 2 ELSE IF p[1].m < p[2].m THEN 1 ELSE 3

\* 1, 2 or 3 for less, equal or greater; 0 when the numbers cannot be compared.
NumCompare(a, b) ==
    IF IsNan(a) \/ IsNan(b) \/ (IsInf(a) /\ IsInf(b) /\ a.sign = b.sign) THEN 0
    ELSE IF IsInf(a) THEN IF a.sign = 1 THEN 1 ELSE 3
    ELSE IF IsInf(b) THEN IF b.sign = 1 THEN 3 ELSE 1
    ELSE IF a.sign # b.sign
    THEN IF a.m = 0 /\ b.m = 0 THEN 2 ELSE IF a.sign = 1 THEN 1 ELSE 3
    ELSE LET p == AdjustExponent(a, b)
             x == p[1 + a.sign]  y == p[2 - a.sign]
         IN IF x.e # y.e THEN IF x.e < y.e THEN 1 ELSE 3
            ELSE IF x.m = y.m THEN 2 ELSE IF x.m < y.m THEN 1 ELSE 3

\* The half that is added may run over the width of the significand.
NumRound(x, N) ==
    IF x.e >= -N THEN x
    ELSE IF x.e < -(N + MaxRound) THEN Num(0, 0, 0, FALSE)
    ELSE LET m == x.m \div 10^(-(N + 1) - x.e)
         IN [x EXCEPT !.m = ((m + 5) % (MaxM + 1)) \div 10, !.e = -N]

\* The integer, rounded towards zero, and whether anything was lost.
ToInt64(x) ==
    LET iRet == IF x.e >= 0 THEN x.m * 10^(Min({x.e, 4})) ELSE x.m \div 10^(Min({-x.e, 4}))
    IN IF iRet > LargestInt + x.sign
       THEN [i |-> IF x.sign = 1 THEN SmallestInt ELSE LargestInt, lossy |-> TRUE]
       ELSE [i |-> IF x.sign = 1 THEN -iRet ELSE iRet,
             lossy |-> x.approx \/ (x.e < 0 /\ x.m % 10^(Min({-x.e, 4})) # 0)]

FromInt64(i) == Num(IF i < 0 THEN 1 ELSE 0, IF i < 0 THEN -i ELSE i, 0, FALSE)

-----------------------------------------------------------------------------
(* Integers: sqlite4AddInt64, sqlite4SubInt64 and sqlite4MulInt64, which    *)
(* return nothing when they find that the result has no 64-bit value, and   *)
(* the division of C, which rounds towards zero.                           *)

AddInt64(a, b) ==
    IF \/ (b >= 0 /\ a > 0 /\ LargestInt - a < b)
       \/ (b < 0 /\ a < 0 /\ -(a + LargestInt) > b + 1)
    THEN {} ELSE {a + b}

SubInt64(a, b) ==
    IF b = SmallestInt THEN IF a >= 0 THEN {} ELSE {a - b}
    ELSE AddInt64(a, -b)

Trunc(a, b) ==
    LET q == (IF a < 0 THEN -a ELSE a) \div (IF b < 0 THEN -b ELSE b)
    IN IF (a < 0) = (b < 0) THEN q ELSE -q
Rem(a, b) == a - b * Trunc(a, b)

\* A product that overflows in C wraps around in the builds there are.
Wrapped(i) == ((i + LargestInt + 1) % (MaxM + 1)) - LargestInt - 1

MulInt64(a, b) ==
    LET a1 == Trunc(a, Half)  a0 == Rem(a, Half)
        b1 == Trunc(b, Half)  b0 == Rem(b, Half)
        r == a1 * b0 + a0 * b1
    IN IF a1 * b1 # 0 \/ r < -(Half \div 2) \/ r >= Half \div 2 THEN {}
       ELSE AddInt64(r * Half, Wrapped(a0 * b0))

-----------------------------------------------------------------------------
(* OP_Add to OP_Remainder, of pIn2 and pIn1.                               *)

Arithmetic == {"Add", "Subtract", "Multiply", "Divide", "Remainder"}

Typed(t, n) == [t |-> t, n |-> n]
NullValue == Typed("null", FromInt64(0))

\* The operation on integers; none when it is left to fp_math.
IntResult(o, a, b) ==
    CASE o = "Add" -> AddInt64(a, b)
      [] o = "Subtract" -> SubInt64(a, b)
      [] o = "Multiply" -> MulInt64(a, b)
      [] o = "Divide" -> IF b = -1 /\ a = SmallestInt THEN {} ELSE {Trunc(a, b)}
      [] o = "Remainder" -> {Rem(a, IF b = -1 THEN 1 ELSE b)}

NumResult(o, a, b) ==
    CASE o = "Add" -> NumAdd(b, a)
      [] o = "Subtract" -> NumSub(a, b)
      [] o = "Multiply" -> NumMul(b, a)
      [] o = "Divide" -> NumDiv(a, b)
      [] o = "Remainder" -> LET j == ToInt64(b).i
                            IN FromInt64(Rem(ToInt64(a).i, IF j = -1 THEN 1 ELSE j))

\* sqlite4VdbeIntegerAffinity, of the result of two integers.
IntegerAffinity(n) ==
    IF isInt /\ ~ToInt64(n).lossy THEN Typed("int", FromInt64(ToInt64(n).i))
    ELSE Typed("real", n)

SqlResult(o) ==
    LET ints == IntResult(o, ToInt64(A).i, ToInt64(B).i)
        n == NumResult(o, A, B)
    IN IF o \in {"Divide", "Remainder"} /\ ToInt64(B).i = 0 /\ (isInt \/ o = "Remainder")
       THEN NullValue
       ELSE IF isInt /\ ints # {} THEN Typed("int", FromInt64(CHOOSE i \in ints : TRUE))
       ELSE IF IsNan(n) THEN NullValue
       ELSE IntegerAffinity(n)

-----------------------------------------------------------------------------
Finite == [sign : {0, 1}, m : Significands, e : Exponents, approx : {FALSE}]
Special == [sign : {0, 1}, m : {0, 1}, e : {MxExp + 1}, approx : {FALSE}]

Init ==
    /\ \/ A \in Finite \cup Special /\ B \in Finite \cup Special /\ isInt = FALSE
       \/ \E i, j \in Ints : A = FromInt64(i) /\ B = FromInt64(j) /\ isInt = TRUE
    /\ op = "none"
    /\ result = NullValue

Operate(o) ==
    /\ op = "none" /\ op' = o
    /\ result' = SqlResult(o)
    /\ UNCHANGED <<A, B, isInt>>

\* The functions of one number.
Round(N) ==
    /\ op = "none" /\ op' = "Round"
    /\ B = Num(0, N, 0, FALSE)
    /\ result' = Typed("real", NumRound(A, N))
    /\ UNCHANGED <<A, B, isInt>>

Next ==
    \/ \E o \in Arithmetic : Operate(o)
    \/ \E N \in 0..2 : Round(N)

Spec == Init /\ [][Next]_vars

-----------------------------------------------------------------------------
(* Exact values, as integers times a power of ten.                         *)

\* m * 10^e = n * 10^f.
Equal(m, e, n, f) ==
    \/ m = 0 /\ n = 0
    \/ e \in f..(f + 6) /\ m * 10^(e - f) = n
    \/ f \in e..(e + 6) /\ m = n * 10^(f - e)

Signed(x) == IF x.sign = 1 THEN -x.m ELSE x.m
IsFinite(x) == x.e <= MxExp
Low == Min({A.e, B.e})
Shifted(x) == Signed(x) * 10^(x.e - Low)

-----------------------------------------------------------------------------
(* Properties.                                                             *)

\* The product of the low halves of two integers may overflow, which nothing
\* looks at (util.c:548).
Overruns == isInt /\ op = "Multiply" /\ A.m > Half \div 2 /\ B.m > Half \div 2

\* A result that is not marked approximate is exact, although every operation
\* has its own way to lose digits: "Integers that can be represented in 64-bits
\* are always exact" (math.c:68-220; vdbe.c:1204-1275; www/design.wiki:232-233).
ExactUnlessApprox ==
    LET r == result.n
        m == Signed(r)
    IN op \in Arithmetic /\ result.t # "null" /\ ~r.approx /\ IsFinite(r)
         /\ IsFinite(A) /\ IsFinite(B) /\ ~Overruns =>
       CASE op = "Add" -> Equal(m, r.e, Shifted(A) + Shifted(B), Low)
         [] op = "Subtract" -> Equal(m, r.e, Shifted(A) - Shifted(B), Low)
         [] op = "Multiply" -> Equal(m, r.e, Signed(A) * Signed(B), A.e + B.e)
         [] op = "Divide" /\ ~isInt -> Equal(m * Signed(B), r.e + B.e, Signed(A), A.e)
         [] OTHER -> TRUE

\* Of two integers the result is an integer whenever the exact one is in range,
\* and otherwise it is not (util.c:501-551, vdbe.c:1222-1250, vdbemem.c:313-327).
IntegersStayIntegers ==
    LET i == Signed(A)
        j == Signed(B)
        exact == CASE op = "Add" -> i + j
                   [] op = "Subtract" -> i - j
                   [] op = "Multiply" -> i * j
                   [] op = "Divide" -> Trunc(i, j)
                   [] op = "Remainder" -> Rem(i, j)
    IN isInt /\ op \in Arithmetic /\ result.t # "null" =>
       IF exact \in SmallestInt..LargestInt
       THEN result = Typed("int", FromInt64(exact))
       ELSE result.t = "real"

SmallIntegersStayIntegers == Overruns \/ IntegersStayIntegers

\* Comparison is exact although it brings both numbers to one exponent by
\* cutting digits off, and infinities are where they belong (math.c:247-277).
ComparesExactly ==
    IsFinite(A) /\ IsFinite(B) =>
        NumCompare(A, B) = IF Shifted(A) < Shifted(B) THEN 1
                           ELSE IF Shifted(A) = Shifted(B) THEN 2 ELSE 3

\* "Round the value so that it has at most N digits to the right of the decimal
\* point" (math.c:279-297): the result is half a unit away at most.
RoundsToNearest ==
    LET r == result.n
        unit == 10^(Max({0, -B.m - A.e}))
        error == r.m * unit - A.m
    IN op = "Round" /\ IsFinite(A) /\ A.e < -B.m => 2 * error \in (-unit)..unit

\* It is as long as adding the half does not run over the significand.
RoundsUnlessFull == A.m \div 10^(Max({0, -B.m - A.e - 1})) <= MaxM - 5 => RoundsToNearest

\* Digits are never lost unseen: a result that is not marked is exact, integers
\* stay integers while they can, and rounding is to the nearest.
ExactOrMarked == ExactUnlessApprox /\ SmallIntegersStayIntegers /\ RoundsUnlessFull

\* "The floating point range and accuracy exceed that of IEEE 754 binary64
\* floating point numbers" (www/design.wiki:222-223): a product is less than a
\* tenth away from the exact one.
ProductsAreClose ==
    LET r == result.n
        exact == A.m * B.m
    IN op = "Multiply" /\ ~isInt /\ IsFinite(A) /\ IsFinite(B) /\ exact # 0 =>
        10 * (exact - r.m * 10^(r.e - A.e - B.e)) <= exact

\* The same, of a quotient: it is not zero unless the dividend is.
QuotientsAreClose ==
    op = "Divide" /\ ~isInt /\ IsFinite(A) /\ IsFinite(B) /\ A.m # 0 /\ B.m # 0 =>
        result.n.m # 0
=============================================================================
