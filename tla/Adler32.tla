------------------------------- MODULE Adler32 -------------------------------
(***************************************************************************)
(* Adler-32: the scalar code of adler32_p.h and adler32_c.c, the vector    *)
(* kernels of every architecture, and adler32_combine.                     *)
(*                                                                         *)
(* The widths are constants.  WordSize stands for 2^32, Base for BASE,     *)
(* MaxByte for 255 and NMax for NMAX; what has 16 bits in the code holds   *)
(* 257 times MaxByte here, and a signed short 128 times.  The registers of *)
(* a kernel are modelled by the sums of their lanes, as 32-bit addition    *)
(* and shift are linear; narrower lanes are modelled one by one.           *)
(*                                                                         *)
(* buf is the interval <<lo, hi>> of positions that hold MaxByte, all      *)
(* others hold 0; off is the address of position 0.  A sum pair is         *)
(* [a, b, p]: adler, sum2 and the next position to read.                   *)
(***************************************************************************)
EXTENDS Loops, FiniteSets, FiniteSetsExt

CONSTANTS WordSize, Base, MaxByte, NMax

\* NMAX is the largest n whose sums still fit a word.
Fits(n) == MaxByte * ((n * (n + 1)) \div 2) + (n + 1) * (Base - 1) <= WordSize - 1
ASSUME NMaxAssumption == Fits(NMax) /\ ~Fits(NMax + 1)

LaneSize == 257 * MaxByte
Short == 128 * MaxByte

AlignDown(n, k) == (n \div k) * k
MinOf(a, b) == IF a < b THEN a ELSE b
MaxOf(a, b) == IF a < b THEN b ELSE a

\* The sum of n bytes from p on, and with the weights w, w-1, ...
ByteSum(buf, p, n) == MaxByte * MaxOf(0, MinOf(buf[2], p + n - 1) - MaxOf(buf[1], p) + 1)
Weighted(buf, p, n, w) ==
    LET first == MaxOf(buf[1], p)
        last == MinOf(buf[2], p + n - 1)
        count == MaxOf(0, last - first + 1)
    IN  MaxByte * (count * (w + p) - (count * (first + last)) \div 2)
\* The bytes p + c, p + c + stride, ..., m of them.
Column(buf, p, m, stride, c) ==
    {k \in 0..(m - 1) : p + k * stride + c \in buf[1]..buf[2]}

Rebase(s) == [s EXCEPT !.a = @ % Base, !.b = @ % Base]

-----------------------------------------------------------------------------
(* adler32_p.h                                                             *)

\* n times ADLER_DO1; adler32_copy_align for n bytes.
Do(s, buf, n) ==
    [a |-> (s.a + ByteSum(buf, s.p, n)) % WordSize,
     b |-> (s.b + n * s.a + Weighted(buf, s.p, n, n)) % WordSize, p |-> s.p + n]

\* Four lanes in a register, lowest first: carries go up and out.
Packed(d) ==
    LET c[i \in 1..4] == IF i = 1 THEN d[1] ELSE d[i] + c[i - 1] \div LaneSize
    IN  [i \in 1..4 |-> c[i] % LaneSize]
\* The top lane of the product of two registers.
TopOfProduct(d, w) ==
    LET Digit(i) == SumOver(LAMBDA j : d[j] * w[i + 1 - j], 1, i)
    IN  Packed([i \in 1..4 |-> Digit(i)])[4]

\* adler32_swar: n bytes, a multiple of eight, in four even and four odd lanes
\* of bytes, and the sums of all earlier values of those lanes.
Swar(s, buf, n, bigEndian) ==
    LET m == n \div 8
        Sum(c) == MaxByte * Cardinality(Column(buf, s.p, m, 8, c))
        Prefix(c) == MaxByte * MapThenSumSet(LAMBDA k : m - 1 - k, Column(buf, s.p, m, 8, c))
        Even(j) == IF bigEndian THEN 9 - 2 * j ELSE 2 * j - 2
        Odd(j) == IF bigEndian THEN 8 - 2 * j ELSE 2 * j - 1
        sum_even == Packed([j \in 1..4 |-> Sum(Even(j))])
        sum_odd == Packed([j \in 1..4 |-> Sum(Odd(j))])
        prefix_even == Packed([j \in 1..4 |-> Prefix(Even(j))])
        prefix_odd == Packed([j \in 1..4 |-> Prefix(Odd(j))])
        hsum == <<1, 1, 1, 1>>
        both == Packed([j \in 1..4 |-> sum_even[j] + sum_odd[j]])
        positional ==
            IF bigEndian
            THEN 2 * TopOfProduct(sum_even, <<3, 2, 1, 0>>) + TopOfProduct(sum_even, hsum)
                 + 2 * TopOfProduct(sum_odd, <<4, 3, 2, 1>>)
            ELSE 2 * TopOfProduct(sum_even, <<1, 2, 3, 4>>) + TopOfProduct(sum_odd, hsum)
                 + 2 * TopOfProduct(sum_odd, <<0, 1, 2, 3>>)
    IN  [a |-> (s.a + TopOfProduct(both, hsum)) % WordSize,
         b |-> (s.b + s.a * n + 8 * SumOver(LAMBDA j : prefix_even[j] + prefix_odd[j], 1, 4)
                + positional) % WordSize,
         p |-> s.p + n]

ADLER32_SWAR_MAX_BYTES == 23 * 8

\* n bytes, a multiple of eight, in chunks of at most 23 turns.
SwarChunks(s, buf, n, bigEndian) ==
    LET chunks == (n + ADLER32_SWAR_MAX_BYTES - 1) \div ADLER32_SWAR_MAX_BYTES
        end == s.p + n
    IN  Loop(LAMBDA t, i : Swar(t, buf, MinOf(end - t.p, ADLER32_SWAR_MAX_BYTES), bigEndian), s, chunks)

\* adler32_copy_tail: packed arithmetic where the address allows it.
CopyTail(s, buf, off, len, rebase, bigEndian) ==
    LET packed == IF (off + s.p) % 8 = 0 THEN AlignDown(len, 8) ELSE 0
        t == Do(SwarChunks(s, buf, packed, bigEndian), buf, len - packed)
    IN  IF rebase THEN Rebase(t) ELSE t

\* adler32_c
Adler32C(s, buf, off, len, bigEndian) ==
    LET align_diff == AlignDiff(off, 8)
        Block(t) ==
            [s |-> Rebase(SwarChunks(t.s, buf, t.nmax, bigEndian)),
             len |-> t.len - t.nmax, nmax |-> AlignDown(NMax, 8)]
        first == [s |-> Do(s, buf, align_diff), len |-> len - align_diff,
                  nmax |-> AlignDown(AlignDown(NMax, 8) - align_diff, 8)]
        end == While(LAMBDA t : t.len >= t.nmax, Block, first, len \div NMax + 2)
    IN  IF len < 16 THEN CopyTail(s, buf, off, len, TRUE, bigEndian)
        ELSE CopyTail(end.s, buf, off, end.len, end.len # 0, bigEndian)

-----------------------------------------------------------------------------
(* Vector kernels.  A register file is [vs1, vs1_0, vs2, vs3, p].          *)

Start(s) == [vs1 |-> s.a, vs1_0 |-> s.a, vs2 |-> s.b, vs3 |-> 0, p |-> s.p]

\* maddubs: products of pairs of bytes are added in a signed short.
PairSums(buf, p, n, w) ==
    LET cut == {k \in 0..(n \div 2 - 1) : (2 * (w - 2 * k) - 1) * MaxByte > Short
                                          /\ ByteSum(buf, p + 2 * k, 2) = 2 * MaxByte}
    IN  Weighted(buf, p, n, w)
        - (IF (2 * w - 1) * MaxByte <= Short THEN 0
           ELSE MapThenSumSet(LAMBDA k : (2 * (w - 2 * k) - 1) * MaxByte - Short, cut))

\* One turn of `width` bytes, weighted width .. 1: the sums before it will
\* count `width` times each.
Turn(r, buf, width) ==
    LET vs1 == (r.vs1 + ByteSum(buf, r.p, width)) % WordSize
    IN  [vs1 |-> vs1, vs1_0 |-> vs1, vs3 |-> (r.vs3 + r.vs1_0) % WordSize,
         vs2 |-> (r.vs2 + PairSums(buf, r.p, width, width)) % WordSize, p |-> r.p + width]
\* n turns, and the multiplication that was put off to their end.
TurnsOf(r, buf, width, n) ==
    LET t == Loop(LAMBDA q, i : Turn(q, buf, width), r, n)
    IN  [t EXCEPT !.vs2 = (@ + width * t.vs3) % WordSize, !.vs3 = 0]
Finish(r) == [a |-> r.vs1 % Base, b |-> r.vs2 % Base, p |-> r.p]

\* k bytes by wide turns, then by narrow ones.
TwoWidths(s, buf, k, wide, narrow) ==
    Finish(TurnsOf(TurnsOf(Start(s), buf, wide, k \div wide), buf, narrow, (k % wide) \div narrow))

\* Blocks of at most n bytes, n being NMAX after the first, while a vector of
\* `width` bytes is left; a block is cut to whole vectors.
InBlocks(s, len, n0, nmax, width, Block(_, _)) ==
    LET Next(t) ==
            LET k == AlignDown(MinOf(t.len, t.n), width)
            IN  [s |-> Block(t.s, k), len |-> t.len - k, n |-> nmax]
    IN  While(LAMBDA t : t.len >= width, Next, [s |-> s, len |-> len, n |-> n0], len \div nmax + 2)

\* adler32_ssse3: aligned to 16 when that is worth it.
Ssse3(s, buf, off, len) ==
    LET align_diff == AlignDiff(off + s.p, 16)
        short == Finish(TurnsOf(Start(s), buf, 16, 1))
        end == InBlocks(Do(s, buf, align_diff), len - align_diff, NMax - align_diff, NMax, 16,
                      LAMBDA t, k : TwoWidths(t, buf, k, 32, 16))
    IN  CASE len < 16 -> CopyTail(s, buf, off, len, TRUE, FALSE)
          [] len \in 16..31 -> CopyTail(short, buf, off, len - 16, len # 16, FALSE)
          [] OTHER -> CopyTail(end.s, buf, off, end.len, end.len # 0, FALSE)

\* adler32_copy_sse42, adler32_lsx: no alignment, the rest as a new call.
Sse42(s, buf, off, len) ==
    LET end == InBlocks(s, len, NMax, NMax, 16, LAMBDA t, k : TwoWidths(t, buf, k, 32, 16))
    IN  IF end.len = 0 /\ len >= 16 THEN end.s ELSE CopyTail(end.s, buf, off, end.len, TRUE, FALSE)
Lsx(s, buf, off, len) == Sse42(s, buf, off, len)

\* The kernels for 32 bytes leave 16 .. 31 bytes to the kernel below them.
Peeled32(s, buf, off, len, Block(_, _), Below(_, _)) ==
    LET end == InBlocks(s, len, NMax, NMax, 32, Block)
    IN  CASE end.len = 0 /\ len >= 32 -> end.s
          [] end.len \in 16..31 -> Below(end.s, end.len)
          [] OTHER -> CopyTail(end.s, buf, off, end.len, TRUE, FALSE)

Avx2(s, buf, off, len, copy) ==
    Peeled32(s, buf, off, len, LAMBDA t, k : TwoWidths(t, buf, k, 64, 32),
             LAMBDA t, n : IF copy THEN Sse42(t, buf, off, n) ELSE Ssse3(t, buf, off, n))
Lasx(s, buf, off, len) ==
    Peeled32(s, buf, off, len, LAMBDA t, k : TwoWidths(t, buf, k, 64, 32),
             LAMBDA t, n : Lsx(t, buf, off, n))
\* adler32_avx2_vnni: four vectors a turn are two steps of 64 bytes.
Avx2Vnni(s, buf, off, len) ==
    Peeled32(s, buf, off, len,
             LAMBDA t, k : Finish(TurnsOf(TurnsOf(Start(t), buf, 64, 2 * (k \div 128)), buf, 32, (k % 128) \div 32)),
             LAMBDA t, n : Ssse3(t, buf, off, n))

Avx512(s, buf, off, len, copy) ==
    LET end == InBlocks(s, len, NMax, NMax, 64, LAMBDA t, k : Finish(TurnsOf(Start(t), buf, 64, k \div 64)))
    IN  IF end.len = 0 /\ len >= 64 THEN end.s ELSE Avx2(end.s, buf, off, end.len, FALSE)
\* adler32_avx512_vnni: first what is left over from turns of four vectors.
Peeling(s, buf, k, width) ==
    LET r == Loop(LAMBDA q, i : Turn(q, buf, width), Start(s), (k % (4 * width)) \div width)
    IN  Finish(TurnsOf(r, buf, width, 4 * (k \div (4 * width))))
Avx512Vnni(s, buf, off, len) ==
    LET end == InBlocks(s, len, NMax, NMax, 64, LAMBDA t, k : Peeling(t, buf, k, 64))
    IN  CASE end.len = 0 /\ len >= 64 -> end.s
          [] end.len >= 32 -> Avx2(end.s, buf, off, end.len, FALSE)
          [] OTHER -> Ssse3(end.s, buf, off, end.len)
CopyAvx512Vnni(s, buf, off, len) ==
    LET end == InBlocks(s, len, NMax, NMax, 32, LAMBDA t, k : Peeling(t, buf, k, 32))
    IN  IF end.len = 0 /\ len >= 32 THEN end.s ELSE Ssse3(end.s, buf, off, end.len)

\* The frame of the NEON, VMX and MSA kernels: align, blocks of whole vectors
\* of 16 bytes, and a tail that also reduces what only the alignment summed.
Aligned(s, buf, off, len, align, n0, nmax, bigEndian, Block(_, _)) ==
    LET align_diff == MinOf(AlignDiff(off, align), len)
        end == InBlocks(Do(s, buf, align_diff), len - align_diff, n0, nmax, 16, Block)
    IN  IF len < 16 THEN CopyTail(s, buf, off, len, TRUE, bigEndian)
        ELSE CopyTail(end.s, buf, off, end.len, end.len # 0 \/ align_diff # 0, bigEndian)

\* adler32_neon: per position of 64 a lane of 16 bits, multiplied at the end;
\* single vectors use the last 16 positions.
NeonBlock(s, buf, k) ==
    LET m == k \div 64
        rem == (k % 64) \div 16
        In(c) == MaxByte * (Cardinality(Column(buf, s.p, m, 64, c))
                   + IF c < 48 THEN 0 ELSE Cardinality(Column(buf, s.p + 64 * m, rem, 16, c - 48)))
        taps == SumOver(LAMBDA c : (64 - c) * (In(c) % LaneSize), 0, 63)
        Sums(r, width, n) ==
            LET t == Loop(LAMBDA q, i : LET vs1 == (q.vs1 + ByteSum(buf, q.p, width)) % WordSize
                                        IN  [q EXCEPT !.vs1 = vs1, !.vs1_0 = vs1, !.p = @ + width,
                                                      !.vs3 = (@ + q.vs1_0) % WordSize], r, n)
            IN  [t EXCEPT !.vs2 = (@ + width * t.vs3) % WordSize, !.vs3 = 0]
        r == Sums(Sums(Start(s), 64, m), 16, rem)
    IN  Finish([r EXCEPT !.vs2 = (@ + taps) % WordSize])
\* The first block is as much shorter as was aligned, in whole 32 bytes.
NeonFirst(off, len) ==
    LET nmax == AlignDown(NMax, 32)
    IN  AlignDown(nmax - MinOf(AlignDiff(off, 32), len), 32)
Neon(s, buf, off, len, bigEndian) ==
    Aligned(s, buf, off, len, 32, NeonFirst(off, len), AlignDown(NMax, 32), bigEndian,
            LAMBDA t, k : NeonBlock(t, buf, k))
NeonDotprod(s, buf, off, len, bigEndian) ==
    Aligned(s, buf, off, len, 32, NeonFirst(off, len), AlignDown(NMax, 32), bigEndian,
            LAMBDA t, k : TwoWidths(t, buf, k, 64, 16))

Vmx(s, buf, off, len, bigEndian) ==
    Aligned(s, buf, off, len, 16, NMax - MinOf(AlignDiff(off, 16), len), NMax, bigEndian,
            LAMBDA t, k : TwoWidths(t, buf, k, 64, 16))
Msa(s, buf, off, len, bigEndian) ==
    Aligned(s, buf, off, len, 16, NMax - MinOf(AlignDiff(off, 16), len), NMax, bigEndian,
            LAMBDA t, k : Finish(TurnsOf(Start(t), buf, 16, k \div 16)))

\* adler32_power8: blocks of NMAX, then all whole vectors that are left.
Power8(s, buf, off, len, bigEndian) ==
    LET Vectors(t, n) == Finish(TurnsOf(Start(t), buf, 16, n))
        full == Loop(LAMBDA t, i : Vectors(t, NMax \div 16), s, len \div NMax)
        rest == len % NMax
    IN  IF len < 64 THEN CopyTail(s, buf, off, len, TRUE, bigEndian)
        ELSE CopyTail(Rebase(Vectors(full, rest \div 16)), buf, off, rest % 16, rest % 16 # 0, bigEndian)

\* adler32_rvv with vl lanes: bytes are added in 16 bits for at most 256 bytes,
\* then in 32 bits; prev sums what each lane held before each vector.
RvvVectors(r, buf, vl, n) ==
    Loop(LAMBDA q, i : [q EXCEPT !.prev = [j \in 0..(vl - 1) |-> (@[j] + q.acc16[j]) % WordSize],
                                 !.acc16 = [j \in 0..(vl - 1) |-> (@[j] + ByteSum(buf, q.p + j, 1)) % LaneSize],
                                 !.p = @ + vl],
         [r EXCEPT !.acc16 = [j \in 0..(vl - 1) |-> 0]], n)
RvvFold(r, vl, n) ==
    [r EXCEPT !.prev = [j \in 0..(vl - 1) |-> (@[j] + n * r.acc32[j]) % WordSize],
              !.acc32 = [j \in 0..(vl - 1) |-> (@[j] + r.acc16[j]) % WordSize]]
Rvv(s, buf, off, len, vl, bigEndian) ==
    LET zero == [j \in 0..(vl - 1) |-> 0]
        Mod(v) == [j \in 0..(vl - 1) |-> v[j] % Base]
        block == (256 \div vl) * vl
        limit == NMax \div block
        Block(r, i) ==
            LET t == RvvFold(RvvVectors(r, buf, vl, block \div vl), vl, block \div vl)
            IN  IF i % limit = 0 THEN [t EXCEPT !.prev = Mod(@), !.acc32 = Mod(@)] ELSE t
        full == Loop(Block, [p |-> s.p, acc16 |-> zero, acc32 |-> zero, prev |-> zero], len \div block)
        n == (len % block) \div vl
        last == RvvFold(RvvVectors(full, buf, vl, n), vl, n)
        left == (len % block) % vl
        Total(F(_)) == Loop(LAMBDA x, j : (x + F(j - 1)) % WordSize, 0, vl)
        sum2 == Total(LAMBDA j : ((last.acc32[j] * (vl - j)) % WordSize) + ((vl * (last.prev[j] % Base)) % WordSize)) % Base
        sums == [a |-> (s.a + (Total(LAMBDA j : last.acc32[j]) % Base)) % Base,
                 b |-> ((s.b + sum2 + s.a * ((len - left) % Base)) % WordSize) % Base, p |-> last.p]
    IN  IF len < 16 THEN CopyTail(s, buf, off, len, TRUE, bigEndian)
        ELSE CopyTail(sums, buf, off, left, left # 0, bigEndian)

-----------------------------------------------------------------------------
\* adler32_combine_ for a length that is not negative.
Adler32Combine(x, y, len2) ==
    LET rem == len2 % Base
        sum1 == x.a + y.a + Base - 1
        sum2 == ((rem * x.a) % Base) + x.b + y.b + Base - rem
        Less(v, k) == IF v >= k THEN v - k ELSE v
    IN  [a |-> Less(Less(sum1, Base), Base), b |-> Less(Less(sum2, 2 * Base), Base)]

\* What Adler-32 is: both sums of len bytes, from the sums in s.
AdlerOf(s, buf, len) ==
    [a |-> (s.a + ByteSum(buf, s.p, len)) % Base,
     b |-> (s.b + (len % Base) * s.a + Weighted(buf, s.p, len, len)) % Base]
=============================================================================
