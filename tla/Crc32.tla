-------------------------------- MODULE Crc32 --------------------------------
(***************************************************************************)
(* CRC-32 by tables, by braids of words, by the processors' CRC            *)
(* instructions and by carry-less products (RISC-V Zbc, s390 vector).      *)
(*                                                                         *)
(* A word is the set of its one bits.  A message is a record: `len` bytes, *)
(* whose bits are zero except for a pattern in from .. to; what lies       *)
(* behind its end reads as ones, so a kernel that reads too far shows it.  *)
(***************************************************************************)
EXTENDS Loops, Bits, FiniteSets, FiniteSetsExt

Xor(a, b) == (a \ b) \cup (b \ a)
Xor3(a, b, c) == Xor(Xor(a, b), c)
Not(c) == (0..31) \ c
\* The number a word stands for.
Value8(w) ==
    LET V(b) == IF b \in w THEN 2^b ELSE 0
    IN  V(0) + V(1) + V(2) + V(3) + V(4) + V(5) + V(6) + V(7)
\* A carry-less product.
Clmul(a, b) ==
    LET Odd(k) == Cardinality({i \in a : (k - i) \in b}) % 2 = 1
    IN  IF a = {} \/ b = {} THEN {}
        ELSE {k \in (Min(a) + Min(b))..(Max(a) + Max(b)) : Odd(k)}

On(m, p) ==
    \/ p >= 8 * m.len
    \/ p \in m.from..m.to /\ ((p % 11) * (p % 13) + (p % 7)) % 3 = 1
\* The word of n bits at byte `off` of the message, first byte lowest.
Word(m, off, n) ==
    IF (8 * off > m.to \/ 8 * off + n <= m.from) /\ 8 * off + n <= 8 * m.len THEN {}
    ELSE {b \in 0..(n - 1) : On(m, 8 * off + b)}

POLY == HexDigits(<<14, 13, 11, 8, 8, 3, 2, 0>>)
\* The register multiplied by x.
TimesX(c) == IF 0 \in c THEN Xor(Shr(c, 1), POLY) ELSE Shr(c, 1)

-----------------------------------------------------------------------------
(* The tables, as makecrct.c computes and crc32_braid_tbl.h lists them.    *)

multmodp(a, b) ==
    Loop(LAMBDA s, i : [p |-> IF 32 - i \in a THEN Xor(s.p, s.b) ELSE s.p, b |-> TimesX(s.b)],
         [p |-> {}, b |-> b], 32).p

BitsOf(n, width) == {b \in 0..(width - 1) : (n \div 2^b) % 2 = 1}
crc_table == [i \in 0..255 |-> Loop(LAMBDA p, j : TimesX(p), BitsOf(i, 8), 8)]
\* x^2^n modulo the polynomial.
x2n_table == Repeat(LAMBDA t, n : Append(t, Now(multmodp(t[n], t[n]))), <<{30}>>, 31)
\* x^(n * 2^k)
x2nmodp(n, k) ==
    Loop(LAMBDA p, i : IF (n \div 2^(i - 1)) % 2 = 1 THEN multmodp(x2n_table[((k + i - 1) % 32) + 1], p) ELSE p,
         {31}, 30)

BRAID_N == 5
BraidTable(w) ==
    [k \in 0..(w - 1) |->
        LET p == x2nmodp((BRAID_N * w + 3 - k) * 8, 0)
        IN  [i \in 0..255 |-> multmodp({b + 24 : b \in BitsOf(i, 8)}, p)]]
crc_braid_table_8 == BraidTable(8)
crc_braid_table_4 == BraidTable(4)

\* The tables for machines with the highest byte first: words with their
\* bytes in reverse, and the tables of the braid in reverse.
ZSWAP(word, w) == {8 * (w - 1 - (b \div 8)) + (b % 8) : b \in word}
crc_big_table_8 == [i \in 0..255 |-> ZSWAP(crc_table[i], 8)]
crc_big_table_4 == [i \in 0..255 |-> ZSWAP(crc_table[i], 4)]
BigBraid(table, w) == [k \in 0..(w - 1) |-> [i \in 0..255 |-> ZSWAP(table[w - 1 - k][i], w)]]
crc_braid_big_table_8 == BigBraid(crc_braid_table_8, 8)
crc_braid_big_table_4 == BigBraid(crc_braid_table_4, 4)

-----------------------------------------------------------------------------
(* Byte by byte.                                                           *)

CRC_DO1(c, m, off) == Xor(crc_table[Value8(Xor(Low(c, 8), Word(m, off, 8)))], Shr(c, 8))
CrcBytes(c, m, off, n) == Loop(LAMBDA s, i : CRC_DO1(s, m, off + i - 1), c, n)

\* Eight bytes at a time only if the caller's limit says there may be eight.
crc32_copy_small(c, m, off, len, MAX_LEN) ==
    CrcBytes(c, m, off, IF MAX_LEN >= 8 THEN len ELSE len % 8)

crc32_combine(crc1, crc2, len2) ==
    IF len2 < 0 THEN {} ELSE Xor(multmodp(x2nmodp(len2, 3), crc1), crc2)
crc32_combine_gen(len2) == IF len2 < 0 THEN {} ELSE x2nmodp(len2, 3)
crc32_combine_op(crc1, crc2, op) == Xor(multmodp(op, crc1), crc2)

Least(a, b) == IF a < b THEN a ELSE b

-----------------------------------------------------------------------------
(* crc32_braid: five running CRCs of every fifth word, joined by the last  *)
(* block.  The message begins at address addr.                             *)

\* The CRC of one word of w bytes, the first lowest; or highest, which gives
\* the CRC in the word's highest bytes.
crc_word(data, w) ==
    Loop(LAMBDA d, k : Xor(Shr(d, 8), crc_table[Value8(Low(d, 8))]), data, w)
crc_word_big(data, w) ==
    LET table == IF w = 8 THEN crc_big_table_8 ELSE crc_big_table_4
    IN  Loop(LAMBDA d, k : Xor(Shl(d, 8, 8 * w), table[Value8(Shr(d, 8 * (w - 1)))]), data, w)

\* Is there a whole block, wherever the first word begins?
Braided(len, w) == len >= BRAID_N * w + w - 1

\* A word between memory order and machine order: Z_WORD_FROM_LE.
FromLE(word, w, bigEndian) == IF bigEndian THEN ZSWAP(word, w) ELSE word

crc32_braid(crc, m, addr, w, bigEndian) ==
    LET table == IF bigEndian THEN IF w = 8 THEN crc_braid_big_table_8 ELSE crc_braid_big_table_4
                 ELSE IF w = 8 THEN crc_braid_table_8 ELSE crc_braid_table_4
        CrcWord(data) == IF bigEndian THEN crc_word_big(data, w) ELSE crc_word(data, w)
        pre == Least(AlignDiff(addr, w), m.len)
        c == crc32_copy_small(Not(crc), m, 0, pre, w - 1)
        blks == (m.len - pre) \div (BRAID_N * w)
        At(block, j) == FromLE(Word(m, pre + (block * BRAID_N + j) * w, 8 * w), w, bigEndian)
        Braid(word) == Loop(LAMBDA x, k : Xor(x, table[k - 1][Value8(Low(Shr(word, 8 * (k - 1)), 8))]), {}, w)
        crcs == Loop(LAMBDA s, i : [j \in 0..4 |-> Braid(Xor(s[j], At(i - 1, j)))],
                     [j \in 0..4 |-> IF j = 0 THEN FromLE(c, w, bigEndian) ELSE {}], blks - 1)
        comb == Loop(LAMBDA x, j : CrcWord(Xor3(crcs[j - 1], At(blks - 1, j - 1), x)), {}, BRAID_N)
        done == pre + blks * BRAID_N * w
    IN  IF Braided(m.len, w)
        THEN Not(crc32_copy_small(FromLE(comb, w, bigEndian), m, done, m.len - done, BRAID_N * w - 1))
        ELSE Not(crc32_copy_small(Not(crc), m, 0, m.len, BRAID_N * w - 1))

-----------------------------------------------------------------------------
(* With a CRC instruction (ARMv8, LoongArch).                              *)

\* The instruction on a value of n bits.
CRC32X(c, val, n) == Loop(LAMBDA s, i : TimesX(s), Xor(c, val), n)

\* A reader: the register, the place and what is left.
Take(s, m, n) == [c |-> CRC32X(s.c, Word(m, s.off, 8 * n), 8 * n), off |-> s.off + n, len |-> s.len - n]
TakeIf(s, m, n, wanted) == IF wanted THEN Take(s, m, n) ELSE s

crc32_hw_align(s, m, align_diff) ==
    Loop(LAMBDA t, i : LET n == 2^(i - 1)
                       IN  TakeIf(t, m, n, t.len >= n /\ (align_diff \div n) % 2 = 1), s, 4)
crc32_hw_tail(s, m) ==
    LET words == Loop(LAMBDA t, i : Take(t, m, 8), s, s.len \div 8)
        four == TakeIf(words, m, 4, (words.len \div 4) % 2 = 1)
        two == TakeIf(four, m, 2, (four.len \div 2) % 2 = 1)
    IN  Not(TakeIf(two, m, 1, two.len % 2 = 1).c)

crc32_hw_copy_impl(crc, m, addr) ==
    LET s == [c |-> Not(crc), off |-> 0, len |-> m.len]
        a == crc32_hw_align(s, m, AlignDiff(addr, 8))
        blocks == Loop(LAMBDA t, i : Take(t, m, 8), a, 8 * (a.len \div 64))
    IN  IF m.len = 1 THEN Not(Take(s, m, 1).c) ELSE crc32_hw_tail(blocks, m)

-----------------------------------------------------------------------------
(* By folding sixteen bytes into the next sixteen with carry-less products *)
(* (RISC-V Zbc, s390 vector facility).                                     *)

CONST_R1 == HexDigits(<<1, 5, 4, 4, 4, 2, 11, 13, 4>>)
CONST_R2 == HexDigits(<<1, 12, 6, 14, 4, 1, 5, 9, 6>>)
CONST_R3 == HexDigits(<<1, 7, 5, 1, 9, 9, 7, 13, 0>>)
CONST_R4 == HexDigits(<<12, 12, 10, 10, 0, 0, 9, 14>>)
CONST_R5 == HexDigits(<<1, 6, 3, 12, 13, 6, 1, 2, 4>>)
CONST_RU == HexDigits(<<1, 15, 7, 0, 1, 1, 6, 4, 1>>)
CRCPOLY_FULL == HexDigits(<<1, 13, 11, 7, 1, 0, 6, 4, 1>>)

\* 128 bits times two constants, one for each half.
Fold(v, kLow, kHigh) == Xor(Clmul(Low(v, 64), kLow), Clmul(Shr(v, 64), kHigh))

\* From 128 bits to the register: to 96 bits, to 64, and by Barrett to 32.
Reduce128(v) ==
    LET w == Xor(Shr(v, 64), Clmul(Low(v, 64), CONST_R4))
        r == Low(Xor(Clmul(Low(w, 32), CONST_R5), Shr(w, 32)), 64)
        t == Low(Clmul(Low(r, 32), CONST_RU), 32)
    IN  Low(Shr(Xor(Clmul(t, CRCPOLY_FULL), r), 32), 32)

crc32_clmul_impl(c, m, off, len) ==
    Reduce128(Loop(LAMBDA v, i : Xor(Fold(v, CONST_R3, CONST_R4), Word(m, off + 16 * i, 128)),
                   Xor(Word(m, off, 128), c), (len \div 16) - 1))
crc32_riscv64_zbc(crc, m) ==
    LET part == m.len % 16
        c == crc32_copy_small(Not(crc), m, 0, part, 15)
    IN  IF m.len < 16 THEN Not(crc32_copy_small(Not(crc), m, 0, m.len, 15))
        ELSE Not(crc32_clmul_impl(c, m, part, m.len - part))

crc32_le_vgfm_16(c, m, off, len) ==
    LET At(i) == Word(m, off + 16 * i, 128)
        quads == (len \div 64) - 1
        v == Loop(LAMBDA s, i : [j \in 0..3 |-> Xor(Fold(s[j], CONST_R1, CONST_R2), At(4 * i + j))],
                  [j \in 0..3 |-> IF j = 0 THEN Xor(At(0), c) ELSE At(j)], quads)
        v1 == Loop(LAMBDA s, j : Xor(Fold(s, CONST_R3, CONST_R4), v[j]), v[0], 3)
    IN  Reduce128(Loop(LAMBDA s, i : Xor(Fold(s, CONST_R3, CONST_R4), At(4 * quads + 3 + i)),
                       v1, (len % 64) \div 16))
crc32_s390_vx(crc, m, addr) ==
    LET prealign == AlignDiff(addr, 16)
        aligned == 16 * ((m.len - prealign) \div 16)
        c == crc32_copy_small(Not(crc), m, 0, prealign, 15)
        d == crc32_le_vgfm_16(c, m, prealign, aligned)
    IN  IF m.len < 64 + 15 THEN Not(crc32_copy_small(Not(crc), m, 0, m.len, 78))
        ELSE Not(crc32_copy_small(d, m, prealign + aligned, (m.len - prealign) % 16, 15))
=============================================================================
