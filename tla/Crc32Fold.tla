------------------------------ MODULE Crc32Fold ------------------------------
(***************************************************************************)
(* CRC-32 by folding several 128-bit lanes with carry-less products: x86   *)
(* PCLMULQDQ with its wider relatives, and ARM PMULL with EOR3.            *)
(***************************************************************************)
EXTENDS Crc32

\* A reader: four lanes, the place in the message and the bytes left.
Advance(s, x, n) == [x |-> x, off |-> s.off + n, len |-> s.len - n]
Lane(m, off, j) == Word(m, off + 16 * j, 128)

fold4(v) == Fold(v, CONST_R1, CONST_R2)
fold8(v) ==
    Fold(v, HexDigits(<<1, 14, 8, 8, 14, 15, 3, 7, 2>>), HexDigits(<<1, 4, 10, 7, 15, 14, 8, 8, 0>>))
fold12(v) ==
    Fold(v, HexDigits(<<5, 9, 6, 12, 8, 13, 8, 1>>), HexDigits(<<15, 5, 14, 4, 8, 12, 8, 5>>))
fold16(v) ==
    Fold(v, HexDigits(<<1, 1, 5, 4, 2, 7, 7, 8, 10>>), HexDigits(<<1, 3, 2, 2, 13, 1, 4, 3, 0>>))

\* fold_state_1 .. fold_state_4 and the lanes added after them: n lanes are
\* folded to the end and the next n lanes of the message added there.
fold_state(x, m, off, n) ==
    [j \in 0..3 |-> IF j < 4 - n THEN x[j + n]
                    ELSE Xor(fold4(x[j - (4 - n)]), Lane(m, off, j - (4 - n)))]

\* fold_block_16 and fold_block_8: as many lanes as the wide registers hold.
FoldWide(s, m, lanes) ==
    LET Wide(v) == IF lanes = 16 THEN fold16(v) ELSE fold8(v)
        first == [j \in 0..(lanes - 1) |-> IF j < 4 THEN Xor(Lane(m, s.off, j), fold4(s.x[j]))
                                           ELSE Lane(m, s.off, j)]
        turns == s.len \div (16 * lanes)
        z == Loop(LAMBDA t, i : [j \in 0..(lanes - 1) |-> Xor(Wide(t[j]), Lane(m, s.off + 16 * lanes * i, j))],
                  first, turns - 1)
        x == Loop(LAMBDA t, g : [j \in 0..3 |-> Xor(fold4(t[j]), z[4 * g + j])],
                  [j \in 0..3 |-> z[j]], (lanes \div 4) - 1)
    IN  IF turns = 0 THEN s ELSE Advance(s, x, 16 * lanes * turns)

\* Which of eight words c1 .. c8, of which c7 has taken in c1 and c8 c2, are
\* added to each of the next 32.
chorba_rows ==
    << {3}, {4, 1}, {5, 2, 1}, {6, 3, 2}, {7, 4, 3}, {8, 5, 4}, {6, 5}, {7, 6},
       {8, 7, 1}, {8, 2}, {3}, {4}, {5, 1}, {6, 2, 1}, {7, 3, 2, 1}, {8, 4, 3, 2},
       {5, 4, 3, 1}, {6, 5, 4, 1, 2}, {7, 6, 5, 2, 3}, {8, 7, 6, 3, 4, 1},
       {8, 7, 4, 5, 2, 1}, {8, 5, 6, 3, 2}, {7, 6, 4, 3, 1}, {8, 7, 5, 4, 2, 1},
       {8, 6, 5, 3, 2, 1}, {7, 6, 4, 3, 2}, {8, 7, 5, 4, 3}, {8, 6, 5, 4},
       {7, 6, 5}, {8, 7, 6}, {8, 7}, {8} >>
XorOf(c, row) == FoldSet(LAMBDA k, w : Xor(w, c[k]), {}, row)

CHORBA_LEN == 512 + 64 + 128
fold_block_chorba(s, m) ==
    LET Turn(t) ==
            LET c == [k \in 1..8 |-> IF k < 7 THEN Lane(m, t.off, k - 1)
                                     ELSE Xor(Lane(m, t.off, k - 1), Lane(m, t.off, k - 7))]
                In(j) == Xor(Lane(m, t.off + 128, j), XorOf(c, chorba_rows[j + 1]))
                start == [j \in 0..3 |-> Xor(fold12(t.x[j]), In(j))]
                x == Loop(LAMBDA y, g : [j \in 0..3 |-> Xor(fold4(y[j]), In(4 * g + j))], start, 7)
            IN  Advance(t, x, 128 + 512)
    IN  While(LAMBDA t : t.len >= CHORBA_LEN, Turn, s, s.len \div 640)

\* The last lane shifted by the rest of the message, and the bytes that fall
\* out of it folded back in.
FoldRest(v, m, off, len) ==
    IF len = 0 THEN v
    ELSE Xor3(Shr(v, 8 * len), {b + 8 * (16 - len) : b \in Word(m, off, 8 * len)},
              Fold(Shl(v, 8 * (16 - len), 128), CONST_R3, CONST_R4))

Barrett(v) ==
    LET klow == HexDigits(<<11, 4, 14, 5, 11, 0, 2, 5, 15, 7, 0, 1, 1, 6, 4, 1>>)
        khigh == HexDigits(<<1, 13, 11, 7, 1, 0, 6, 4, 0>>)
        t == Clmul(Low(Clmul(Low(v, 64), klow), 64), khigh)
        x == Xor({b \in t : b \in 64..95}, v)
        r == Clmul(Low(Clmul(Shr(x, 64), klow), 64), khigh)
    IN  Low(Shr(r, 64), 32)

\* crc32_copy_impl; `wide` is the number of lanes of the VPCLMULQDQ builds or
\* 0, `chorba` whether that block is compiled in and taken.
crc32_pclmulqdq(crc, m, addr, wide, chorba) ==
    LET align_diff == AlignDiff(addr, 16)
        copy_len == IF m.len >= 16 /\ m.len >= align_diff + 16 THEN align_diff ELSE m.len
        c == Not(crc32_copy_small(Not(crc), m, 0, copy_len, 31))
        zero == [j \in 0..3 |-> IF j = 0 THEN HexDigits(<<9, 13, 11, 4, 2, 4, 8, 7>>) ELSE {}]
        s0 == [x |-> zero, off |-> copy_len, len |-> m.len - copy_len]
        x1 == fold_state(zero, m, copy_len, 1)
        s1 == IF c = {} THEN s0 ELSE Advance(s0, [x1 EXCEPT ![3] = Xor(@, c)], 16)
        s2 == IF wide > 0 THEN FoldWide(s1, m, wide) ELSE IF chorba THEN fold_block_chorba(s1, m) ELSE s1
        s3 == Loop(LAMBDA t, i : Advance(t, fold_state(t.x, m, t.off, 4), 64), s2, s2.len \div 64)
        few == s3.len \div 16
        s4 == IF few = 0 THEN s3 ELSE Advance(s3, fold_state(s3.x, m, s3.off, few), 16 * few)
        v == Loop(LAMBDA y, j : Xor(Fold(y, CONST_R3, CONST_R4), s4.x[j]), s4.x[0], 3)
    IN  IF copy_len = m.len THEN c ELSE Not(Barrett(FoldRest(v, m, s4.off, s4.len)))

-----------------------------------------------------------------------------
(* ARMv8 with PMULL and EOR3: three CRC instructions on three stretches of *)
(* the message and nine lanes on a fourth run at the same time.            *)

\* x^n modulo the polynomial: halve the exponent until a few steps remain.
xnmodp(n) ==
    LET f[i \in 0..n] ==
            IF i > 191
            THEN CRC32X({}, Shl({2 * b : b \in f[i \div 2 - 16]}, 1 - (i % 2), 64), 64)
            ELSE CRC32X({31 - (i % 32)}, {}, 32 * (i \div 32))
    IN  f[n]
crc_shift(c, nbytes) == Clmul(c, xnmodp(nbytes * 8 - 33))

CRC32D(c, val) == CRC32X(c, val, 64)
\* n words of eight bytes from `off` on.
CrcWords(c, m, off, n) == Loop(LAMBDA s, i : CRC32D(s, Word(m, off + 8 * (i - 1), 64)), c, n)

\* 192 bytes for each 16 of the three scalar stretches.
PmullBlocks(s, m) ==
    LET blk == s.len \div 192
        klen == 16 * blk
        srcv == s.off + 3 * klen
        Crc(c, k) == CrcWords(c, m, s.off + k * klen, 2 * blk)
        Next9(x, i) == [j \in 0..8 |-> Xor(Fold(x[j], HexDigits(<<2, 6, 11, 7, 0, 12, 3, 13>>),
                                                       HexDigits(<<3, 15, 4, 1, 2, 8, 7, 10>>)),
                                            Lane(m, srcv + 144 * i, j))]
        x == Loop(Next9, [j \in 0..8 |-> Lane(m, srcv, j)], blk - 1)
        By16(v, w) == Xor(Fold(v, HexDigits(<<10, 14, 6, 8, 9, 1, 9, 1>>), CONST_R4), w)
        By32(v, w) == Xor(Fold(v, HexDigits(<<15, 1, 13, 10, 0, 5, 10, 10>>),
                                   HexDigits(<<8, 1, 2, 5, 6, 5, 2, 7>>)), w)
        By64(v, w) == Xor(Fold(v, HexDigits(<<8, 15, 3, 5, 2, 13, 9, 5>>),
                                   HexDigits(<<1, 13, 9, 5, 1, 3, 13, 7>>)), w)
        first == By16(By16(x[0], x[1]), x[2])
        v == By64(By32(first, By16(x[3], x[4])), By32(By16(x[5], x[6]), By16(x[7], x[8])))
        vc == Xor3(crc_shift(Crc(s.c, 0), 2 * klen + 144 * blk), crc_shift(Crc({}, 1), klen + 144 * blk),
                   crc_shift(Crc({}, 2), 144 * blk))
    IN  [c |-> CRC32D(CRC32D({}, Low(v, 64)), Xor(vc, Shr(v, 64))),
         off |-> s.off + 192 * blk, len |-> s.len - 192 * blk]

\* Three stretches of klen bytes and one word that joins them.
ThreeWay(s, m) ==
    LET klen == ((s.len - 8) \div 24) * 8
        turns == 1 + (s.len - 24 - 32 + 24) \div 24        \* do .. while (len >= 32)
        Crc(c, k) == CrcWords(c, m, s.off + k * klen, turns)
        vc == Xor(crc_shift(Crc(s.c, 0), 2 * klen + 8), crc_shift(Crc({}, 1), klen + 8))
        end == s.off + 2 * klen + 8 * turns
    IN  [c |-> CRC32D(Crc({}, 2), Xor(Word(m, end, 64), vc)), off |-> end + 8, len |-> s.len - 24 * turns - 8]

crc32_armv8_pmull_eor3(crc, m, addr) ==
    LET s == [c |-> Not(crc), off |-> 0, len |-> m.len]
        a == crc32_hw_align(s, m, AlignDiff(addr, 16))
        b == IF a.len >= 192 THEN PmullBlocks(a, m) ELSE a
        c == IF b.len >= 80 THEN ThreeWay(b, m) ELSE b
    IN  IF m.len = 1 THEN Not(Take(s, m, 1).c) ELSE crc32_hw_tail(c, m)
=============================================================================
