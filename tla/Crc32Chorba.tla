----------------------------- MODULE Crc32Chorba -----------------------------
(***************************************************************************)
(* CRC-32 without tables or products: each word of the message is added,   *)
(* shifted, to later words, so that only the last few words need a CRC of  *)
(* their own (https://arxiv.org/abs/2412.16398).                           *)
(*                                                                         *)
(* q is what is owed to the next words (next1, next2, ...).  The message   *)
(* begins at byte `base`, `len` bytes are left of it, i is the place in    *)
(* them.                                                                   *)
(***************************************************************************)
EXTENDS Crc32Fold

Junk == {63}            \* a word that was never written
Queue(crc, n) == [k \in 1..n |-> IF k = 1 THEN Not(crc) ELSE {}]
Empty(n) == [k \in 1..n |-> {}]

\* One word of eight bytes: NEXT_ROUND and its share of ACCUM_ROUND.
Step64(q, x) ==
    LET in == Xor(x, q[1])
        S(n) == Shl(in, n, 64)
    IN  <<q[2], Xor3(q[3], S(17), S(55)), Xor(Xor3(q[4], Shr(in, 47), Shr(in, 9)), S(19)),
          Xor3(q[5], Shr(in, 45), S(44)), Shr(in, 20)>>
\* One word of four bytes.
Step32(q, x) ==
    LET in == Xor(x, q[1])
        S(n) == Shl(in, n, 32)
    IN  <<q[2], q[3], q[4], Xor(q[5], S(17)), Xor3(q[6], Shr(in, 15), S(23)),
          Xor3(q[7], Shr(in, 9), S(19)), Xor(q[8], Shr(in, 13)), q[9], Xor(q[10], S(12)), Shr(in, 20)>>

\* Turns of a loop that runs while i + ahead < len and moves on by step.
Turns(i, ahead, step, len) == IF i + ahead < len THEN (len - ahead - i + step - 1) \div step ELSE 0

\* Words of n bits laid out one after the other.
LayOut(words, n) == UNION {{b + n * (k - 1) : b \in words[k]} : k \in DOMAIN words}

\* The last bytes, what is still owed to them added, byte by byte.
CrcFinal(bits, len, MAX_LEN) ==
    LET Byte(k) == Low(Shr(bits, 8 * (k - 1)), 8)
        n == IF MAX_LEN >= 8 THEN len ELSE len % 8
    IN  Not(Repeat(LAMBDA c, k : Xor(crc_table[Value8(Xor(Low(c, 8), Byte(k)))], Shr(c, 8)), {}, n))

\* Four words a turn while more than 72 bytes are left, then the rest; the
\* buffer of the long variants owes word k another Owed(k).
Finish64(q, m, base, i, len, Owed(_)) ==
    LET turns == Turns(i, 72, 32, len)
        p == Repeat(LAMBDA r, k : Step64(r, Xor(Word(m, base + i + 8 * (k - 1), 64), Owed(i \div 8 + k - 1))),
                    q, 4 * turns)
        at == i + 32 * turns
        owed == [k \in 1..((len - at + 7) \div 8) |-> Owed(at \div 8 + k - 1)]
        final == Xor3(Word(m, base + at, 8 * (len - at)), LayOut(p, 64), LayOut(owed, 64))
    IN  CrcFinal(final, len - at, 72)
NothingOwed(k) == {}

-----------------------------------------------------------------------------
(* Up to some kilobytes.                                                   *)

\* next5 is kept although chorba5 has taken it in.
RowsStartStale(q) == <<{}, {}, {}, {}, q[5]>>
\* chorba5 has taken in next5: nothing may be left of it for the rows.
RowsStart(q) == Empty(5)

\* Eight words are added to the next 32, each of which then takes its step.
ChorbaTurn(q, m, at) ==
    LET W(k) == Word(m, at + 8 * (k - 1), 64)
        C(k) == IF k <= 5 THEN Xor(W(k), q[k]) ELSE W(k)
        c == Now([k \in 1..8 |-> IF k < 7 THEN C(k) ELSE Xor(C(k), C(k - 6))])
    IN  Repeat(LAMBDA r, j : Step64(r, Xor(W(8 + j), XorOf(c, chorba_rows[j]))), RowsStart(q), 32)

crc32_chorba_small_nondestructive(crc, m, base, len) ==
    LET turns == Turns(0, 256 + 40 + 32 + 32, 64 + 256, len)
        q == Repeat(LAMBDA r, k : ChorbaTurn(r, m, base + 320 * (k - 1)), Queue(crc, 5), turns)
    IN  Finish64(q, m, base, 320 * turns, len, NothingOwed)

\* The same with two words to a register: NEXT_ROUND of both, and ACCUM_ROUND.
NEXT_ROUND(in) ==
    LET S(n) == Shl(in, n, 64)
    IN  <<Xor(S(17), S(55)), Xor3(Shr(in, 47), Shr(in, 9), S(19)), Xor(Shr(in, 45), S(44)), Shr(in, 20)>>
Round128(q, x) ==
    LET a == NEXT_ROUND(Xor(x[1], q[1]))
        b == NEXT_ROUND(Xor(x[2], q[2]))
        c == NEXT_ROUND(Xor3(x[3], q[3], a[1]))
        d == NEXT_ROUND(Xor3(Xor(x[4], q[4]), b[1], a[2]))
    IN  <<Xor3(Xor(q[5], a[3]), c[1], b[2]), Xor3(Xor(a[4], b[3]), d[1], c[2]),
          Xor3(b[4], c[3], d[2]), Xor(c[4], d[3]), d[4]>>
ChorbaTurn128(q, m, at) ==
    LET W(k) == Word(m, at + 8 * (k - 1), 64)
        C(k) == IF k <= 5 THEN Xor(W(k), q[k]) ELSE W(k)
        c == Now([k \in 1..8 |-> IF k < 7 THEN C(k) ELSE Xor(C(k), C(k - 6))])
        In(j) == Xor(W(8 + j), XorOf(c, chorba_rows[j]))
    IN  Repeat(LAMBDA r, k : Round128(r, [n \in 1..4 |-> In(4 * k - 4 + n)]), Empty(5), 8)
chorba_small_nondestructive_sse2(crc, m, base, len) ==
    LET turns == Turns(0, 256 + 40 + 32 + 32, 64 + 256, len)
        q == Repeat(LAMBDA r, k : ChorbaTurn128(r, m, base + 320 * (k - 1)), Queue(crc, 5), turns)
        i == 320 * turns
        more == Turns(i, 40 + 32, 32, len)
        p == Repeat(LAMBDA r, k : Round128(r, [n \in 1..4 |-> Word(m, base + i + 32 * (k - 1) + 8 * (n - 1), 64)]),
                    q, more)
        at == i + 32 * more
    IN  CrcFinal(Xor(Word(m, base + at, 8 * (len - at)), LayOut(p, 64)), len - at, 72)

crc32_chorba_small_nondestructive_32bit(crc, m, base, len) ==
    LET turns == Turns(0, 80, 40, len)
        q == Repeat(LAMBDA r, k : Step32(r, Word(m, base + 4 * (k - 1), 32)), Queue(crc, 10), 10 * turns)
        at == 40 * turns
    IN  CrcFinal(Xor(Word(m, base + at, 8 * (len - at)), LayOut(q, 32)), len - at, 80)

-----------------------------------------------------------------------------
(* 8 to 32 kilobytes: each word is added 145, 183, 211 and 300 words on.   *)

Turns32768(len) == Turns(0, 300 * 8 + 64, 64, len)
crc32_chorba_32768_nondestructive(crc, m, base, len) ==
    LET clear == [w \in 0..4095 |-> IF w = 0 THEN Not(crc) ELSE {}]
        Add(bb, n) ==
            LET w == n - 1
                in == Xor(Word(m, base + 8 * w, 64), bb[w])
            IN  [bb EXCEPT ![w + 145] = Xor(@, in), ![w + 183] = Xor(@, in),
                           ![w + 211] = Xor(@, in), ![w + 300] = in]
        turns == Turns32768(len)
        bitbuffer == Repeat(Add, Now(clear), 8 * turns)
    IN  Finish64(Empty(5), m, base, 64 * turns, len, LAMBDA k : bitbuffer[k])

\* The same with vectors: a lane begins one word low and carries its last word
\* into the next turn; the buffer is cleared only where a lane reads it first.
StoreWords(bb, at, words) == Repeat(LAMBDA b, k : [b EXCEPT ![at + k - 1] = words[k]], bb, Len(words))
STORE_LANE(s, lane, at, in) ==
    [s EXCEPT !.bb = StoreWords(@, at, <<s[lane][1], Xor(s[lane][2], in[1])>> \o SubSeq(in, 2, 7)),
              ![lane] = <<in[8], {}>>]
STORE_LANE_XOR(s, lane, at, in) ==
    LET old(k) == s.bb[at + k]
    IN  [s EXCEPT !.bb = StoreWords(@, at, <<s[lane][1], Xor(s[lane][2], in[1])>>
                                           \o [k \in 1..6 |-> Xor(old(k + 1), in[k + 1])]),
                  ![lane] = <<Xor(old(8), in[8]), old(9)>>]

crc32_chorba_32768_nondestructive_sse41(crc, m, base, len) ==
    LET Cleared(w) == w \in 128..143 \/ w \in 160..181 \/ w \in 182..213
        none == <<{}, {}>>
        s0 == [bb |-> Now([w \in 0..4095 |-> IF Cleared(w) THEN {} ELSE Junk]),
               buf144 |-> none, buf182 |-> none, buf210 |-> none]
        Turn(s, n) ==
            LET w == 8 * (n - 1)            \* i / 8
                In(k) == Xor(Word(m, base + 8 * (w + k - 1), 64),
                             IF w = 0 /\ k = 1 THEN Not(crc) ELSE IF w < 128 THEN {} ELSE s.bb[w + k - 1])
                in == <<In(1), In(2), In(3), In(4), In(5), In(6), In(7), In(8)>>
                s1 == IF w < 32 THEN STORE_LANE(s, "buf144", 144 + w, in) ELSE STORE_LANE_XOR(s, "buf144", 144 + w, in)
                s2 == IF w < 22 THEN STORE_LANE(s1, "buf182", 182 + w, in) ELSE STORE_LANE_XOR(s1, "buf182", 182 + w, in)
                s3 == IF w < 84 THEN STORE_LANE(s2, "buf210", 210 + w, in) ELSE STORE_LANE_XOR(s2, "buf210", 210 + w, in)
            IN  [s3 EXCEPT !.bb = StoreWords(@, 300 + w, in)]
        turns == Turns32768(len)
        s == Repeat(Turn, s0, turns)
        w == 8 * turns
        bb == StoreWords(StoreWords(StoreWords(s.bb, 144 + w, s.buf144), 182 + w, s.buf182), 210 + w, s.buf210)
        tail == StoreWords(bb, 300 + w, [k \in 1..(len \div 8 - (300 + w)) |-> {}])
    IN  Finish64(Empty(5), m, base, 8 * w, len, LAMBDA k : tail[k])

-----------------------------------------------------------------------------
(* Longer: words of W bytes are added 7, 11, 22 and 14870 words on; the    *)
(* last through a ring, here 512 rows of 32 words.                         *)

\* CHORBA_ROUND on the words of round r, of which the first `from` do not
\* look into the ring.
CHORBA_ROUND(s, m, base, W, r, from) ==
    LET in ==
            Repeat(LAMBDA t, k :
                      LET Back(d) == IF k > d THEN t[k - d] ELSE {}
                          owed == IF k <= 22 THEN s.next[k] ELSE {}
                          ring == IF k > from THEN s.ring[r % 512][k] ELSE {}
                          word == Word(m, base + (32 * r + k - 1) * W, 8 * W)
                      IN  Append(t, Xor3(Xor3(word, owed, ring), Xor(Back(7), Back(11)), Back(22))),
                   <<>>, 32)
        After(k) == LET At(j) == IF j <= 32 THEN in[j] ELSE {}
                    IN  Xor3(At(k + 10), At(k + 21), At(k + 25))
        one == (r + 464) % 512
        two == (r + 465) % 512
    IN  [next |-> Now([k \in 1..22 |-> After(k)]),
         ring |-> [s.ring EXCEPT ![one] = SubSeq(@, 1, 22) \o SubSeq(in, 1, 10),
                                 ![two] = SubSeq(in, 11, 32) \o SubSeq(@, 23, 32)]]

crc32_chorba_118960_nondestructive(crc, m, base, len, W) ==
    LET row == [k \in 1..32 |-> {8 * W - 1}]      \* never written
        s0 == [next |-> Queue(crc, 22), ring |-> Now([r \in 0..511 |-> row])]
        rounds == 465 + Turns(465 * 32 * W, (14870 + 64) * W, 32 * W, len)
        s == Repeat(LAMBDA t, n : CHORBA_ROUND(t, m, base, W, n - 1, CASE n <= 464 -> 32 [] n = 465 -> 22 [] OTHER -> 0),
                    s0, rounds)
        at == 32 * rounds
        \* word k of the ring once next1 .. next22 are added and 64 words cleared
        Ring(k) == IF k < at + 22 THEN Xor(s.ring[(k \div 32) % 512][(k % 32) + 1], s.next[k - at + 1])
                   ELSE IF k >= at + 14870 THEN {}
                   ELSE s.ring[(k \div 32) % 512][(k % 32) + 1]
        Qword(k) == IF W = 8 THEN Ring(k) ELSE LayOut(<<Ring(2 * k), Ring(2 * k + 1)>>, 32)
    IN  Finish64(Empty(5), m, base, at * W, len, Qword)

-----------------------------------------------------------------------------
(* Which variant for which length.                                         *)

CHORBA_LARGE_THRESHOLD(W) == 65536 * W
\* crc32_chorba (align 8), crc32_chorba_sse2 and crc32_chorba_sse41 (align 16);
\* W is the word of the build, isa the vectors used.
crc32_chorba(crc, m, addr, W, isa) ==
    LET align == IF isa = "c" THEN 8 ELSE 16
        small == IF W = 4 /\ isa = "c" THEN 80 ELSE 72
        align_diff == AlignDiff(addr, align)
        c == Not(crc32_copy_small(Not(crc), m, 0, align_diff, align - 1))
        len == m.len - align_diff
        medium == len > 8192 /\ len <= 32768
    IN  IF m.len <= align_diff + small
        THEN Not(crc32_copy_small(Not(crc), m, 0, m.len, align - 1 + small))
        ELSE IF len > CHORBA_LARGE_THRESHOLD(W) THEN crc32_chorba_118960_nondestructive(c, m, align_diff, len, W)
        ELSE IF isa = "sse41" /\ medium THEN crc32_chorba_32768_nondestructive_sse41(c, m, align_diff, len)
        ELSE IF isa = "c" /\ W = 8 /\ medium THEN crc32_chorba_32768_nondestructive(c, m, align_diff, len)
        ELSE IF isa = "c" /\ W = 4 THEN crc32_chorba_small_nondestructive_32bit(c, m, align_diff, len)
        ELSE IF isa = "c" THEN crc32_chorba_small_nondestructive(c, m, align_diff, len)
        ELSE chorba_small_nondestructive_sse2(c, m, align_diff, len)
=============================================================================
