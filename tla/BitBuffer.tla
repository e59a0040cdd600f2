------------------------------- MODULE BitBuffer -------------------------------
(***************************************************************************)
(* The bit buffer of deflate (trees_emit.h, the end of trees.c, and        *)
(* deflatePrime).  A word is the set of its one bits; a bit buffer is      *)
(* [buf, valid, used, out, n]: bi_buf, bi_valid, bi_used and the n bits    *)
(* already put into pending_buf.  A value to send is <<bits, length>>.     *)
(***************************************************************************)
EXTENDS Loops, Bits

BIT_BUF_SIZE == 64

\* put_byte, put_short, put_uint32, put_uint64: the k low bits of bi_buf.
Put(b, k) == [b EXCEPT !.out = @ \cup {i + b.n : i \in Low(b.buf, k)}, !.n = @ + k]
\* Put k bits and drop them.
Shift(b, k) == [Put(b, k) EXCEPT !.buf = Shr(@, k), !.valid = @ - k]

\* Mutant: the rest of the value is shifted by one bit too few.
SendBitsOneLess(b, v) ==
    LET total == b.valid + v[2]
        merged == [b EXCEPT !.buf = @ \cup Shl(v[1], b.valid, BIT_BUF_SIZE)]
    IN  IF total >= 64
        THEN [Put(merged, 64) EXCEPT !.buf = Shr(v[1], 63 - (b.valid % 64)), !.valid = total - 64]
        ELSE [merged EXCEPT !.valid = total]

\* send_bits: crossing the 64-bit boundary puts the word and keeps the rest.
SendBits(b, v) ==
    LET total == b.valid + v[2]
        merged == [b EXCEPT !.buf = @ \cup Shl(v[1], b.valid, BIT_BUF_SIZE)]
    IN  IF total >= 64
        THEN [Put(merged, 64) EXCEPT !.buf = Shr(Shr(v[1], 1), 63 - (b.valid % 64)),
                                     !.valid = total - 64]
        ELSE [merged EXCEPT !.valid = total]

\* send_bits_merge: the caller knows that there is room.
SendBitsMerge(b, v) == [b EXCEPT !.buf = @ \cup Shl(v[1], b.valid, BIT_BUF_SIZE), !.valid = @ + v[2]]

\* send_bits_flush: whole bytes go out, at most 7 bits stay.
SendBitsFlush(b) == Shift(b, b.valid - (b.valid % 8))

\* bi_windup: put what is left up to a byte boundary.
BiWindup(b) ==
    LET a4 == IF b.valid > 24 THEN Shift(b, 32) ELSE b
        a2 == IF a4.valid > 8 THEN Shift(a4, 16) ELSE a4
        a1 == IF a2.valid > 0 THEN Put(a2, 8) ELSE a2
        w == IF b.valid > 56 THEN Put(b, 64) ELSE a1
    IN  [w EXCEPT !.used = ((w.valid - 1) % 8) + 1, !.buf = {}, !.valid = 0]

\* zng_tr_flush_bits
TrFlushBits(b) ==
    LET c == IF b.valid >= 48 THEN Shift(b, 48) ELSE IF b.valid >= 32 THEN Shift(b, 32) ELSE b
        d == IF c.valid >= 16 THEN Shift(c, 16) ELSE c
    IN  IF d.valid >= 8 THEN Shift(d, 8) ELSE d

\* compress_block's bit writer: flush before each turn; a literal takes up to
\* two literals after it along when at least three symbols follow it.
WriteSymbols(b, syms) ==
    LET Lit(i) == syms[i].lit
        Turn(s) ==
            LET i == s.i
                more == i + 3 <= Len(syms)
                take == IF ~Lit(i) THEN 1
                        ELSE IF more /\ Lit(i + 1) THEN IF Lit(i + 2) THEN 3 ELSE 2 ELSE 1
                Merge(c, k) == SendBitsMerge(c, syms[i + k - 1].v)
            IN  [i |-> i + take, b |-> Loop(Merge, SendBitsFlush(s.b), take)]
    IN  While(LAMBDA s : s.i <= Len(syms), Turn, [i |-> 1, b |-> b], Len(syms)).b

\* (uint64_t)value of an int32_t: bit 31 is copied into all bits above it.
Value64(value) == IF 31 \in value THEN value \cup 32..63 ELSE value

\* deflatePrime: into an empty buffer the whole value is stored, otherwise its
\* `bits` low bits are added; repeated while bits are left.
Prime(b, bits, value) ==
    LET Turn(s) ==
            LET room == BIT_BUF_SIZE - s.b.valid
                put == IF room < s.bits THEN room ELSE s.bits
                word == IF s.b.valid = 0 THEN s.value
                        ELSE s.b.buf \cup Shl(Low(s.value, put), s.b.valid, BIT_BUF_SIZE)
            IN  [b |-> TrFlushBits([s.b EXCEPT !.buf = word, !.valid = @ + put]),
                 value |-> Shr(s.value, put), bits |-> s.bits - put, again |-> s.bits # put]
    IN  While(LAMBDA s : s.again, Turn,
              [b |-> b, value |-> Value64(value), bits |-> bits, again |-> TRUE], 2).b

-----------------------------------------------------------------------------
\* All bits sent so far, those still in the buffer included.
Sent(b) == b.out \cup {i + b.n : i \in b.buf}

\* b became c by sending exactly the value v: the bits before it are as they
\* were, its bits follow in order, and nothing follows them.
Appended(b, c, v) ==
    /\ Sent(c) = Sent(b) \cup {i + b.n + b.valid : i \in Low(v[1], v[2])}
    /\ c.n + c.valid = b.n + b.valid + v[2]
    /\ c.buf \subseteq 0..(c.valid - 1)
=============================================================================
