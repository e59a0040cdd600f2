------------------------------ MODULE Compare256 ------------------------------
(***************************************************************************)
(* compare256: how many of 256 bytes agree, by words and by vectors, and   *)
(* the portable bit counts of fallback_builtins.h it relies on.            *)
(*                                                                         *)
(* diff is the set of positions at which the two strings differ, addr the  *)
(* address of the first string.  A variant is the sequence of probes       *)
(* <<start, width>> it compares; the first probe with a difference gives   *)
(* the answer.                                                             *)
(***************************************************************************)
EXTENDS Loops, FiniteSets, FiniteSetsExt

debruijn_ctz32 ==
    <<0, 1, 28, 2, 29, 14, 24, 3, 30, 22, 20, 15, 25, 17, 4, 8,
      31, 27, 13, 23, 21, 19, 16, 7, 26, 12, 18, 6, 11, 5, 10, 9>>
debruijn_ctz64 ==
    <<63, 0, 1, 52, 2, 6, 53, 26, 3, 37, 40, 7, 33, 54, 47, 27,
      61, 4, 38, 45, 43, 41, 21, 8, 23, 34, 58, 55, 48, 17, 28, 10,
      62, 51, 5, 25, 36, 39, 32, 46, 60, 44, 42, 20, 22, 57, 16, 9,
      50, 24, 35, 31, 59, 19, 56, 15, 49, 30, 18, 14, 29, 13, 12, 11>>

\* The constant times the lowest one bit of the word is the constant shifted;
\* its top bits look up the place of that bit.
DeBruijn(word, n, top, constant, table) ==
    LET shifted == {b + Min(word) : b \in constant} \cap 0..(n - 1)
    IN  table[1 + SumOver(LAMBDA k : IF n - top + k \in shifted THEN 2^k ELSE 0, 0, top - 1)]
zng_ctz32(word) ==
    DeBruijn(word, 32, 5, HexDigits(<<0, 7, 7, 12, 11, 5, 3, 1>>), debruijn_ctz32)
zng_ctz64(word) ==
    DeBruijn(word, 64, 6, HexDigits(<<0, 4, 5, 15, 11, 10, 12, 7, 9, 9, 2, 10, 7, 0, 13, 10>>), debruijn_ctz64)

\* Smear the highest bit down; the bit above the smear, halved, is that bit.
Smear(word) ==
    LET Or(w, k) == w \cup {b - k : b \in {x \in w : x >= k}}
        five == Or(Or(Or(Or(Or(word, 1), 2), 4), 8), 16)
    IN  Or(five, 32)
zng_clz64(word) == 63 - zng_ctz64({Cardinality(Smear(word)) - 1})

\* zng_first_diff_byte64 of the words at p: byte k of memory is byte k of the
\* word, or byte 7 - k where the highest byte comes first.
FirstDiffByte64(diff, p, bigEndian) ==
    LET bytes == {k \in 0..7 : p + k \in diff}
    IN  IF bigEndian THEN zng_clz64({8 * (7 - k) + 1 : k \in bytes}) \div 8
        ELSE zng_ctz64({8 * k + 1 : k \in bytes}) \div 8

-----------------------------------------------------------------------------
\* The first difference within a probe: single bytes, a word's first byte, or
\* the trailing zeros of a mask of up to 64 bits.
InProbe(diff, probe, how, bigEndian) ==
    LET bits == {k \in 0..(probe[2] - 1) : probe[1] + k \in diff}
    IN  CASE how = "byte" -> Min(bits)
          [] how = "word" -> FirstDiffByte64(diff, probe[1], bigEndian)
          [] how = "mask32" -> zng_ctz32(bits)
          [] how = "mask64" -> zng_ctz64(bits)

Compare(diff, probes, how, bigEndian) ==
    LET hits == {i \in DOMAIN probes : diff \cap probes[i][1]..(probes[i][1] + probes[i][2] - 1) # {}}
    IN  IF hits = {} THEN 256
        ELSE probes[Min(hits)][1] + InProbe(diff, probes[Min(hits)], how, bigEndian)

\* Probes of one width, one after the other.
Steps(width) == [i \in 1..(256 \div width) |-> <<width * (i - 1), width>>]

compare256_8(addr) == Steps(1)
compare256_64(addr) == Steps(8)
compare256_rle_8(addr) == Steps(1)
compare256_rle_64(addr) == Steps(8)
\* Without the last vector.
compare256_sse2NoLast(addr) ==
    <<<<0, 16>>>> \o [i \in 1..15 |-> <<(16 - (addr % 16)) + 16 * (i - 1), 16>>]
\* One unaligned vector, fifteen from the next aligned address on, and the
\* last vector of the 256 bytes again unless the start was aligned.
compare256_sse2(addr) ==
    LET align_offset == addr % 16
    IN  <<<<0, 16>>>> \o [i \in 1..15 |-> <<(16 - align_offset) + 16 * (i - 1), 16>>]
        \o (IF align_offset = 0 THEN <<>> ELSE <<<<240, 16>>>>)
compare256_lsx(addr) ==
    LET align_offset == addr % 16
    IN  <<<<0, 16>>>> \o [i \in 1..15 |-> <<(16 - align_offset) + 16 * (i - 1), 16>>]
        \o (IF align_offset = 0 THEN <<>> ELSE <<<<240, 16>>>>)
compare256_avx2(addr) == Steps(32)
compare256_lasx(addr) == Steps(32)
\* Sixteen bytes, then 64 at a time; the last 64 overlap.
compare256_avx512(addr) == <<<<0, 16>>, <<16, 64>>, <<80, 64>>, <<144, 64>>, <<192, 64>>>>
\* Both halves of each vector as words.
compare256_neon(addr) == Steps(8)
compare256_power9(addr) == Steps(16)
\* As many bytes as a register group holds, or as are left.
compare256_rvv(addr, vlmax) ==
    LET n == (256 + vlmax - 1) \div vlmax
    IN  [i \in 1..n |-> <<vlmax * (i - 1), IF i < n THEN vlmax ELSE 256 - vlmax * (n - 1)>>]

\* Every variant: its probes and how it finds the byte.
Variants(addr) ==
    { <<compare256_8(addr), "byte">>, <<compare256_64(addr), "word">>,
      <<compare256_rle_8(addr), "byte">>, <<compare256_rle_64(addr), "word">>,
      <<compare256_sse2(addr), "mask32">>, <<compare256_lsx(addr), "mask32">>,
      <<compare256_avx2(addr), "mask32">>, <<compare256_lasx(addr), "mask32">>,
      <<compare256_avx512(addr), "mask64">>, <<compare256_neon(addr), "word">>,
      <<compare256_power9(addr), "byte">> }
    \cup {<<compare256_rvv(addr, vlmax), "byte">> : vlmax \in {64, 96, 128, 256}}
=============================================================================
