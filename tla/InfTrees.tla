------------------------------- MODULE InfTrees -------------------------------
(***************************************************************************)
(* The decoding tables of inflate: inftrees.c builds them from code        *)
(* lengths, inflate_p.h says how an entry is packed, and a decoder looks   *)
(* one symbol up in at most two steps.                                     *)
(***************************************************************************)
EXTENDS Huffman

ENOUGH_LENS == 1332
ENOUGH_DISTS == 592

Has(op, bit) == (op \div bit) % 2 = 1

\* An entry of a table packs the code's bits and its extra bits together.
CombineOp(extra, codebits) == IF Has(extra, 16) THEN codebits + 16 ELSE extra
CombineBits(codebits, extra) == codebits + (extra % 16)
CodeBits(here) == IF Has(here.op, 16) THEN here.op % 16 ELSE here.bits
CodeExtra(here) == IF Has(here.op, 16) THEN here.bits - (here.op % 16) ELSE 0

lbase == <<3, 4, 5, 6, 7, 8, 9, 10, 11, 13, 15, 17, 19, 23, 27, 31, 35, 43, 51, 59, 67, 83,
           99, 115, 131, 163, 195, 227, 258, 0, 0>>
lext == [i \in 1..31 |-> CASE i = 30 -> 199 [] i = 31 -> 75 [] OTHER -> 16 + extra_lbits[i - 1]]
dbase == <<1, 2, 3, 4, 5, 7, 9, 13, 17, 25, 33, 49, 65, 97, 129, 193, 257, 385, 513, 769, 1025,
           1537, 2049, 3073, 4097, 6145, 8193, 12289, 16385, 24577, 0, 0>>
dext == [i \in 1..32 |-> IF i > 30 THEN 64 ELSE 16 + extra_dbits[i - 1]]

\* The entry for symbol sym with a code of `codebits` bits in this table.
TableEntry(type, sym, codebits) ==
    LET match == CASE type = "CODES" -> 20 [] type = "LENS" -> 257 [] type = "DISTS" -> 0
        extra == IF type = "LENS" THEN lext[sym - 256] ELSE dext[sym + 1]
    IN  CASE sym >= match -> [bits |-> CombineBits(codebits, extra), op |-> CombineOp(extra, codebits),
                              val |-> IF type = "LENS" THEN lbase[sym - 256] ELSE dbase[sym + 1]]
          [] sym + 1 < match -> [bits |-> codebits, op |-> 0, val |-> sym]
          [] OTHER -> [bits |-> codebits, op |-> 32 + 64, val |-> 0]
Invalid(codebits) == [bits |-> codebits, op |-> 64, val |-> 0]
\* What memory that was never written holds here.
Unset == Invalid(0)

\* zng_bitreverse16
BitReverse16(v) == SumOver(LAMBDA i : ((v \div 2^i) % 2) * 2^(15 - i), 0, 15)

\* count_lengths; every variant adds up one-hot vectors, in two accumulators
\* of eight bits that hold half of the symbols each.
CountLengths(lens, codes) ==
    LET Half(b, r) == Cardinality({n \in 0..(codes - 1) : lens[n] = b /\ n % 2 = r}) % 256
    IN  [b \in 0..MAX_BITS |-> Half(b, 0) + Half(b, 1)]

\* Mutant: any incomplete set of distance lengths is let through.
BadLengthsLax(type, count, max) ==
    LET left[len \in 0..MAX_BITS] == IF len = 0 THEN 1 ELSE 2 * left[len - 1] - count[len]
    IN  \/ \E len \in 1..MAX_BITS : left[len] < 0
        \/ left[MAX_BITS] > 0 /\ type = "CODES"

\* Over-subscribed, or incomplete where that is not allowed.
BadLengths(type, count, max) ==
    LET left[len \in 0..MAX_BITS] == IF len = 0 THEN 1 ELSE 2 * left[len - 1] - count[len]
    IN  \/ \E len \in 1..MAX_BITS : left[len] < 0
        \/ left[MAX_BITS] > 0 /\ (type = "CODES" \/ max # 1)

\* The symbols by length, and by symbol within a length.
SortedSymbols(lens, codes) ==
    Loop(LAMBDA s, b : s \o SelectSeq([i \in 1..codes |-> i - 1], LAMBDA n : lens[n] = b),
         <<>>, MAX_BITS)

\* How many bits a sub-table for codes of len bits must index: until the
\* codes that are left fill it.
RECURSIVE SubBits(_, _, _, _, _)
SubBits(curr, left, drop, max, count) ==
    IF curr + drop < max /\ left - count[curr + drop] > 0
    THEN SubBits(curr + 1, 2 * (left - count[curr + drop]), drop, max, count)
    ELSE curr

\* Enter one code, step to the next one and open a sub-table if it needs one.
EnterCode(t, i, type, lens, work, root, max) ==
    LET codebits == t.len - t.drop
        here == TableEntry(type, work[i], codebits)
        slots == {t.next + (t.huff \div 2^t.drop) + k * 2^codebits : k \in 0..(2^(t.curr - codebits) - 1)}
        rhuff == (t.rhuff + (32768 \div 2^(t.len - 1))) % 65536
        huff == BitReverse16(rhuff)
        entered == [t EXCEPT !.rhuff = rhuff, !.huff = huff, !.count[t.len] = @ - 1,
                             !.table = [x \in slots |-> here] @@ @,
                             !.len = IF i < Len(work) THEN lens[work[i + 1]] ELSE @]
        len == entered.len
        curr == SubBits(len - root, 2^(len - root), root, max, entered.count)
        next == t.next + 2^t.curr
        low == huff % 2^root
    IN  IF i = Len(work) \/ len <= root \/ low = t.low THEN entered
        ELSE [entered EXCEPT !.drop = root, !.next = next, !.curr = curr, !.used = @ + 2^curr,
                             !.low = low, !.table[low] = [bits |-> root, op |-> curr, val |-> next]]

\* zng_inflate_table.
InflateTable(type, lens, codes, bits) ==
    LET count == CountLengths(lens, codes)
        max == Max({b \in 1..MAX_BITS : count[b] # 0} \cup {0})
        min == Min({b \in 1..max : count[b] # 0})
        root == LET r == IF bits < max THEN bits ELSE max IN IF r < min THEN min ELSE r
        work == SortedSymbols(lens, codes)
        start == [rhuff |-> 0, huff |-> 0, len |-> min, next |-> 0, curr |-> root, drop |-> 0,
                  low |-> -1, used |-> 2^root, count |-> count,
                  table |-> [x \in 0..(2^root - 1) |-> Unset]]
        t == Loop(LAMBDA s, i : EnterCode(s, i, type, lens, work, root, max), start, Len(work))
        enough == CASE type = "LENS" -> ENOUGH_LENS [] type = "DISTS" -> ENOUGH_DISTS
                    [] OTHER -> 2^MAX_BITS
    IN  CASE max = 0 -> [ret |-> 0, bits |-> 1, table |-> [x \in {0, 1} |-> Invalid(1)]]
          [] max > 0 /\ BadLengths(type, count, max) -> [ret |-> -1]
          [] max > 0 /\ ~BadLengths(type, count, max) /\ t.used > enough -> [ret |-> 1]
          [] OTHER -> [ret |-> 0, bits |-> root,
                       table |-> IF t.huff = 0 THEN t.table
                                 ELSE [t.table EXCEPT ![t.next + t.huff] = Invalid(t.len - t.drop)]]

-----------------------------------------------------------------------------
\* BITS(n) of a bit string from position p on; past its end the accumulator
\* holds zeros.
BitsAt(s, p, n) == SumOver(LAMBDA i : IF p + i <= Len(s) THEN s[p + i] * 2^(i - 1) ELSE 0, 1, n)

\* One look-up: the entry, and how many bits its code took.
LookUp(t, s, p) ==
    LET here == t.table[BitsAt(s, p, t.bits)]
        linked == here.op > 0 /\ here.op < 16
        sub == t.table[here.val + BitsAt(s, p + CodeBits(here), here.op % 16)]
    IN  IF linked THEN [here |-> sub, took |-> CodeBits(here) + CodeBits(sub)]
        ELSE [here |-> here, took |-> CodeBits(here)]
=============================================================================
