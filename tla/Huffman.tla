------------------------------- MODULE Huffman -------------------------------
(***************************************************************************)
(* Huffman codes of deflate: trees.c builds a code from symbol frequencies *)
(* (build_tree, gen_bitlen, gen_codes) and describes it by runs of code    *)
(* lengths (scan_tree, send_tree).  A tree is a function from symbols      *)
(* 0 .. elems-1; a code is a sequence of bits in the order they are sent.  *)
(***************************************************************************)
EXTENDS Loops, FiniteSets, SequencesExt, FiniteSetsExt

MAX_BITS == 15
END_BLOCK == 256
L_CODES == 286
D_CODES == 30
BL_CODES == 19
LENGTH_CODES == 29
REP_3_6 == 16
REPZ_3_10 == 17
REPZ_11_138 == 18

extra_lbits == [c \in 0..28 |-> IF c < 8 \/ c = 28 THEN 0 ELSE (c - 4) \div 4]
extra_dbits == [c \in 0..29 |-> IF c < 2 THEN 0 ELSE (c - 2) \div 2]
extra_blbits == [c \in 0..18 |-> CASE c = 16 -> 2 [] c = 17 -> 3 [] c = 18 -> 7 [] OTHER -> 0]
bl_order == <<16, 17, 18, 0, 8, 7, 9, 6, 10, 5, 11, 4, 12, 3, 13, 2, 14, 1, 15>>

\* The lengths of the static literal tree, 286 and 287 included.
StaticLLen(n) == IF n <= 143 THEN 8 ELSE IF n <= 255 THEN 9 ELSE IF n <= 279 THEN 7 ELSE 8

\* A tree descriptor: its alphabet, the extra bits of symbol n, the length of
\* n in the static tree (when there is one), and the longest code allowed.
StaticDesc(elems, Xbits(_), hasStatic, Slen(_), max_length) ==
    [elems |-> elems, max_length |-> max_length, hasStatic |-> hasStatic,
     xbits |-> [n \in 0..(elems - 1) |-> Xbits(n)],
     slen |-> [n \in 0..(elems - 1) |-> Slen(n)]]

static_l_desc == StaticDesc(L_CODES, LAMBDA n : IF n > END_BLOCK THEN extra_lbits[n - 257] ELSE 0,
                            TRUE, StaticLLen, MAX_BITS)
static_d_desc == StaticDesc(D_CODES, LAMBDA n : extra_dbits[n], TRUE, LAMBDA n : 5, MAX_BITS)
static_bl_desc == StaticDesc(BL_CODES, LAMBDA n : extra_blbits[n], FALSE, LAMBDA n : 0, 7)

-----------------------------------------------------------------------------
(* Building a code from frequencies.                                       *)

\* Queue entries order by frequency, then by node.
PqLess(a, b) == a[1] < b[1] \/ (a[1] = b[1] /\ a[2] < b[2])

\* The used symbols; at least two of them, forced ones with frequency 1.  The
\* forced symbols are taken back out of opt_len and static_len in advance.
RECURSIVE ForceTwo(_, _, _)
ForceTwo(freq, max_code, forced) ==
    IF Cardinality({n \in DOMAIN freq : freq[n] # 0}) >= 2
    THEN [freq |-> freq, max_code |-> max_code, forced |-> forced]
    ELSE LET node == IF max_code < 2 THEN max_code + 1 ELSE 0
         IN  ForceTwo([freq EXCEPT ![node] = 1],
                      IF max_code < 2 THEN max_code + 1 ELSE max_code, forced \cup {node})

\* The leaves in increasing order of packed entries.  The radix passes sort
\* by frequency and keep the node order of the scan.
SortedLeaves(freq) ==
    SortSeq(SelectSeq([i \in 1..Cardinality(DOMAIN freq) |-> <<freq[i - 1], i - 1>>],
                      LAMBDA e : e[1] # 0), PqLess)

\* pq_take: the smaller head of the leaves and of the internal nodes.
PqTake(q, leaves) ==
    IF q.li < Len(leaves) /\ (q.ihead = Len(q.internals)
                              \/ PqLess(leaves[q.li + 1], q.internals[q.ihead + 1]))
    THEN <<leaves[q.li + 1], [q EXCEPT !.li = @ + 1]>>
    ELSE <<q.internals[q.ihead + 1], [q EXCEPT !.ihead = @ + 1]>>

\* The fathers of all nodes, merging the two least nodes nleaves - 1 times.
\* Internal nodes are numbered from elems in the order of their creation.
Dads(leaves, elems) ==
    LET Merge(q, i) ==
            LET n == PqTake(q, leaves)
                m == PqTake(n[2], leaves)
                node == elems + i - 1
            IN  [m[2] EXCEPT !.internals = Append(@, <<(n[1][1] + m[1][1]) % 65536, node>>),
                             !.dad = [x \in {n[1][2], m[1][2]} |-> node] @@ @]
    IN  Loop(Merge, [li |-> 0, ihead |-> 0, internals |-> <<>>, dad |-> <<>>], Len(leaves) - 1).dad

\* Mutant: one turn of the repair for every node that was too deep.
RepairCountsEach(bl_count, overflow, max_length) ==
    Loop(LAMBDA c, i : LET bits == CHOOSE b \in 1..(max_length - 1) :
                                      c[b] # 0 /\ \A k \in (b + 1)..(max_length - 1) : c[k] = 0
                       IN  [c EXCEPT ![bits] = @ - 1, ![bits + 1] = @ + 2, ![max_length] = @ - 1],
         bl_count, overflow)

\* gen_bitlen: the code lengths, the longest cut to max_length; when some were
\* cut, one leaf at a time is moved down until the counts make a code again,
\* and the lengths are given out anew in order of increasing frequency.
RepairCounts(bl_count, overflow, max_length) ==
    Loop(LAMBDA c, i : LET bits == CHOOSE b \in 1..(max_length - 1) :
                                      c[b] # 0 /\ \A k \in (b + 1)..(max_length - 1) : c[k] = 0
                       IN  [c EXCEPT ![bits] = @ - 1, ![bits + 1] = @ + 2, ![max_length] = @ - 1],
         bl_count, (overflow + 1) \div 2)

GenBitlen(leaves, dad, elems, max_length) ==
    LET root == elems + Len(leaves) - 2
        depth[n \in DOMAIN dad \cup {root}] ==
            IF n = root THEN 0
            ELSE LET d == depth[dad[n]] IN IF d + 1 > max_length THEN max_length ELSE d + 1
        overflow == Cardinality({n \in DOMAIN dad : depth[dad[n]] + 1 > max_length})
        first == [i \in DOMAIN leaves |-> depth[leaves[i][2]]]
        count == [b \in 0..MAX_BITS |-> Cardinality({i \in DOMAIN leaves : first[i] = b})]
        fixed == RepairCounts(count, overflow, max_length)
        Longer(b) == SumOver(LAMBDA k : fixed[k], b + 1, max_length)
    IN  [bl_count |-> IF overflow = 0 THEN count ELSE fixed,
         len |-> [i \in DOMAIN leaves |->
                    IF overflow = 0 THEN first[i]
                    ELSE CHOOSE b \in 1..max_length : Longer(b) < i /\ i <= Longer(b - 1)]]

\* gen_codes: canonical codes, next_code[len] onwards in symbol order, sent
\* most significant bit first (bi_reverse).
GenCodes(len, max_code, bl_count) ==
    LET first[b \in 0..MAX_BITS] == IF b = 0 THEN 0 ELSE (first[b - 1] + bl_count[b - 1]) * 2
        Nth(n) == first[len[n]] + Cardinality({m \in 0..(n - 1) : len[m] = len[n]})
    IN  [n \in {m \in 0..max_code : len[m] # 0} |-> Reverse(Bits(Nth(n), len[n]))]

\* build_tree: lengths and codes of all symbols, the largest used one, and
\* what the block's data adds to opt_len and static_len.
BuildTree(freq, desc) ==
    LET used == Max({n \in DOMAIN freq : freq[n] # 0} \cup {-1})
        f == ForceTwo(freq, used, {})
        leaves == SortedLeaves(f.freq)
        g == GenBitlen(leaves, Dads(leaves, desc.elems), desc.elems, desc.max_length)
        len == [n \in DOMAIN freq |-> IF f.freq[n] = 0 THEN 0
                                      ELSE g.len[CHOOSE i \in DOMAIN leaves : leaves[i][2] = n]]
        Sum(F(_)) == SumOver(LAMBDA i : leaves[i][1] * F(leaves[i][2]), 1, Len(leaves))
    IN  [len |-> len, max_code |-> f.max_code, code |-> GenCodes(len, f.max_code, g.bl_count),
         opt_len |-> Sum(LAMBDA n : len[n] + desc.xbits[n]) - Cardinality(f.forced),
         static_len |-> IF desc.hasStatic
                        THEN Sum(LAMBDA n : desc.slen[n] + desc.xbits[n])
                             - MapThenSumSet(LAMBDA n : desc.slen[n], f.forced)
                        ELSE 0]

-----------------------------------------------------------------------------
(* Code lengths as runs.                                                   *)

\* Mutant: a run of zeros may be one longer than its extra bits can say.
RunLimitsLong(curlen, nextlen) ==
    IF nextlen = 0 THEN <<139, 3>> ELSE IF curlen = nextlen THEN <<6, 3>> ELSE <<7, 4>>

\* The limits of a run of nextlen after a run of curlen.
RunLimits(curlen, nextlen) ==
    IF nextlen = 0 THEN <<138, 3>> ELSE IF curlen = nextlen THEN <<6, 3>> ELSE <<7, 4>>

\* The runs scan_tree and send_tree both find in the lengths 0 .. max_code: a
\* run ends at its limit or where the length changes (the guard ends the last).
LengthRuns(len, max_code) ==
    LET Visit(s, i) ==
            LET n == i - 1
                curlen == len[n]
                nextlen == IF n < max_code THEN len[n + 1] ELSE 65535
                more == s.count + 1 < s.limits[1] /\ curlen = nextlen
            IN  IF more THEN [s EXCEPT !.count = @ + 1]
                ELSE [count |-> 0, prevlen |-> curlen, limits |-> RunLimits(curlen, nextlen),
                      runs |-> Append(s.runs, [curlen |-> curlen, count |-> s.count + 1,
                                               prevlen |-> s.prevlen, min |-> s.limits[2]])]
    IN  Loop(Visit, [count |-> 0, prevlen |-> -1, limits |-> RunLimits(-1, len[0]), runs |-> <<>>],
             max_code + 1).runs

\* scan_tree: how often each length code will be sent for one run.
ScanRun(r, c) ==
    IF r.count < r.min THEN IF c = r.curlen THEN r.count ELSE 0
    ELSE IF r.curlen # 0 THEN (IF c = r.curlen /\ r.curlen # r.prevlen THEN 1 ELSE 0)
                              + (IF c = REP_3_6 THEN 1 ELSE 0)
    ELSE IF c = (IF r.count <= 10 THEN REPZ_3_10 ELSE REPZ_11_138) THEN 1 ELSE 0

\* send_tree: the length codes sent for one run, each with its extra bits.
SendRun(r) ==
    IF r.count < r.min THEN [i \in 1..r.count |-> <<r.curlen, 0, 0>>]
    ELSE IF r.curlen # 0
         THEN LET lead == IF r.curlen # r.prevlen THEN <<<<r.curlen, 0, 0>>>> ELSE <<>>
              IN  Append(lead, <<REP_3_6, r.count - Len(lead) - 3, 2>>)
    ELSE IF r.count <= 10 THEN <<<<REPZ_3_10, r.count - 3, 3>>>>
    ELSE <<<<REPZ_11_138, r.count - 11, 7>>>>

ScanTree(len, max_code) ==
    LET runs == LengthRuns(len, max_code)
    IN  [c \in 0..(BL_CODES - 1) |-> SumOver(LAMBDA i : ScanRun(runs[i], c), 1, Len(runs))]
SendTree(len, max_code) ==
    LET runs == LengthRuns(len, max_code)
    IN  Loop(LAMBDA s, i : s \o SendRun(runs[i]), <<>>, Len(runs))

\* build_bl_tree: the code for the length codes of both trees, and the index
\* in bl_order of the last of its lengths to send.
BuildBlTree(lt, dt) ==
    LET lf == ScanTree(lt.len, lt.max_code)
        df == ScanTree(dt.len, dt.max_code)
        bl == BuildTree([c \in 0..(BL_CODES - 1) |-> lf[c] + df[c]], static_bl_desc)
        max_blindex == Max({i \in 3..(BL_CODES - 1) : bl.len[bl_order[i + 1]] # 0} \cup {2})
    IN  [bl |-> bl, max_blindex |-> max_blindex,
         opt_len |-> lt.opt_len + dt.opt_len + bl.opt_len + 3 * (max_blindex + 1) + 5 + 5 + 4]
=============================================================================
