------------------------------- MODULE MCCodes -------------------------------
(***************************************************************************)
(* The algorithms of deflate blocks on small inputs: their calls, and the  *)
(* reference definitions that what they compute is compared with.          *)
(***************************************************************************)
EXTENDS Blocks, BitBuffer, SyncSearch, Batches

CONSTANTS
    Elems, Freqs, MaxLengths,       \* alphabet, frequencies and longest codes of BuildTree
    Symbols, Lengths, Root,         \* alphabet, code lengths and root bits of InflateTable
    SendLengths,                    \* how many bits are sent at once
    SyncLength                      \* length of the input searched for the marker

\* build_tree on the frequencies f.
Build ==
    \/ job = Idle /\ \E x \in Freqs, m \in MaxLengths : job' = Batch("build", <<x, m>>)
    \/ /\ InBatch("build")
       /\ \E f \in [0..(Elems - 1) -> Freqs] :
             /\ f[0] = job.part[1]
             /\ job' = [kind |-> "build", freq |-> f, max_length |-> job.part[2]]

\* zng_inflate_table on the lengths l.
Table ==
    \/ job = Idle /\ \E x \in Lengths, t \in {"CODES", "DISTS"} : job' = Batch("table", <<x, t>>)
    \/ /\ InBatch("table")
       /\ \E l \in [0..(Symbols - 1) -> Lengths] :
             l[0] = job.part[1] /\ job' = [kind |-> "table", lens |-> l, type |-> job.part[2]]

\* Blocks chosen so that the lengths have runs at and beyond every limit, that
\* every length and distance code occurs, and that each kind of block is best.
Run(from, to) == [i \in 1..(to - from + 1) |-> <<from + i - 1>>]
Every(n, F(_)) == [i \in 1..n |-> F(i)]
BlockSymbols ==
    << <<>>,
       <<<<97>>>>,
       <<<<255, 32768>>>>,
       Every(40, LAMBDA i : <<((i * i) % 7) + 97>>) \o <<<<255, 32768>>, <<1, 2>>>>,
       Every(29, LAMBDA c : <<IF c = 29 THEN 255 ELSE base_length[c - 1], base_dist[c - 1] + 1>>),
       Every(30, LAMBDA c : <<base_length[(c - 1) % 28] + 2^extra_lbits[(c - 1) % 28] - 1,
                              base_dist[c - 1] + 2^extra_dbits[c - 1]>>),
       Run(0, 12) \o Run(151, 156) \o Run(160, 165),      \* a run of 138 zeros
       Run(0, 2) \o Run(142, 145),                        \* 139 of them
       Run(10, 16) \o Run(20, 27) \o Run(31, 44) \o Run(56, 57) \o Run(67, 70),
       Every(60, LAMBDA i : IF i % 3 = 0 THEN <<i * 4, i * 500>> ELSE <<i % 13>>) >>

\* zng_tr_flush_block on one of them.
Flush ==
    \/ job = Idle /\ \E i \in DOMAIN BlockSymbols : job' = Batch("block", i)
    \/ /\ InBatch("block")
       /\ \E level \in {0, 6}, fixed, kept \in BOOLEAN, last \in {0, 1} :
             /\ level = 0 => ~fixed /\ kept
             /\ last = 1 => fixed = kept
             /\ job' = [kind |-> "block", i |-> job.part, level |-> level, fixed |-> fixed,
                        kept |-> kept, last |-> last]

\* Full and alternating values of n bits, into a buffer of v bits.
Values(n) == {<<0..(n - 1), n>>, <<{b \in 0..(n - 1) : b % 3 = 0}, n>>}
\* What deflatePrime is called with, too: values that have bits above the n,
\* negative ones, and no bits at all.
WideValues(n) == {<<0..30, n>>, <<0..31, n>>, <<{b \in 0..31 : b % 3 # 1}, n>>}
Buffer(v) == [buf |-> {b \in 0..(v - 1) : b % 2 = 0}, valid |-> v, used |-> 0, out |-> {}, n |-> 0]
SymbolRows ==
    LET Row(lits) == [i \in DOMAIN lits |-> [lit |-> lits[i] = 1, v |-> <<{0, lits[i]}, IF lits[i] = 1 THEN 15 ELSE 48>>]]
    IN  {Row(r) : r \in UNION {[1..n -> {1, 40}] : n \in 1..5}}
Bit ==
    \/ job = Idle /\ \E v \in 0..63 : job' = Batch("bit", v)
    \/ /\ InBatch("bit")
       /\ \/ \E n \in SendLengths : \E x \in Values(n) :
                job' = [kind |-> "bit", op |-> "send", v |-> job.part, value |-> x]
          \/ \E n \in {0} \cup {k \in SendLengths : k <= 32} : \E x \in Values(n) \cup WideValues(n) :
                job' = [kind |-> "bit", op |-> "prime", v |-> job.part, value |-> x]
          \/ \E op \in {"flush", "windup", "tr_flush"} :
                job' = [kind |-> "bit", op |-> op, v |-> job.part, value |-> <<{}, 0>>]
          \/ \E r \in SymbolRows :
                job' = [kind |-> "bit", op |-> "symbols", v |-> job.part, value |-> r]

\* inflateSync over a string.
Sync ==
    \/ job = Idle /\ job' = Batch("sync", 0)
    \/ /\ InBatch("sync")
       /\ \E s \in [1..SyncLength -> {0, 255, 1}] : job' = [kind |-> "sync", buf |-> s]

CodesNext == Build \/ Table \/ Flush \/ Bit \/ Sync

-----------------------------------------------------------------------------
(* What a call returns.                                                   *)

IsPrefixOf(s, t) == Len(s) <= Len(t) /\ SubSeq(t, 1, Len(s)) = s
\* What the lengths of the symbols in S use up of 2^MAX_BITS.
Kraft(len, S) == MapThenSumSet(LAMBDA n : 2^(MAX_BITS - len[n]), S)
Cost(freq, len, S) == MapThenSumSet(LAMBDA n : freq[n] * len[n], S)

\* The cheapest lengths at all for weights with this many symbols.
LeastCost(freq, S) ==
    Min({Cost(freq, l, S) : l \in {k \in [S -> 1..(Cardinality(S) - 1)] : Kraft(k, S) <= 2^MAX_BITS}})

\* trees.c build_tree, gen_bitlen and gen_codes: whatever the frequencies, the
\* codes are a complete prefix code of at least two symbols, none longer than
\* max_length, rarer symbols never shorter; without a limit that bites no code
\* is cheaper; and opt_len and static_len count what the block will take.
CodesOptimal ==
    [][job.kind = "build" =>
           LET desc == [elems |-> Elems, max_length |-> job.max_length, hasStatic |-> TRUE,
                        xbits |-> [n \in 0..(Elems - 1) |-> n \div 3], slen |-> [n \in 0..(Elems - 1) |-> 2 + n]]
               f == job.freq
               t == BuildTree(f, desc)
               used == {n \in DOMAIN f : t.len[n] # 0}
           IN  /\ {n \in DOMAIN f : f[n] # 0} \subseteq used
               /\ Cardinality(used) = Max({2, Cardinality({n \in DOMAIN f : f[n] # 0})})
               /\ t.max_code = Max(used)
               /\ \A n \in used : t.len[n] <= job.max_length
               /\ Kraft(t.len, used) = 2^MAX_BITS
               /\ \A n, m \in used : n # m => ~IsPrefixOf(t.code[n], t.code[m])
               /\ \A n \in used : Len(t.code[n]) = t.len[n]
               /\ \A n, m \in used : f[n] < f[m] => t.len[n] >= t.len[m]
               /\ job.max_length >= Elems - 1 => Cost(f, t.len, used) = LeastCost(f, used)
               /\ t.opt_len = MapThenSumSet(LAMBDA n : f[n] * (t.len[n] + desc.xbits[n]), DOMAIN f)
               /\ t.static_len = MapThenSumSet(LAMBDA n : f[n] * (desc.slen[n] + desc.xbits[n]), DOMAIN f)]_vars

\* inftrees.c zng_inflate_table: a set of lengths is accepted exactly when it is
\* complete (or one distance code of one bit, or none), and then every string
\* of bits looks up the symbol whose canonical code it starts with, in a root
\* table and at most one sub-table; the other strings are refused, and no entry
\* that was never written is read.
TablesDecode ==
    [][job.kind = "table" =>
           LET l == job.lens
               used == {n \in DOMAIN l : l[n] # 0}
               t == InflateTable(job.type, l, Symbols, Root)
               full == Kraft(l, used) = 2^MAX_BITS
               one == job.type # "CODES" /\ {l[n] : n \in used} = {1} /\ Cardinality(used) = 1
               code == GenCodes(l, Symbols - 1, [b \in 0..MAX_BITS |-> Cardinality({n \in used : l[n] = b})])
               longest == Max({1} \cup {l[n] : n \in used})
               Found(n) == TableEntry(job.type, n, l[n])
           IN  /\ (t.ret = 0) <=> (used = {} \/ full \/ one)
               /\ t.ret = 0 =>
                    \A s \in [1..longest -> {0, 1}] :
                       LET u == LookUp(t, s, 0)
                           whose == {n \in used : IsPrefixOf(code[n], s)}
                       IN  IF whose = {} THEN u.here.op = 64 /\ u.took > 0
                           ELSE \E n \in whose : /\ u.took = l[n]
                                                 /\ u.here.val = Found(n).val
                                                 /\ CodeExtra(u.here) = CodeExtra(Found(n))]_vars

\* trees.c zng_tr_flush_block against infback.c: the block is as long as the
\* trees counted (so the choice between stored, static and dynamic was right),
\* and its decoder consumes exactly its bits and gives back its symbols.
BlocksDecode ==
    [][job.kind = "block" =>
           LET syms == BlockSymbols[job.i]
               stored_len == 30
               b == FlushBlock(syms, job.level, job.fixed, job.kept, stored_len, job.last)
               r == ReadBlock(b.bits, Len(syms))
           IN  /\ b.kind = "stored" => job.kept
               /\ b.bits[1] = job.last
               /\ b.kind # "stored" => /\ Len(b.bits) = b.counted
                                       /\ ~r.bad /\ r.done
                                       /\ r.syms = syms
                                       /\ r.p = Len(b.bits)]_vars

\* trees_emit.h and deflatePrime: whatever the buffer holds, bits are appended in
\* order, none is lost or doubled at the 64-bit boundary or by a flush, and what
\* lies above bi_valid stays zero.  A literal merges at most two more, so that
\* send_bits_merge never runs out of room.  One call leaves more than it should:
\* deflatePrime keeps all of value when it finds the buffer empty, or has just
\* filled it, where zlib-ng.h.in says that the `bits` low bits are inserted; the
\* bits beyond them stay above bi_valid.
BitsInOrder ==
    [][job.kind = "bit" =>
           LET b == Buffer(job.v)
               v == job.value
           IN  CASE job.op = "send" -> Appended(b, SendBits(b, v), v) /\ SendBits(b, v).valid < 64
                 [] job.op = "prime" ->
                      LET w == Prime(b, v[2], v[1])
                          all == Value64(v[1])
                          wide == (job.v = 0 \/ job.v + v[2] > BIT_BUF_SIZE) /\ all # Low(all, v[2])
                      IN  /\ w.valid < 8
                          /\ ~wide => Appended(b, w, v)
                          /\ wide => /\ w.n + w.valid = job.v + v[2]
                                     /\ Sent(w) = b.buf \cup {i + job.v : i \in all}
                 [] job.op = "flush" -> Appended(b, SendBitsFlush(b), v) /\ SendBitsFlush(b).valid < 8
                 [] job.op = "tr_flush" -> Appended(b, TrFlushBits(b), v) /\ TrFlushBits(b).valid < 8
                 [] job.op = "windup" -> LET w == BiWindup(b)
                                         IN  /\ w.out = b.buf /\ w.buf = {} /\ w.valid = 0
                                             /\ w.n = 8 * ((job.v + 7) \div 8)
                 [] job.op = "symbols" ->
                      LET w == WriteSymbols(b, v)
                          end[i \in 0..Len(v)] == IF i = 0 THEN job.v ELSE end[i - 1] + v[i].v[2]
                      IN  /\ w.n + w.valid = end[Len(v)]
                          /\ w.valid <= 64
                          /\ Sent(w) = b.buf \cup UNION {{e + end[i - 1] : e \in v[i].v[1]} : i \in DOMAIN v}]_vars

\* inflate.c syncsearch: however the input comes in pieces (*have is all that is
\* carried over), the search ends exactly after the first 0, 0, 0xff, 0xff.
SyncExact ==
    [][job.kind = "sync" =>
           \A n \in 0..SyncLength :
               LET seen == SubSeq(job.buf, 1, n)
               IN  (syncsearch(0, seen) = 4) <=> \E i \in 1..(n - 3) : SubSeq(seen, i, i + 3) = Marker]_vars
=============================================================================
