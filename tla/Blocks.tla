-------------------------------- MODULE Blocks --------------------------------
(***************************************************************************)
(* One block, written by zng_tr_flush_block and read back by the decoder   *)
(* of infback.c.  A symbol is a literal <<c>> or a match <<lc, dist>> with *)
(* lc = length - 3; a block is a sequence of bits.                         *)
(***************************************************************************)
EXTENDS InfTrees

\* tr_static_init: the first length and distance (less 3 and 1) of each code.
base_length == [c \in 0..28 |-> IF c = 28 THEN 0 ELSE SumOver(LAMBDA k : 2^extra_lbits[k], 0, c - 1)]
base_dist == [c \in 0..29 |-> SumOver(LAMBDA k : 2^extra_dbits[k], 0, c - 1)]

\* zng_length_code; the longest match has a code of its own.
LengthCode(lc) ==
    IF lc = 255 THEN LENGTH_CODES - 1
    ELSE CHOOSE c \in 0..27 : base_length[c] <= lc /\ lc < base_length[c] + 2^extra_lbits[c]

\* zng_dist_code: exact below 256, by the distance / 128 from there on.
DistCodeTable(i) ==
    LET d == IF i < 256 THEN i ELSE (i - 256) * 128
    IN  CHOOSE c \in 0..29 : base_dist[c] <= d /\ d < base_dist[c] + 2^extra_dbits[c]
DCode(dist) == IF dist < 256 THEN DistCodeTable(dist) ELSE DistCodeTable(256 + (dist \div 128))

\* The static trees.  Codes 286 and 287 take part in the numbering.
static_ltree ==
    LET len == [n \in 0..287 |-> StaticLLen(n)]
    IN  [len |-> len, code |-> GenCodes(len, L_CODES + 1,
            [b \in 0..MAX_BITS |-> Cardinality({n \in 0..287 : len[n] = b})])]
static_dtree == [len |-> [n \in 0..29 |-> 5], code |-> [n \in 0..29 |-> Reverse(Bits(n, 5))]]

\* zng_tr_tally_lit, zng_tr_tally_dist and init_block: the frequencies.
LitFreq(syms) ==
    [n \in 0..(L_CODES - 1) |->
        (IF n = END_BLOCK THEN 1 ELSE 0)
        + Cardinality({i \in DOMAIN syms : n = IF Len(syms[i]) = 1 THEN syms[i][1]
                                               ELSE LengthCode(syms[i][1]) + 257})]
DistFreq(syms) ==
    [n \in 0..(D_CODES - 1) |->
        Cardinality({i \in DOMAIN syms : Len(syms[i]) = 2 /\ n = DCode(syms[i][2] - 1)})]

\* zng_assemble_dist, or the code of a literal: the bits of one symbol.
SymbolBits(sym, ltree, dtree) ==
    IF Len(sym) = 1 THEN ltree.code[sym[1]]
    ELSE LET c == LengthCode(sym[1])
             d == DCode(sym[2] - 1)
         IN  ltree.code[c + 257] \o Bits(sym[1] % 2^extra_lbits[c], extra_lbits[c])
             \o dtree.code[d] \o Bits((sym[2] - 1) % 2^extra_dbits[d], extra_dbits[d])

\* compress_block
CompressBlock(syms, ltree, dtree) ==
    Loop(LAMBDA s, i : s \o SymbolBits(syms[i], ltree, dtree), <<>>, Len(syms))
    \o ltree.code[END_BLOCK]

\* send_all_trees
SendAllTrees(lt, dt, b) ==
    LET tokens == SendTree(lt.len, lt.max_code) \o SendTree(dt.len, dt.max_code)
    IN  Bits(lt.max_code + 1 - 257, 5) \o Bits(dt.max_code + 1 - 1, 5) \o Bits(b.max_blindex + 1 - 4, 4)
        \o Loop(LAMBDA s, i : s \o Bits(b.bl.len[bl_order[i]], 3), <<>>, b.max_blindex + 1)
        \o Loop(LAMBDA s, i : s \o b.bl.code[tokens[i][1]] \o Bits(tokens[i][2], tokens[i][3]),
                <<>>, Len(tokens))

\* zng_tr_emit_tree: the three bits of a block header.
EmitTree(type, last) == Bits(type * 2 + last, 3)

\* zng_tr_flush_block: which encoding, its bits and the length it counted on.
\* `fixed` is strategy Z_FIXED, `kept` that the input is still in the window.
FlushBlock(syms, level, fixed, kept, stored_len, last) ==
    LET lt == BuildTree(LitFreq(syms), static_l_desc)
        dt == BuildTree(DistFreq(syms), static_d_desc)
        b == BuildBlTree(lt, dt)
        static_len == IF syms = <<>> THEN 7 ELSE lt.static_len + dt.static_len
        trees == syms # <<>> /\ level > 0
        static_lenb == CASE syms = <<>> -> 0 [] trees -> (static_len + 3 + 7) \div 8
                         [] OTHER -> stored_len + 5
        dyn_lenb == IF trees THEN (b.opt_len + 3 + 7) \div 8 ELSE static_lenb
        opt_lenb == IF static_lenb <= dyn_lenb \/ fixed THEN static_lenb ELSE dyn_lenb
    IN  CASE stored_len + 4 <= opt_lenb /\ kept ->
                [kind |-> "stored", bits |-> EmitTree(0, last), counted |-> 3 + 32 + 8 * stored_len]
          [] ~(stored_len + 4 <= opt_lenb /\ kept) /\ static_lenb = opt_lenb ->
                [kind |-> "static", counted |-> 3 + static_len,
                 bits |-> EmitTree(1, last) \o CompressBlock(syms, static_ltree, static_dtree)]
          [] OTHER ->
                [kind |-> "dynamic", counted |-> 3 + b.opt_len,
                 bits |-> EmitTree(2, last) \o SendAllTrees(lt, dt, b) \o CompressBlock(syms, lt, dt)]

-----------------------------------------------------------------------------
(* Reading a block.  A reader is [p, bad, ...]: the bits consumed so far,  *)
(* and whether the data was refused.                                       *)

\* One length code of a dynamic block, run lengths written out.
ReadLength(r, s, t, total) ==
    LET u == LookUp(t, s, r.p)
        val == u.here.val
        xbits == IF val < 16 THEN 0 ELSE extra_blbits[val]
        copy == IF val < 16 THEN 1 ELSE (IF val = 18 THEN 11 ELSE 3) + BitsAt(s, r.p + u.took, xbits)
        have == Len(r.lens)
    IN  IF (val = 16 /\ have = 0) \/ (val >= 16 /\ have + copy > total) THEN [r EXCEPT !.bad = TRUE]
        ELSE [r EXCEPT !.p = @ + u.took + xbits,
                       !.lens = @ \o [i \in 1..copy |-> CASE val < 16 -> val
                                                          [] val = 16 -> r.lens[have]
                                                          [] OTHER -> 0]]

\* TABLE: the tables of a dynamic block.
ReadTables(s, p0) ==
    LET nlen == BitsAt(s, p0, 5) + 257
        ndist == BitsAt(s, p0 + 5, 5) + 1
        ncode == BitsAt(s, p0 + 10, 4) + 4
        cl == [c \in 0..18 |-> LET i == CHOOSE k \in 1..19 : bl_order[k] = c
                               IN  IF i <= ncode THEN BitsAt(s, p0 + 14 + 3 * (i - 1), 3) ELSE 0]
        codes == InflateTable("CODES", cl, 19, 7)
        r == While(LAMBDA q : ~q.bad /\ Len(q.lens) < nlen + ndist,
                   LAMBDA q : ReadLength(q, s, codes, nlen + ndist),
                   [p |-> p0 + 14 + 3 * ncode, bad |-> FALSE, lens |-> <<>>], nlen + ndist)
        lencode == InflateTable("LENS", [n \in 0..(nlen - 1) |-> r.lens[n + 1]], nlen, 10)
        distcode == InflateTable("DISTS", [n \in 0..(ndist - 1) |-> r.lens[nlen + n + 1]], ndist, 9)
    IN  IF \/ nlen > 286 \/ ndist > 30 \/ codes.ret # 0 \/ r.bad
           \/ r.lens[257] = 0 \/ lencode.ret # 0 \/ distcode.ret # 0
        THEN [bad |-> TRUE]
        ELSE [bad |-> FALSE, p |-> r.p, lencode |-> lencode, distcode |-> distcode]

\* The tables of a static block: inffixed_tbl.h, as buildfixedtables fills them.
lenfix == InflateTable("LENS", [n \in 0..287 |-> StaticLLen(n)], 288, 9)
distfix == InflateTable("DISTS", [n \in 0..31 |-> 5], 32, 5)
FixedTables == [lencode |-> lenfix, distcode |-> distfix]

\* LEN: one literal, match or end of block.
ReadSymbol(r, s, tables) ==
    LET u == LookUp(tables.lencode, s, r.p)
        lx == CodeExtra(u.here)
        lenAt == r.p + u.took
        v == LookUp(tables.distcode, s, lenAt + lx)
        dx == CodeExtra(v.here)
        distAt == lenAt + lx + v.took
    IN  CASE u.here.op = 0 -> [r EXCEPT !.p = lenAt, !.syms = Append(@, <<u.here.val>>)]
          [] Has(u.here.op, 32) -> [r EXCEPT !.p = lenAt, !.done = TRUE]
          [] Has(u.here.op, 64) /\ ~Has(u.here.op, 32) -> [r EXCEPT !.bad = TRUE]
          [] Has(u.here.op, 16) /\ Has(v.here.op, 64) -> [r EXCEPT !.bad = TRUE]
          [] OTHER -> [r EXCEPT !.p = distAt + dx,
                                !.syms = Append(@, <<u.here.val + BitsAt(s, lenAt, lx) - 3,
                                                     v.here.val + BitsAt(s, distAt, dx)>>)]

\* The symbols of a block of at most `most` symbols.
ReadBlock(s, most) ==
    LET type == BitsAt(s, 1, 2)
        t == IF type = 1 THEN FixedTables @@ [bad |-> FALSE, p |-> 3] ELSE ReadTables(s, 3)
    IN  IF t.bad THEN [bad |-> TRUE]
        ELSE While(LAMBDA r : ~r.bad /\ ~r.done, LAMBDA r : ReadSymbol(r, s, t),
                   [p |-> t.p, bad |-> FALSE, done |-> FALSE, syms |-> <<>>], most + 1)
=============================================================================
