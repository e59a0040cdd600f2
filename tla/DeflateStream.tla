--------------------------- MODULE DeflateStream ---------------------------
(***************************************************************************)
(* The stream protocol of deflate(): status, the pending buffer, last_flush *)
(* and the flush ranks, header and trailer, deflateParams and deflateReset, *)
(* with a caller that may hand over any amount of input and output space   *)
(* per call.                                                               *)
(*                                                                         *)
(* Output bytes are counted, not represented: pending bytes leave in the   *)
(* order they were put, so what a decoder will make of them is decided     *)
(* when they are put, by the ghost sect (DeflateFormat).  The compressors  *)
(* appear by what they do to the stream; their window is DeflateWindow's.  *)
(*   "tally"  - symbols are collected and a whole block is put at once,    *)
(*   "static" - deflate_quick under Z_FIXED, symbols are put one by one,   *)
(*   "stored" - deflate_stored, which also writes to next_out directly.    *)
(***************************************************************************)
EXTENDS Integers, DeflateFormat

CONSTANTS
  Wraps,       \* the formats: 0 raw, 1 zlib, 2 gzip
  ZlibHeads,   \* lengths of a zlib header: with and without a dictionary id
  GzFixed,     \* bytes of the gzip header before its optional fields
  Heads,       \* the gzip headers a caller may set (deflateSetHeader)
  Trailer,     \* bytes of the trailer
  PendBuf,     \* s->pending_buf_size
  BlockSizes,  \* output bytes of a tallied block
  Margin,      \* (BIT_BUF_SIZE + 7) >> 3
  HdrLow,      \* bytes of a stored block header, one more when bi_valid > 5
  MaxStored,   \* MAX_STORED: bytes of a stored block
  WSize,       \* s->w_size, for min_block of deflate_stored
  Room,        \* bytes the window has for a stored block under construction
  Need,        \* MIN_LOOKAHEAD
  LeftCap,     \* bound on strstart - block_start
  Kinds,       \* the compressors the caller uses
  InSizes, OutSizes, Flushes,   \* arguments of the caller's deflate()
  FinishRule,  \* "contract": after Z_FINISH only Z_FINISH follows, with no new input
  ResetRule    \* "closed": deflateReset only while no static block is open

NO == 0
PARTIAL == 1
SYNC == 2
FULL == 3
FINISH == 4
BLOCK == 5

\* gzhead == NULL.  A length of 0 stands for a field that is NULL.
NoHead == [set |-> FALSE, extra |-> 0, name |-> 0, comment |-> 0, hcrc |-> 0]

ASSUME StreamAssumption ==
  /\ Wraps \subseteq 0..2 /\ GzFixed \in Nat /\ Trailer \in Nat /\ PendBuf \in Nat
  /\ ZlibHeads \subseteq 1..PendBuf /\ BlockSizes \subseteq 0..PendBuf
  /\ GzFixed \in 1..PendBuf /\ Trailer \in 1..PendBuf
  /\ Heads \subseteq [set : {TRUE}, extra : Nat, name : Nat, comment : Nat, hcrc : {0, 2}]
  /\ Margin \in Nat /\ HdrLow \in Nat \ {0}
  /\ PendBuf > 2 * Margin /\ PendBuf > HdrLow + 1
  /\ MaxStored \in Nat /\ MaxStored >= WSize
  /\ WSize \in Nat \ {0} /\ Room \in Nat /\ Room >= WSize /\ Need \in Nat \ {0}
  /\ LeftCap \in Nat \ {0}
  /\ Kinds \subseteq {"tally", "static", "stored"}
  /\ InSizes \subseteq Nat /\ OutSizes \subseteq Nat /\ Flushes \subseteq 0..5
  /\ FinishRule \in {"contract", "any"} /\ ResetRule \in {"closed", "any"}

VARIABLES
  status, wrap, gzhead, gzindex, beg,   \* beg: deflateHeaders' local
  pending, bi_valid, last_flush,
  kind,                                 \* what level and strategy select
  block_open,
  left, lookahead,                      \* left: strstart - block_start
  avail_in, avail_out, flush,           \* of the call under way
  call, want, pc, ret,
  sect, hput, hcov, owed, marked        \* ghosts, see below

(* hput: header bytes put; hcov: of these, covered by the header crc;      *)
(* owed: input bytes read that no block put stands for;                    *)
(* marked: the last thing put is the empty block that marked a flush.       *)

headVars == <<gzhead, gzindex, beg, hput, hcov>>
ioVars   == <<avail_in, avail_out, flush>>
vars == <<status, wrap, gzhead, gzindex, beg, pending, bi_valid, last_flush, kind,
          block_open, left, lookahead, avail_in, avail_out, flush, call, want, pc,
          ret, sect, hput, hcov, owed, marked>>

Min2(a, b) == IF a <= b THEN a ELSE b

\* Mutant: Z_BLOCK ranks by its value.
RankByValue(f) == 2 * f
\* #define RANK(f)
Rank(f) == 2 * f - (IF f > 4 THEN 9 ELSE 0)

InitStatus(w) == IF w = 2 THEN "gzip" ELSE "init"
HeadStates == {"init", "gzip", "extra", "name", "comment", "hcrc"}

\* The header a decoder expects; hcrc is its two bytes.
HeadLen == gzhead.extra + gzhead.name + gzhead.comment + gzhead.hcrc

----------------------------------------------------------------------------
(* deflateInit2, deflateReset, deflateSetHeader.                           *)

\* What deflateReset leaves of block_open: only deflateInit2 clears it.
ResetOpen == block_open

Init ==
  /\ kind \in Kinds /\ want = kind
  /\ wrap \in Wraps /\ status = InitStatus(wrap) /\ gzhead = NoHead /\ gzindex = 0 /\ beg = 0
  /\ pending = 0 /\ bi_valid = 0 /\ last_flush = -2
  /\ block_open = 0 /\ left = 0 /\ lookahead = 0
  /\ avail_in = 0 /\ avail_out = 0 /\ flush = NO
  /\ call = "none" /\ pc = "idle" /\ ret = "none"
  /\ sect = "head" /\ hput = 0 /\ hcov = 0 /\ owed = 0 /\ marked = FALSE

DeflateReset ==
  /\ pc = "idle" /\ (ResetRule = "closed" => block_open = 0)
  /\ wrap' = IF wrap < 0 THEN -wrap ELSE wrap
  /\ status' = InitStatus(wrap') /\ gzhead' = NoHead
  /\ pending' = 0 /\ bi_valid' = 0 /\ last_flush' = -2
  /\ left' = 0 /\ lookahead' = 0
  /\ block_open' = ResetOpen
  /\ ret' = "none" /\ sect' = "head" /\ hput' = 0 /\ hcov' = 0 /\ owed' = 0 /\ marked' = FALSE
  /\ UNCHANGED <<gzindex, beg, kind, ioVars, call, want, pc>>

\* zlib-ng.h: after deflateInit2 or deflateReset, before the first deflate.
SetHeader(h) ==
  /\ pc = "idle" /\ wrap = 2 /\ status = "gzip" /\ last_flush = -2
  /\ gzhead' = h
  /\ UNCHANGED <<status, wrap, gzindex, beg, pending, bi_valid, last_flush, kind,
                 block_open, left, lookahead, ioVars, call, want, pc, ret, sect,
                 hput, hcov, owed, marked>>

----------------------------------------------------------------------------
(* Returning, and flush_pending.                                           *)

\* deflateParams goes on after its deflate().
ReturnTo(c, r) == ret' = r /\ pc' = IF c = "params" THEN "params" ELSE "idle"
Return(r) == ReturnTo(call, r)

\* put n bytes, flush_pending: what stays pending, what is left of avail_out.
Drained(n)  == pending + n - Min2(pending + n, avail_out)
OutAfter(n) == avail_out - Min2(pending + n, avail_out)

\* if (avail_out == 0) s->last_flush = -1;
LastFlushAt(full) == IF full THEN -1 ELSE last_flush

\* Mutant: a flush without new input has nothing to compress.
AfterHeadInputOnly(n, f, s) ==
  IF n # 0 \/ lookahead # 0 \/ (f = FINISH /\ s # "finish") THEN "comp"
  ELSE IF f = FINISH THEN "trailer" ELSE "out"
\* From here deflate() goes on: to a compressor, or straight to the trailer.
AfterHead(n, f, s) ==
  IF n # 0 \/ lookahead # 0 \/ (f # NO /\ s # "finish") THEN "comp"
  ELSE IF f = FINISH THEN "trailer" ELSE "out"

\* Nothing to do, or the same flush again.
Useless(n, f) == n = 0 /\ Rank(f) <= Rank(last_flush) /\ f # FINISH

\* deflate() up to the header or the compressor, called by c with n
\* bytes of input, o of output space and flush f.
Enter(c, n, o, f) ==
  LET len == Min2(pending, o)
      st  == IF status = "init" /\ wrap = 0 THEN "busy" ELSE status
  IN
  /\ call' = c /\ avail_in' = n /\ flush' = f
  /\ \/ /\ status = "finish" /\ f # FINISH
        /\ ReturnTo(c, "stream") /\ avail_out' = o
        /\ UNCHANGED <<pending, last_flush, status, beg, sect>>
     \/ /\ ~(status = "finish" /\ f # FINISH) /\ o = 0
        /\ ReturnTo(c, "buf") /\ avail_out' = o
        /\ UNCHANGED <<pending, last_flush, status, beg, sect>>
     \/ /\ ~(status = "finish" /\ f # FINISH) /\ o > 0
        /\ pending' = pending - len /\ avail_out' = o - len
        /\ \/ /\ pending # 0 /\ o = len
              /\ last_flush' = -1 /\ ReturnTo(c, "ok")
              /\ UNCHANGED <<status, beg, sect>>
           \/ /\ \/ pending = 0 /\ Useless(n, f)
                 \/ status = "finish" /\ n # 0 /\ (pending = 0 \/ o > len)
              /\ last_flush' = f /\ ReturnTo(c, "buf")
              /\ UNCHANGED <<status, beg, sect>>
           \/ /\ pending = 0 => ~Useless(n, f)
              /\ pending # 0 => o > len
              /\ ~(status = "finish" /\ n # 0)
              /\ last_flush' = f /\ status' = st /\ beg' = 0 /\ UNCHANGED ret
              /\ sect' = IF st = status THEN sect ELSE Parse(sect, "headend")
              /\ pc' = IF st \notin {"busy", "finish"} THEN "head"
                       ELSE AfterHead(n, f, st)

\* The caller's side of zlib-ng.h for Z_FINISH: called again with Z_FINISH and
\* more output space, but no more input than the call before left over.  What
\* comes after the final block is refused by the code.
Allowed(n, f) ==
  FinishRule = "contract" /\ flush = FINISH /\ status # "finish" /\ last_flush # -2 =>
    f = FINISH /\ n = avail_in

Deflate(n, o, f) ==
  /\ pc = "idle" /\ Allowed(n, f)
  /\ Enter("deflate", n, o, f)
  /\ UNCHANGED <<wrap, gzhead, gzindex, bi_valid, kind, block_open, left, lookahead,
                 want, hput, hcov, owed, marked>>

\* if (flush != Z_FINISH) return Z_OK;
Out ==
  /\ pc = "out" /\ Return("ok") /\ UNCHANGED call
  /\ UNCHANGED <<status, wrap, headVars, pending, bi_valid, last_flush, kind,
                 block_open, left, lookahead, ioVars, want, sect, owed, marked>>

----------------------------------------------------------------------------
(* deflateHeaders.                                                         *)

\* The header is complete: it must leave before compression starts.
HeadDone(n) ==
  /\ status' = "busy" /\ sect' = Parse(sect, "headend")
  /\ pending' = Drained(n) /\ avail_out' = OutAfter(n)
  /\ hput' = hput + n
  /\ last_flush' = LastFlushAt(Drained(n) # 0)
  /\ IF Drained(n) # 0 THEN Return("ok")
     ELSE pc' = AfterHead(avail_in, flush, "busy") /\ UNCHANGED ret

HeadZlib(n) ==
  /\ pc = "head" /\ status = "init"
  /\ HeadDone(n)
  /\ UNCHANGED <<wrap, gzhead, gzindex, beg, bi_valid, kind, block_open, left, lookahead,
                 avail_in, flush, call, want, hcov, owed, marked>>

HeadGzip ==
  /\ pc = "head" /\ status = "gzip"
  /\ IF ~gzhead.set
     THEN HeadDone(GzFixed) /\ UNCHANGED <<hcov, gzindex, beg>>
     ELSE /\ pending' = pending + GzFixed /\ hput' = hput + GzFixed
          /\ hcov' = IF gzhead.hcrc > 0 THEN hcov + pending + GzFixed ELSE hcov
          /\ gzindex' = 0 /\ beg' = pending + GzFixed
          /\ status' = "extra"
          /\ UNCHANGED <<avail_out, last_flush, ret, pc, sect>>
  /\ UNCHANGED <<wrap, gzhead, bi_valid, kind, block_open, left, lookahead,
                 avail_in, flush, call, want, owed, marked>>

\* HCRC_UPDATE(beg) with the buffer filled up to p.
Crc(b, p) == IF gzhead.hcrc > 0 /\ p > b THEN hcov + (p - b) ELSE hcov

\* flush_pending in the middle of the header: on with an empty buffer, or back
\* to the caller, to come here again with the next call.
SpillThen ==
  /\ avail_out' = avail_out - Min2(PendBuf, avail_out)
  /\ pending' = PendBuf - Min2(PendBuf, avail_out)
  /\ beg' = 0
  /\ IF PendBuf > avail_out THEN last_flush' = -1 /\ Return("ok")
     ELSE UNCHANGED <<last_flush, ret, pc>>

HeadExtra ==
  /\ pc = "head" /\ status = "extra"
  /\ LET rest == gzhead.extra - gzindex
         copy == PendBuf - pending
     IN IF pending + rest > PendBuf
        THEN /\ hput' = hput + copy /\ hcov' = Crc(beg, PendBuf)
             /\ gzindex' = gzindex + copy
             /\ SpillThen /\ UNCHANGED status
        ELSE /\ hput' = hput + rest /\ hcov' = Crc(beg, pending + rest)
             /\ gzindex' = 0 /\ pending' = pending + rest /\ beg' = pending + rest
             /\ status' = "name"
             /\ UNCHANGED <<avail_out, last_flush, ret, pc>>
  /\ UNCHANGED <<wrap, gzhead, bi_valid, kind, block_open, left, lookahead,
                 avail_in, flush, call, want, sect, owed, marked>>

\* The field under way in NAME_STATE and COMMENT_STATE.
Field == IF status = "name" THEN gzhead.name ELSE gzhead.comment

\* if (s->pending == s->pending_buf_size)
HeadSpill ==
  /\ pc = "head" /\ status \in {"name", "comment"} /\ Field > 0
  /\ pending = PendBuf
  /\ hcov' = Crc(beg, pending) /\ SpillThen
  /\ UNCHANGED <<status, wrap, gzhead, gzindex, bi_valid, kind, block_open, left,
                 lookahead, avail_in, flush, call, want, sect, hput, owed, marked>>

\* Mutant: the index of the name is where the comment starts.
IndexKept(s) == gzindex + 1
\* gzindex after the last byte of a field; the comment's is not used again.
IndexAfter(s) == IF s = "name" THEN 0 ELSE gzindex + 1

\* One byte of the name or of the comment; the field may also be absent.
HeadByte ==
  /\ pc = "head" /\ status \in {"name", "comment"}
  /\ LET next == IF status = "name" THEN "comment" ELSE "hcrc" IN
     \/ /\ Field = 0
        /\ status' = next /\ beg' = pending
        /\ UNCHANGED <<pending, gzindex, hput, hcov>>
     \/ /\ Field > 0 /\ pending < PendBuf
        /\ pending' = pending + 1 /\ hput' = hput + 1
        /\ IF gzindex + 1 < Field
           THEN gzindex' = gzindex + 1 /\ UNCHANGED <<status, beg, hcov>>
           ELSE /\ gzindex' = IndexAfter(status) /\ status' = next
                /\ hcov' = Crc(beg, pending + 1) /\ beg' = pending + 1
  /\ UNCHANGED <<wrap, gzhead, bi_valid, last_flush, kind, block_open, left, lookahead,
                 ioVars, call, want, pc, ret, sect, owed, marked>>

\* HCRC_STATE: make room for the crc, or put it and finish the header.
HeadHcrc ==
  /\ pc = "head" /\ status = "hcrc"
  /\ IF gzhead.hcrc > 0 /\ pending + 2 > PendBuf
     THEN /\ pending' = Drained(0) /\ avail_out' = OutAfter(0)
          /\ IF Drained(0) # 0 THEN last_flush' = -1 /\ Return("ok")
             ELSE UNCHANGED <<last_flush, ret, pc>>
          /\ UNCHANGED <<status, sect, hput>>
     ELSE HeadDone(gzhead.hcrc)
  /\ UNCHANGED <<wrap, gzhead, gzindex, beg, bi_valid, kind, block_open, left, lookahead,
                 avail_in, flush, call, want, hcov, owed, marked>>

----------------------------------------------------------------------------
(* The compressors, as far as the stream sees them.                        *)

\* What a compressor returns: FINISH_STATE, and how deflate() goes on.
Finished(r) == r \in {"finish_started", "finish_done"}

CompReturns(r, out) ==
  /\ status' = IF Finished(r) THEN "finish" ELSE status
  /\ IF r \in {"need_more", "finish_started"}
     THEN last_flush' = LastFlushAt(out = 0) /\ Return("ok")
     ELSE /\ pc' = IF r = "block_done" THEN "marker" ELSE "trailer"
          /\ UNCHANGED <<last_flush, ret>>

Goes == UNCHANGED <<status, last_flush, ret, pc>>

\* fill_window: some of the input becomes lookahead.
Fill(n) ==
  /\ pc \in {"comp", "quick"} /\ kind # "stored" /\ (kind = "static" => pc = "quick")
  /\ pc = "quick" => pending + Margin < PendBuf
  /\ lookahead < Need /\ n \in 1..avail_in
  /\ avail_in' = avail_in - n /\ lookahead' = lookahead + n /\ owed' = owed + n
  /\ UNCHANGED <<status, wrap, headVars, pending, bi_valid, last_flush, kind, block_open,
                 left, avail_out, flush, call, want, pc, ret, sect, marked>>

\* A symbol may be taken out of the lookahead.
Ready == lookahead >= Need \/ (lookahead > 0 /\ avail_in = 0 /\ flush # NO)

\* The symbol buffer has room: nothing is put.
Tally(n) ==
  /\ pc = "comp" /\ kind = "tally" /\ Ready
  /\ n \in 1..lookahead /\ left + n <= LeftCap
  /\ lookahead' = lookahead - n /\ left' = left + n
  /\ UNCHANGED <<status, wrap, headVars, pending, bi_valid, last_flush, kind, block_open,
                 ioVars, call, want, pc, ret, sect, owed, marked>>

\* Mutant: the loop goes on although the output is full.
FullIgnored(out) == IF flush = FINISH THEN "finish_done" ELSE "on"
\* FLUSH_BLOCK(s, window, 0) inside the loop.
AfterBlock(out) == IF out = 0 THEN "need_more" ELSE "on"

\* The symbol fills the buffer: a block of b bytes, leaving v bits over.
TallyBlock(n, b, v) ==
  /\ pc = "comp" /\ kind = "tally" /\ Ready
  /\ n \in 1..lookahead
  /\ lookahead' = lookahead - n /\ left' = 0 /\ owed' = owed - (left + n)
  /\ pending' = Drained(b) /\ avail_out' = OutAfter(b) /\ bi_valid' = v
  /\ sect' = Parse(sect, "block") /\ marked' = FALSE
  /\ IF AfterBlock(OutAfter(b)) = "on" THEN Goes
     ELSE CompReturns(AfterBlock(OutAfter(b)), OutAfter(b))
  /\ UNCHANGED <<wrap, headVars, kind, block_open, avail_in, flush, call, want>>

\* if (flush == Z_NO_FLUSH) return need_more; nothing is left to read.
NeedMore ==
  /\ pc \in {"comp", "quick"} /\ kind # "stored" /\ (kind = "static" => pc = "quick")
  /\ pc = "quick" => pending + Margin < PendBuf
  /\ flush = NO /\ lookahead < Need /\ avail_in = 0
  /\ CompReturns("need_more", avail_out)
  /\ UNCHANGED <<wrap, headVars, pending, bi_valid, kind, block_open, left, lookahead,
                 ioVars, call, want, sect, owed, marked>>

\* All input is taken: the last block, or the block that a flush ends.
TallyEnd(b, v) ==
  /\ pc = "comp" /\ kind = "tally"
  /\ flush # NO /\ lookahead = 0 /\ avail_in = 0
  /\ \/ /\ flush = FINISH \/ left > 0
        /\ pending' = Drained(b) /\ avail_out' = OutAfter(b)
        /\ bi_valid' = IF flush = FINISH THEN 0 ELSE v
        /\ owed' = owed - left /\ left' = 0 /\ marked' = FALSE
        /\ sect' = Parse(sect, IF flush = FINISH THEN "final" ELSE "block")
        /\ CompReturns(IF flush = FINISH
                         THEN (IF OutAfter(b) = 0 THEN "finish_started" ELSE "finish_done")
                         ELSE IF OutAfter(b) = 0 THEN "need_more" ELSE "block_done",
                        OutAfter(b))
     \/ /\ flush # FINISH /\ left = 0
        /\ CompReturns("block_done", avail_out)
        /\ UNCHANGED <<pending, avail_out, bi_valid, left, owed, sect, marked>>
  /\ UNCHANGED <<wrap, headVars, kind, block_open, lookahead, avail_in, flush, call, want>>

----------------------------------------------------------------------------
(* deflate_quick under Z_FIXED.                                            *)

\* 1 for the block that carries the final bit.
Last == IF flush = FINISH THEN 1 ELSE 0

\* Mutant: the open block is taken for the last one.
ClosesNever == FALSE
\* quick_start_block ends the open block so that the last one can carry the bit.
ClosesFirst == flush = FINISH /\ block_open = 1

\* quick_end_block: c bytes, v bits stay over unless the block is the last.
CloseBlock(c, v, l) ==
  /\ block_open' = 0 /\ left' = 0
  /\ sect' = Parse(sect, "close")
  /\ bi_valid' = IF l = 1 THEN 0 ELSE v
  /\ pending' = Drained(c) /\ avail_out' = OutAfter(c)

QuickClose(c, v) ==
  /\ pc = "comp" /\ kind = "static" /\ ClosesFirst
  /\ CloseBlock(c, v, 0)
  /\ IF OutAfter(c) = 0 THEN CompReturns("need_more", 0) ELSE Goes
  /\ UNCHANGED <<wrap, headVars, kind, lookahead, avail_in, flush, call, want, owed, marked>>

\* "so that if no input data is given an empty block will not be written"
Opens == block_open = 0 /\ (flush = FINISH \/ lookahead > 0)

QuickStart ==
  /\ pc = "comp" /\ kind = "static" /\ ~ClosesFirst
  /\ pc' = "quick"
  /\ IF Opens
     THEN /\ block_open' = 1 + Last /\ left' = 0
          /\ sect' = Parse(sect, IF Last = 1 THEN "openfinal" ELSE "open")
     ELSE UNCHANGED <<block_open, left, sect>>
  /\ UNCHANGED <<status, wrap, headVars, pending, bi_valid, last_flush, kind, lookahead,
                 ioVars, call, want, ret, owed, marked>>

\* quick_flush_pending: room for one more symbol.
QuickFlush ==
  /\ pc = "quick" /\ pending + Margin >= PendBuf
  /\ pending' = Drained(0) /\ avail_out' = OutAfter(0)
  /\ IF OutAfter(0) # 0 THEN Goes
     ELSE CompReturns(IF flush = FINISH /\ avail_in = 0 /\ bi_valid = 0 /\ block_open = 0
                      THEN "finish_started" ELSE "need_more", 0)
  /\ UNCHANGED <<wrap, headVars, bi_valid, kind, block_open, left, lookahead, avail_in,
                 flush, call, want, sect, owed, marked>>

\* A symbol for n input bytes, c bytes of output; it may have to open a block.
QuickSymbol(n, c) ==
  /\ pc = "quick" /\ Ready /\ pending + Margin < PendBuf
  /\ n \in 1..lookahead
  /\ lookahead' = lookahead - n /\ owed' = owed - n
  /\ left' = Min2((IF Opens THEN 0 ELSE left) + n, LeftCap)
  /\ pending' = pending + c
  /\ block_open' = IF Opens THEN 1 + Last ELSE block_open
  /\ sect' = Parse(IF Opens THEN Parse(sect, IF Last = 1 THEN "openfinal" ELSE "open")
                    ELSE sect, "symbol")
  /\ marked' = FALSE
  /\ UNCHANGED <<status, wrap, headVars, bi_valid, last_flush, kind, ioVars, call, want,
                 pc, ret>>

\* All input is taken: quick_end_block.
QuickEnd(c, v) ==
  /\ pc = "quick" /\ pending + Margin < PendBuf
  /\ flush # NO /\ lookahead = 0 /\ avail_in = 0
  /\ IF block_open # 0
     THEN /\ CloseBlock(c, v, Last)
          /\ CompReturns(IF Last = 1
                           THEN (IF OutAfter(c) = 0 THEN "finish_started" ELSE "finish_done")
                           ELSE IF OutAfter(c) = 0 THEN "need_more" ELSE "block_done",
                          OutAfter(c))
     ELSE /\ CompReturns(IF Last = 1 THEN "finish_done" ELSE "block_done", avail_out)
          /\ UNCHANGED <<block_open, left, sect, bi_valid, pending, avail_out>>
  /\ UNCHANGED <<wrap, headVars, kind, lookahead, avail_in, flush, call, want, owed, marked>>

----------------------------------------------------------------------------
(* deflate_stored.                                                         *)

\* Mutant: the bits waiting in bi_buf are forgotten.
HdrShort == HdrLow
\* (s->bi_valid + 42) >> 3: what zng_tr_stored_block will put.
Hdr == HdrLow + (IF bi_valid > 5 THEN 1 ELSE 0)
HdrPut == HdrLow + (IF bi_valid > 5 THEN 1 ELSE 0)

\* Bytes a stored block written to next_out would hold.
DirectLen == Min2(Min2(MaxStored, left + avail_in), avail_out - Hdr)

CopyBreaks ==
  \/ avail_out < Hdr
  \/ /\ DirectLen < Min2(PendBuf - HdrLow, WSize)
     /\ \/ DirectLen = 0 /\ flush # FINISH
        \/ flush = NO
        \/ DirectLen # left + avail_in

\* The header goes through pending, the data straight to next_out behind it:
\* data that overtakes pending bytes spoils the stream.
StoredCopy ==
  /\ pc = "comp" /\ kind = "stored" /\ ~CopyBreaks
  /\ LET len  == DirectLen
         m    == Min2(left, len)
         last == flush = FINISH /\ len = left + avail_in
     IN
       /\ pending' = Drained(HdrPut)
       /\ avail_out' = OutAfter(HdrPut) - len
       /\ sect' = IF Drained(HdrPut) # 0 THEN "bad"
                  ELSE Parse(sect, IF last THEN "final" ELSE "block")
       /\ left' = left - m /\ avail_in' = avail_in - (len - m)
       /\ owed' = owed - m /\ marked' = FALSE /\ bi_valid' = 0
       /\ IF last THEN CompReturns("finish_done", avail_out) ELSE Goes
  /\ UNCHANGED <<wrap, headVars, kind, block_open, lookahead, flush, call, want>>

\* "If flushing and all input has been consumed, then done."
StoredDone ==
  /\ pc = "comp" /\ kind = "stored" /\ CopyBreaks
  /\ flush \notin {NO, FINISH} /\ avail_in = 0 /\ left = 0
  /\ CompReturns("block_done", avail_out)
  /\ UNCHANGED <<wrap, headVars, pending, bi_valid, kind, block_open, left, lookahead,
                 ioVars, call, want, sect, owed, marked>>

\* The rest of the input goes into the window, and a worthy or final block
\* into pending.
StoredFill ==
  /\ pc = "comp" /\ kind = "stored" /\ CopyBreaks
  /\ ~(flush \notin {NO, FINISH} /\ avail_in = 0 /\ left = 0)
  /\ LET n    == Min2(avail_in, Room - left)
         have == Min2(PendBuf - Hdr, MaxStored)
         l    == left + n
         emit == \/ l >= Min2(have, WSize)
                 \/ (l > 0 \/ flush = FINISH) /\ flush # NO /\ avail_in = n /\ l <= have
         len  == Min2(l, have)
         last == emit /\ flush = FINISH /\ avail_in = n /\ len = l
     IN
       /\ avail_in' = avail_in - n
       /\ left' = IF emit THEN l - len ELSE l
       /\ owed' = IF emit THEN owed + n - len ELSE owed + n
       /\ pending' = IF emit THEN Drained(HdrPut + len) ELSE pending
       /\ avail_out' = IF emit THEN OutAfter(HdrPut + len) ELSE avail_out
       /\ bi_valid' = IF emit THEN 0 ELSE bi_valid
       /\ marked' = (marked /\ ~emit)
       /\ sect' = IF emit THEN Parse(sect, IF last THEN "final" ELSE "block") ELSE sect
       /\ CompReturns(IF last THEN "finish_started" ELSE "need_more", avail_out')
  /\ UNCHANGED <<wrap, headVars, kind, block_open, lookahead, flush, call, want>>

----------------------------------------------------------------------------
(* The end of deflate(): flush markers and the trailer.                    *)

\* Bytes of the empty block a flush is marked with; zng_tr_align's ten bits
\* are one byte or two.
MarkSizes == CASE flush = PARTIAL -> {1, 2} [] flush = BLOCK -> {0} [] OTHER -> {HdrPut}

Marker(m, v) ==
  /\ pc = "marker"
  /\ pending' = Drained(m) /\ avail_out' = OutAfter(m)
  /\ sect' = IF flush = BLOCK THEN sect ELSE Parse(sect, "block")
  /\ marked' = (marked \/ flush # BLOCK)
  /\ bi_valid' = CASE flush = PARTIAL -> v [] flush = BLOCK -> bi_valid [] OTHER -> 0
  /\ left' = IF flush = FULL /\ lookahead = 0 THEN 0 ELSE left
  /\ last_flush' = LastFlushAt(OutAfter(m) = 0)
  /\ Return("ok")
  /\ UNCHANGED <<status, wrap, headVars, kind, block_open, lookahead, avail_in, flush,
                 call, want, owed>>

\* Mutant: the trailer is put by every call.
WrapKept == wrap
\* "write the trailer only once!"
WrapAfter == IF wrap > 0 THEN -wrap ELSE wrap

WriteTrailer ==
  /\ pc = "trailer"
  /\ LET n == IF wrap > 0 THEN Trailer ELSE 0 IN
       /\ pending' = Drained(n) /\ avail_out' = OutAfter(n)
       /\ Return(IF Drained(n) = 0 THEN "end" ELSE "ok")
  /\ sect' = IF wrap > 0 THEN Parse(sect, "trailer") ELSE sect
  /\ wrap' = WrapAfter
  /\ UNCHANGED <<status, headVars, bi_valid, last_flush, kind, block_open, left, lookahead,
                 avail_in, flush, call, want, owed, marked>>

----------------------------------------------------------------------------
(* deflateParams.                                                          *)

\* last_flush == -2: nothing was compressed yet, the change is immediate.
ParamsNow(k) ==
  /\ pc = "idle" /\ k # kind /\ last_flush = -2
  /\ kind' = k /\ want' = k
  /\ UNCHANGED <<status, wrap, headVars, pending, bi_valid, last_flush, block_open, left,
                 lookahead, ioVars, call, pc, ret, sect, owed, marked>>

\* Another compressor (or another that tallies): deflate(strm, Z_BLOCK) first.
ParamsFlush(k, n, o) ==
  /\ pc = "idle" /\ (k # kind \/ k = "tally") /\ last_flush # -2
  /\ Allowed(n, BLOCK)
  /\ want' = k /\ Enter("params", n, o, BLOCK)
  /\ UNCHANGED <<wrap, gzhead, gzindex, bi_valid, kind, block_open, left, lookahead,
                 hput, hcov, owed, marked>>

\* Mutant: only unread input counts.
ParamsLeftLoose == avail_in # 0
\* Data is left over: the parameters do not change.
ParamsLeft == avail_in # 0 \/ left + lookahead # 0

ParamsAfter ==
  /\ pc = "params"
  /\ pc' = "idle" /\ call' = "none"
  /\ IF ret = "stream" \/ ParamsLeft
     THEN want' = kind /\ ret' = "refused" /\ UNCHANGED kind
     ELSE kind' = want /\ ret' = "changed" /\ UNCHANGED want
  /\ UNCHANGED <<status, wrap, headVars, pending, bi_valid, last_flush, block_open, left,
                 lookahead, ioVars, sect, owed, marked>>

----------------------------------------------------------------------------
\* Bits that a block may leave over: a stored header takes one byte more or not.
Bits == {0, 6}

\* The steps of a call under way.
Step ==
  \/ \E n \in ZlibHeads : HeadZlib(n)
  \/ HeadGzip \/ HeadExtra \/ HeadSpill \/ HeadByte \/ HeadHcrc \/ Out
  \/ \E n \in 1..avail_in : Fill(n)
  \/ \E n \in 1..lookahead : Tally(n)
  \/ \E n \in 1..lookahead, b \in BlockSizes, v \in Bits : TallyBlock(n, b, v)
  \/ NeedMore
  \/ \E b \in BlockSizes, v \in Bits : TallyEnd(b, v)
  \/ \E c \in 0..Margin, v \in Bits : QuickClose(c, v) \/ QuickEnd(c, v)
  \/ QuickStart \/ QuickFlush
  \/ \E n \in 1..lookahead, c \in 0..Margin : QuickSymbol(n, c)
  \/ StoredCopy \/ StoredDone \/ StoredFill
  \/ \E m \in MarkSizes, v \in Bits : Marker(m, v)
  \/ WriteTrailer \/ ParamsAfter

Caller ==
  \/ \E n \in InSizes \cup {avail_in}, o \in OutSizes, f \in Flushes : Deflate(n, o, f)
  \/ \E k \in Kinds : ParamsNow(k) \/ \E n \in InSizes, o \in OutSizes : ParamsFlush(k, n, o)
  \/ \E h \in Heads : SetHeader(h)
  \/ DeflateReset

Next == Step \/ Caller
Spec == Init /\ [][Next]_vars

\* zlib-ng.h: deflate is called again with Z_FINISH, with the input the call before
\* left over and with output space, until it returns Z_STREAM_END, whatever else
\* is tried in between.  Input refused after the final block is taken back.  The
\* steps of a call just run.
LeftOver == IF status = "finish" THEN 0 ELSE avail_in
FinishCall == \E o \in OutSizes \ {0} : Deflate(LeftOver, o, FINISH)
FairSpec == Spec /\ WF_vars(Step) /\ SF_vars(FinishCall)

----------------------------------------------------------------------------
(* Correctness.                                                            *)

TypeCounts ==
  /\ gzindex \in Nat /\ beg \in Nat /\ pending \in Nat
  /\ left \in Nat /\ lookahead \in Nat /\ avail_in \in Nat /\ avail_out \in Nat
  /\ hput \in Nat /\ hcov \in Nat /\ owed \in Nat
  /\ last_flush \in -2..5 /\ flush \in 0..5 /\ block_open \in 0..2
  /\ wrap \in -2..2 /\ bi_valid \in Bits

TypeTags ==
  /\ status \in HeadStates \cup {"busy", "finish"} /\ gzhead \in Heads \cup {NoHead}
  /\ kind \in Kinds /\ want \in Kinds /\ call \in {"none", "deflate", "params"}
  /\ pc \in {"idle", "head", "comp", "quick", "marker", "trailer", "out", "params"}
  /\ ret \in {"none", "ok", "end", "buf", "stream", "refused", "changed"}
  /\ sect \in Sections /\ marked \in BOOLEAN

\* Type invariant.  No count goes below zero: bytes are not put twice.
TypeOK == TypeCounts /\ TypeTags

\* However the output is cut up and whatever was flushed, changed or reset in
\* between, what deflate puts is one header, blocks, one final block, one
\* trailer; direct output of deflate_stored never overtakes pending bytes.
WellFormed == sect # "bad"

\* Z_STREAM_END means the end: all input offered is read and in a block, the final
\* block and the trailer are out, and no bit waits ("bi_buf not flushed").
EndComplete ==
  pc = "idle" /\ ret = "end" =>
    /\ sect = IF wrap = 0 THEN "ended" ELSE "trailed"
    /\ avail_in = 0 /\ owed = 0
    /\ pending = 0 /\ bi_valid = 0 /\ block_open = 0

\* Header bytes come out exactly once wherever the output space ended, and the
\* header crc covers each of them once.
HeaderExact ==
  /\ status = "hcrc" /\ gzhead.hcrc > 0 => hcov = hput
  /\ wrap \in {2, -2} /\ sect # "head" => hput = GzFixed + HeadLen

\* zlib-ng.h: the flush is complete when deflate returns with non-zero
\* avail_out: nothing is held back, and the marker of the flush is out.
FlushComplete ==
  pc = "idle" /\ ret = "ok" /\ flush \in {PARTIAL, SYNC, FULL, BLOCK} /\ avail_out > 0 =>
    /\ owed = 0 /\ pending = 0 /\ sect = "between"
    /\ flush # BLOCK => marked

\* Z_BUF_ERROR with output space left is only returned when there is nothing
\* to do: not while a flush is incomplete or its marker missing.
NoFalseStall ==
  pc = "idle" /\ ret = "buf" /\ avail_out > 0 =>
    IF avail_in # 0 THEN status = "finish"
    ELSE /\ pending = 0
         /\ flush # NO => owed = 0 /\ sect = "between"
         /\ flush \in {PARTIAL, SYNC, FULL} => marked

\* A tallied block, a flush marker and a trailer start in an empty pending
\* buffer (sym_buf lies in the same memory), and nothing overruns it.
PendingRoom ==
  /\ pending <= PendBuf
  /\ pc \in {"marker", "trailer"} \/ (pc = "comp" /\ kind # "static") => pending = 0

\* Once Z_FINISH was given, repeating it with the input it left over finishes the
\* stream, however little output space each call has.
Finishes ==
  [](pc = "idle" /\ flush = FINISH /\ last_flush # -2 => <>(ret = "end" \/ last_flush = -2))
----------------------------------------------------------------------------
(* Inductive invariants.                                                   *)

\* The callers for whom the theorems hold: those who repeat Z_FINISH and reset
\* only between static blocks, and those who do not use Z_FIXED at level 1.
Disciplined ==
  "static" \notin Kinds \/ (FinishRule = "contract" /\ ResetRule = "closed")

\* Where the code of a call may be, and with an empty pending buffer or not.
PlaceInv ==
  /\ pc \in {"comp", "marker", "trailer"} => pending = 0
  /\ pc = "head" => status \in HeadStates /\ wrap # 0
  /\ pc = "head" /\ status \in {"init", "gzip"} => pending = 0
  /\ pc \in {"comp", "quick", "marker", "out"} => status = "busy"
  /\ pc = "quick" => kind = "static" /\ (block_open = 0 => pending = 0)
  /\ pc = "marker" => block_open = 0 /\ flush \notin {NO, FINISH} /\ owed = 0
  /\ pc = "trailer" => status = "finish" /\ flush = FINISH /\ avail_in = 0
  /\ pc = "out" => flush = NO
  /\ pc = "params" => call = "params" /\ flush # FINISH
  /\ call = "params" => flush # FINISH

\* What the code's own variables say about the stream, against the decoder's view.
SectInv ==
  /\ status \in HeadStates => sect = "head" /\ block_open = 0 /\ wrap >= 0
  /\ status \in {"extra", "name", "comment", "hcrc"} => gzhead.set
  /\ status = "init" => wrap # 2
  /\ status \in {"gzip", "extra", "name", "comment", "hcrc"} => wrap = 2
  /\ status = "busy" =>
       /\ wrap >= 0
       /\ block_open = 0 => sect = "between"
       /\ block_open = 1 => sect = "open"
       /\ block_open = 2 => sect = "openfinal"
  /\ status = "finish" =>
       /\ block_open = 0 /\ bi_valid = 0
       /\ sect = IF wrap >= 0 THEN "ended" ELSE "trailed"
  /\ block_open # 0 => kind = "static"
  /\ block_open # 0 => left + lookahead > 0 \/ (block_open = 2 /\ pc = "quick" /\ pending = 0)
  /\ block_open = 2 => flush = FINISH
  /\ pc = "quick" /\ flush = FINISH => block_open = 2

\* The books: input read and not yet put.
AccountInv ==
  /\ owed = lookahead + (IF kind = "static" THEN 0 ELSE left)
  /\ kind = "stored" => lookahead = 0 /\ left <= Room
  /\ status \in HeadStates \cup {"finish"} => left = 0 /\ lookahead = 0
  /\ last_flush = -2 => status \in {"init", "gzip"} /\ pc = "idle" /\ pending = 0

\* last_flush tells what has been completed.
FlushInv ==
  /\ pc \notin {"idle", "params"} => last_flush = flush
  /\ pc \in {"idle", "params"} /\ last_flush \in {PARTIAL, SYNC, FULL, BLOCK} =>
       /\ owed = 0 /\ sect = "between" /\ pending = 0
       /\ last_flush # BLOCK => marked
  /\ pc \in {"idle", "params"} /\ last_flush = FINISH => status = "finish"
  /\ pc = "idle" /\ ret = "end" => status = "finish" /\ pending = 0 /\ wrap <= 0 /\ avail_in = 0
  /\ pc \in {"idle", "params"} /\ ret \in {"ok", "buf"} /\ avail_out > 0 => last_flush = flush
  /\ pc \in {"idle", "params"} /\ ret = "buf" /\ avail_out > 0 =>
       pending = 0 /\ (IF avail_in # 0 THEN status = "finish" ELSE flush # FINISH)

\* How much of the gzip header is put, and how much of that the crc covers.
HeadInv ==
  /\ status = "gzip" => hput = 0 /\ hcov = 0
  /\ status = "extra" => gzindex <= gzhead.extra /\ hput = GzFixed + gzindex
  /\ status = "name" =>
       /\ gzindex = 0 \/ gzindex < gzhead.name
       /\ hput = GzFixed + gzhead.extra + gzindex
  /\ status = "comment" =>
       /\ gzindex = 0 \/ gzindex < gzhead.comment
       /\ hput = GzFixed + gzhead.extra + gzhead.name + gzindex
  /\ status = "hcrc" => hput = GzFixed + gzhead.extra + gzhead.name + gzhead.comment
  /\ status \in {"busy", "finish"} /\ wrap \in {2, -2} => hput = GzFixed + HeadLen
  /\ pc = "head" /\ status \in {"extra", "name", "comment"} =>
       /\ beg <= pending
       /\ status # "extra" /\ gzindex = 0 => beg = pending
       /\ gzhead.hcrc > 0 => hcov = hput - (pending - beg)
  /\ gzhead.hcrc > 0 /\ (status = "hcrc" \/ (pc # "head" /\ status \in {"extra", "name", "comment"})) =>
       hcov = hput

PendFits == pending <= PendBuf

StreamInv ==
  TypeOK /\ PendFits /\ PlaceInv /\ SectInv /\ AccountInv /\ FlushInv /\ HeadInv
=============================================================================
