------------------------ MODULE DeflateStreamProofs ------------------------
(***************************************************************************)
(* The deflate() protocol keeps StreamInv, and with it the safety          *)
(* properties of DeflateStream, for every choice of the constants and every *)
(* caller that is Disciplined.                                             *)
(***************************************************************************)
EXTENDS DeflateStream, TLAPS

USE DEF NO, PARTIAL, SYNC, FULL, FINISH, BLOCK, Min2, HeadStates, Sections, InitStatus, Bits

\* The tokens deflate puts where it is allowed to put them.
LEMMA ParseFacts ==
  /\ Parse("head", "headend") = "between" /\ Parse("between", "block") = "between"
  /\ Parse("between", "final") = "ended" /\ Parse("between", "open") = "open"
  /\ Parse("between", "openfinal") = "openfinal" /\ Parse("open", "symbol") = "open"
  /\ Parse("openfinal", "symbol") = "openfinal" /\ Parse("open", "close") = "between"
  /\ Parse("openfinal", "close") = "ended" /\ Parse("ended", "trailer") = "trailed"
  BY DEF Parse

\* Parse always yields a section.
LEMMA ParseType == \A s, t : Parse(s, t) \in Sections
  BY DEF Parse

\* flush_pending after n more bytes: what stays pending fits, and either
\* nothing stays or the output is full.
LEMMA DrainPick ==
  ASSUME StreamInv, NEW n \in Nat, pending + n <= PendBuf
  PROVE  \E d \in Nat, o \in Nat :
           /\ Drained(n) = d /\ OutAfter(n) = o /\ d <= PendBuf
           /\ o = 0 \/ d = 0
           /\ pending = 0 /\ n <= avail_out => d = 0 /\ o = avail_out - n
  <1>t. pending \in Nat /\ avail_out \in Nat BY DEF StreamInv, TypeOK, TypeCounts
  <1>a. Drained(n) \in Nat /\ OutAfter(n) \in Nat BY <1>t DEF Drained, OutAfter
  <1>b. /\ Drained(n) <= PendBuf /\ (OutAfter(n) = 0 \/ Drained(n) = 0)
        /\ pending = 0 /\ n <= avail_out => Drained(n) = 0 /\ OutAfter(n) = avail_out - n
    BY <1>t, StreamAssumption DEF Drained, OutAfter
  <1> QED BY <1>a, <1>b

\* deflateInit2 establishes the invariant.
LEMMA InitInv == Init => StreamInv
  <1> SUFFICES ASSUME Init PROVE StreamInv OBVIOUS
  <1> USE StreamAssumption DEF Init
  <1>1. TypeCounts BY DEF TypeCounts
  <1>2. TypeTags BY DEF TypeTags
  <1>3. PendFits BY DEF PendFits
  <1>4. PlaceInv BY DEF PlaceInv
  <1>5. SectInv BY DEF SectInv
  <1>6. AccountInv /\ FlushInv /\ HeadInv BY DEF AccountInv, FlushInv, HeadInv, NoHead
  <1> QED BY <1>1, <1>2, <1>3, <1>4, <1>5, <1>6 DEF StreamInv, TypeOK

\* The fields of the gzip header under way, set by the caller or absent.
LEMMA GzFacts ==
  ASSUME TypeTags
  PROVE  /\ gzhead.extra \in Nat /\ gzhead.name \in Nat /\ gzhead.comment \in Nat
         /\ gzhead.hcrc = 0 \/ gzhead.hcrc = 2
         /\ ~gzhead.set => gzhead.extra = 0 /\ gzhead.name = 0 /\ gzhead.comment = 0 /\ gzhead.hcrc = 0
  <1>1. CASE gzhead = NoHead BY <1>1 DEF NoHead
  <1>2. CASE gzhead \in Heads
    <2>1. gzhead \in [set : {TRUE}, extra : Nat, name : Nat, comment : Nat, hcrc : {0, 2}]
      BY <1>2, StreamAssumption
    <2> QED BY <2>1
  <1> QED BY <1>1, <1>2 DEF TypeTags

----------------------------------------------------------------------------
(* One lemma per action: each keeps every part of the invariant.           *)

\* deflateReset: with no static block open the stream starts afresh; wrap gets
\* its sign back.
LEMMA DeflateResetKeeps ==
  ASSUME Disciplined, StreamInv, DeflateReset
  PROVE  StreamInv'
  <1> USE ParseFacts DEF headVars, ioVars
  <1>i. TypeOK /\ PendFits /\ PlaceInv /\ SectInv /\ AccountInv /\ FlushInv /\ HeadInv
    BY DEF StreamInv
  <1>w. wrap' \in 0..2 BY <1>i, StreamAssumption DEF DeflateReset, TypeOK, TypeCounts
  <1>1. TypeCounts' BY <1>i, <1>w DEF DeflateReset, ResetOpen, TypeOK, TypeCounts
  <1>2. TypeTags' BY <1>i DEF DeflateReset, TypeOK, TypeTags
  <1>3. PendFits' BY <1>i, StreamAssumption DEF DeflateReset, PendFits
  <1>4. PlaceInv' BY <1>i DEF DeflateReset, PlaceInv
  <1>5. SectInv' BY <1>i, <1>w DEF DeflateReset, ResetOpen, SectInv, Disciplined, TypeOK, TypeTags
  <1>6. AccountInv' BY <1>i, StreamAssumption DEF DeflateReset, AccountInv
  <1>7. FlushInv' BY <1>i DEF DeflateReset, FlushInv
  <1>8. HeadInv' BY <1>i DEF DeflateReset, HeadInv
  <1> QED BY <1>1, <1>2, <1>3, <1>4, <1>5, <1>6, <1>7, <1>8 DEF StreamInv, TypeOK

\* deflateSetHeader, before anything of the header is put.
LEMMA SetHeaderKeeps ==
  ASSUME Disciplined, StreamInv, NEW h \in Heads, SetHeader(h)
  PROVE  StreamInv'
  <1> USE ParseFacts DEF headVars, ioVars
  <1>i. TypeOK /\ PendFits /\ PlaceInv /\ SectInv /\ AccountInv /\ FlushInv /\ HeadInv
    BY DEF StreamInv
  <1>1. TypeCounts' BY <1>i DEF SetHeader, TypeOK, TypeCounts
  <1>2. TypeTags' BY <1>i DEF SetHeader, TypeOK, TypeTags
  <1>3. PendFits' BY <1>i DEF SetHeader, PendFits
  <1>4. PlaceInv' BY <1>i DEF SetHeader, PlaceInv
  <1>5. SectInv' BY <1>i DEF SetHeader, SectInv
  <1>6. AccountInv' BY <1>i DEF SetHeader, AccountInv
  <1>7. FlushInv' BY <1>i DEF SetHeader, FlushInv
  <1>8. HeadInv' BY <1>i DEF SetHeader, HeadInv
  <1> QED BY <1>1, <1>2, <1>3, <1>4, <1>5, <1>6, <1>7, <1>8 DEF StreamInv, TypeOK

\* deflate() returns with nothing to do for Z_NO_FLUSH.
LEMMA OutKeeps ==
  ASSUME Disciplined, StreamInv, Out
  PROVE  StreamInv'
  <1> USE ParseFacts DEF headVars, ioVars
  <1>i. TypeOK /\ PendFits /\ PlaceInv /\ SectInv /\ AccountInv /\ FlushInv /\ HeadInv
    BY DEF StreamInv
  <1>1. TypeCounts' BY <1>i DEF Out, TypeOK, TypeCounts
  <1>2. TypeTags' BY <1>i DEF Out, Return, ReturnTo, TypeOK, TypeTags
  <1>3. PendFits' BY <1>i DEF Out, PendFits
  <1>4. PlaceInv' BY <1>i DEF Out, Return, ReturnTo, PlaceInv
  <1>5. SectInv' BY <1>i DEF Out, Return, ReturnTo, SectInv
  <1>6. AccountInv' BY <1>i DEF Out, AccountInv
  <1>7. FlushInv' BY <1>i DEF Out, Return, ReturnTo, FlushInv, PlaceInv
  <1>8. HeadInv' BY <1>i DEF Out, Return, ReturnTo, HeadInv, HeadLen
  <1> QED BY <1>1, <1>2, <1>3, <1>4, <1>5, <1>6, <1>7, <1>8 DEF StreamInv, TypeOK

\* deflateHeaders: the zlib header, put into an empty pending buffer.
LEMMA HeadZlibKeeps ==
  ASSUME Disciplined, StreamInv, NEW n \in ZlibHeads, HeadZlib(n)
  PROVE  StreamInv'
  <1> USE ParseFacts DEF headVars, ioVars
  <1>i. TypeOK /\ PendFits /\ PlaceInv /\ SectInv /\ AccountInv /\ FlushInv /\ HeadInv
    BY DEF StreamInv
  <1>n. n \in Nat /\ pending + n <= PendBuf
    BY <1>i, StreamAssumption DEF HeadZlib, TypeOK, TypeCounts, PendFits, PlaceInv
  <1>d. PICK d \in Nat, o \in Nat :
           /\ Drained(n) = d /\ OutAfter(n) = o /\ d <= PendBuf
           /\ o = 0 \/ d = 0
           /\ pending = 0 /\ n <= avail_out => d = 0 /\ o = avail_out - n
    BY <1>n, DrainPick
  <1>1. TypeCounts' BY <1>i, <1>n, <1>d DEF HeadZlib, HeadDone, LastFlushAt, TypeOK, TypeCounts
  <1>2. TypeTags'
    BY <1>i, ParseType DEF HeadZlib, HeadDone, Return, ReturnTo, AfterHead, TypeOK, TypeTags
  <1>3. PendFits' BY <1>i, <1>d DEF HeadZlib, HeadDone, PendFits
  <1>4. PlaceInv' BY <1>i DEF HeadZlib, HeadDone, Return, ReturnTo, AfterHead, PlaceInv
  <1>5. SectInv' BY <1>i DEF HeadZlib, HeadDone, Return, ReturnTo, AfterHead, SectInv
  <1>6. AccountInv' BY <1>i DEF HeadZlib, HeadDone, LastFlushAt, AccountInv
  <1>7. FlushInv'
    BY <1>i, <1>d DEF HeadZlib, HeadDone, Return, ReturnTo, AfterHead, LastFlushAt, FlushInv
  <1>8. HeadInv' BY <1>i DEF HeadZlib, HeadDone, HeadInv, SectInv
  <1> QED BY <1>1, <1>2, <1>3, <1>4, <1>5, <1>6, <1>7, <1>8 DEF StreamInv, TypeOK

\* deflateHeaders: the fixed part of the gzip header; the whole of it without
\* a gzhead.
LEMMA HeadGzipKeeps ==
  ASSUME Disciplined, StreamInv, HeadGzip
  PROVE  StreamInv'
  <1> USE ParseFacts DEF headVars, ioVars
  <1>i. TypeOK /\ PendFits /\ PlaceInv /\ SectInv /\ AccountInv /\ FlushInv /\ HeadInv
    BY DEF StreamInv
  <1>n. GzFixed \in Nat /\ pending + GzFixed <= PendBuf
    BY <1>i, StreamAssumption DEF HeadGzip, TypeOK, TypeCounts, PendFits, PlaceInv
  <1>d. PICK d \in Nat, o \in Nat :
           /\ Drained(GzFixed) = d /\ OutAfter(GzFixed) = o /\ d <= PendBuf
           /\ o = 0 \/ d = 0
           /\ pending = 0 /\ GzFixed <= avail_out => d = 0 /\ o = avail_out - GzFixed
    BY <1>n, DrainPick
  <1>g. /\ gzhead.extra \in Nat /\ gzhead.name \in Nat /\ gzhead.comment \in Nat
        /\ gzhead.hcrc = 0 \/ gzhead.hcrc = 2
        /\ ~gzhead.set => gzhead.extra = 0 /\ gzhead.name = 0 /\ gzhead.comment = 0 /\ gzhead.hcrc = 0
    BY <1>i, GzFacts DEF TypeOK
  <1>1. TypeCounts' BY <1>i, <1>n, <1>d DEF HeadGzip, HeadDone, LastFlushAt, TypeOK, TypeCounts
  <1>2. TypeTags'
    BY <1>i, ParseType DEF HeadGzip, HeadDone, Return, ReturnTo, AfterHead, TypeOK, TypeTags
  <1>3. PendFits' BY <1>i, <1>n, <1>d DEF HeadGzip, HeadDone, PendFits
  <1>4. PlaceInv' BY <1>i DEF HeadGzip, HeadDone, Return, ReturnTo, AfterHead, PlaceInv
  <1>5. SectInv' BY <1>i DEF HeadGzip, HeadDone, Return, ReturnTo, AfterHead, SectInv
  <1>6. AccountInv' BY <1>i DEF HeadGzip, HeadDone, LastFlushAt, AccountInv
  <1>7. FlushInv'
    BY <1>i, <1>d DEF HeadGzip, HeadDone, Return, ReturnTo, AfterHead, LastFlushAt, FlushInv
  <1>8. HeadInv'
    <2>1. CASE ~gzhead.set
      BY <1>i, <1>g, <1>d, <2>1, StreamAssumption
      DEF HeadGzip, HeadDone, HeadInv, HeadLen, TypeOK, TypeCounts
    <2>2. CASE gzhead.set
      BY <1>i, <1>g, <2>2, StreamAssumption DEF HeadGzip, HeadInv, PlaceInv, TypeOK, TypeCounts
    <2> QED BY <2>1, <2>2
  <1> QED BY <1>1, <1>2, <1>3, <1>4, <1>5, <1>6, <1>7, <1>8 DEF StreamInv, TypeOK

\* deflateHeaders: the extra field, copied whole or in pieces of what fits
\* pending_buf.
LEMMA HeadExtraKeeps ==
  ASSUME Disciplined, StreamInv, HeadExtra
  PROVE  StreamInv'
  <1> USE ParseFacts DEF headVars, ioVars
  <1>i. TypeOK /\ PendFits /\ PlaceInv /\ SectInv /\ AccountInv /\ FlushInv /\ HeadInv
    BY DEF StreamInv
  <1>g. /\ gzhead.extra \in Nat /\ gzhead.name \in Nat /\ gzhead.comment \in Nat
        /\ gzhead.hcrc = 0 \/ gzhead.hcrc = 2
        /\ ~gzhead.set => gzhead.extra = 0 /\ gzhead.name = 0 /\ gzhead.comment = 0 /\ gzhead.hcrc = 0
    BY <1>i, GzFacts DEF TypeOK
  <1>r. PICK r \in Nat, cp \in Nat : gzhead.extra = gzindex + r /\ gzhead.extra - gzindex = r /\ PendBuf - pending = cp /\ PendBuf = pending + cp
    <2>1. gzhead.extra - gzindex \in Nat /\ PendBuf - pending \in Nat
      BY <1>i, <1>g, StreamAssumption DEF HeadExtra, HeadInv, PendFits, TypeOK, TypeCounts
    <2> QED BY <2>1, <1>i, <1>g, StreamAssumption DEF TypeOK, TypeCounts
  <1>s. ASSUME pending + r > PendBuf PROVE TypeCounts' /\ HeadInv'
    <2> USE <1>i, <1>g, <1>r, <1>s
    <2>m. PICK m \in Nat : m = Min2(PendBuf, avail_out) /\ m <= PendBuf /\ m <= avail_out /\ (m < PendBuf => m = avail_out)
      BY StreamAssumption DEF TypeOK, TypeCounts
    <2>e. /\ hput' = hput + cp /\ hcov' = Crc(beg, PendBuf) /\ gzindex' = gzindex + cp
          /\ avail_out' = avail_out - m /\ pending' = PendBuf - m /\ beg' = 0
          /\ IF PendBuf > avail_out THEN last_flush' = -1 /\ Return("ok") ELSE UNCHANGED <<last_flush, ret, pc>>
      BY <2>m DEF HeadExtra, SpillThen
    <2>u. UNCHANGED <<status, wrap, gzhead, bi_valid, kind, block_open, left, lookahead,
                 avail_in, flush, call, want, sect, owed, marked>>
      BY DEF HeadExtra
    <2>h. hcov' \in Nat BY <2>e, StreamAssumption DEF Crc, TypeOK, TypeCounts
    <2>1. TypeCounts' BY <2>m, <2>e, <2>u, <2>h, StreamAssumption DEF TypeOK, TypeCounts
    <2>2. HeadInv'
      BY <2>m, <2>e, <2>u, StreamAssumption
      DEF HeadExtra, HeadInv, Crc, TypeOK, TypeCounts, Return, ReturnTo
    <2> QED BY <2>1, <2>2
  <1>f. ASSUME ~(pending + r > PendBuf) PROVE TypeCounts' /\ HeadInv'
    <2> USE <1>i, <1>g, <1>r, <1>f
    <2>e. /\ hput' = hput + r /\ hcov' = Crc(beg, pending + r) /\ gzindex' = 0
          /\ pending' = pending + r /\ beg' = pending + r /\ status' = "name"
          /\ UNCHANGED <<avail_out, last_flush, ret, pc>>
      BY DEF HeadExtra
    <2>u. UNCHANGED <<wrap, gzhead, bi_valid, kind, block_open, left, lookahead,
                 avail_in, flush, call, want, sect, owed, marked>>
      BY DEF HeadExtra
    <2>h. hcov' \in Nat BY <2>e, StreamAssumption DEF Crc, TypeOK, TypeCounts
    <2>1. TypeCounts' BY <2>e, <2>u, <2>h, StreamAssumption DEF TypeOK, TypeCounts
    <2>2. HeadInv'
      BY <2>e, <2>u, StreamAssumption DEF HeadExtra, HeadInv, Crc, TypeOK, TypeCounts
    <2> QED BY <2>1, <2>2
  <1>1. TypeCounts' BY <1>s, <1>f
  <1>2. TypeTags' BY <1>i DEF HeadExtra, SpillThen, Return, ReturnTo, TypeOK, TypeTags
  <1>3. PendFits'
    BY <1>i, <1>g, StreamAssumption DEF HeadExtra, SpillThen, PendFits, TypeOK, TypeCounts
  <1>4. PlaceInv' BY <1>i DEF HeadExtra, SpillThen, Return, ReturnTo, PlaceInv
  <1>5. SectInv' BY <1>i DEF HeadExtra, SpillThen, Return, ReturnTo, SectInv
  <1>6. AccountInv' BY <1>i DEF HeadExtra, SpillThen, AccountInv
  <1>7. FlushInv'
    BY <1>i, StreamAssumption
    DEF HeadExtra, SpillThen, Return, ReturnTo, TypeOK, TypeCounts, FlushInv
  <1>8. HeadInv' BY <1>s, <1>f
  <1> QED BY <1>1, <1>2, <1>3, <1>4, <1>5, <1>6, <1>7, <1>8 DEF StreamInv, TypeOK

\* deflateHeaders: pending_buf is full in the middle of the name or the
\* comment.
LEMMA HeadSpillKeeps ==
  ASSUME Disciplined, StreamInv, HeadSpill
  PROVE  StreamInv'
  <1> USE ParseFacts DEF headVars, ioVars
  <1>i. TypeOK /\ PendFits /\ PlaceInv /\ SectInv /\ AccountInv /\ FlushInv /\ HeadInv
    BY DEF StreamInv
  <1>1. TypeCounts' BY <1>i DEF HeadSpill, SpillThen, Crc, TypeOK, TypeCounts
  <1>2. TypeTags' BY <1>i DEF HeadSpill, SpillThen, Return, ReturnTo, TypeOK, TypeTags
  <1>3. PendFits' BY <1>i DEF HeadSpill, SpillThen, PendFits, TypeOK, TypeCounts
  <1>4. PlaceInv' BY <1>i DEF HeadSpill, SpillThen, Return, ReturnTo, PlaceInv
  <1>5. SectInv' BY <1>i DEF HeadSpill, SpillThen, Return, ReturnTo, SectInv
  <1>6. AccountInv' BY <1>i DEF HeadSpill, SpillThen, AccountInv
  <1>7. FlushInv' BY <1>i DEF HeadSpill, SpillThen, Return, ReturnTo, TypeOK, TypeCounts, FlushInv
  <1>8. HeadInv'
    BY <1>i DEF HeadSpill, SpillThen, Return, ReturnTo, Crc, HeadInv, TypeOK, TypeCounts
  <1> QED BY <1>1, <1>2, <1>3, <1>4, <1>5, <1>6, <1>7, <1>8 DEF StreamInv, TypeOK

\* deflateHeaders: a byte of the name or the comment, or the field is absent.
LEMMA HeadByteKeeps ==
  ASSUME Disciplined, StreamInv, HeadByte
  PROVE  StreamInv'
  <1> USE ParseFacts DEF headVars, ioVars
  <1>i. TypeOK /\ PendFits /\ PlaceInv /\ SectInv /\ AccountInv /\ FlushInv /\ HeadInv
    BY DEF StreamInv
  <1>g. /\ gzhead.extra \in Nat /\ gzhead.name \in Nat /\ gzhead.comment \in Nat
        /\ gzhead.hcrc = 0 \/ gzhead.hcrc = 2
        /\ ~gzhead.set => gzhead.extra = 0 /\ gzhead.name = 0 /\ gzhead.comment = 0 /\ gzhead.hcrc = 0
    BY <1>i, GzFacts DEF TypeOK
  <1>1. TypeCounts' BY <1>i DEF HeadByte, IndexAfter, Crc, TypeOK, TypeCounts
  <1>2. TypeTags' BY <1>i DEF HeadByte, TypeOK, TypeTags
  <1>3. PendFits' BY <1>i, StreamAssumption DEF HeadByte, PendFits, TypeOK, TypeCounts
  <1>4. PlaceInv' BY <1>i DEF HeadByte, PlaceInv
  <1>5. SectInv' BY <1>i DEF HeadByte, SectInv
  <1>6. AccountInv' BY <1>i DEF HeadByte, AccountInv
  <1>7. FlushInv' BY <1>i DEF HeadByte, FlushInv
  <1>8. HeadInv'
    BY <1>i, <1>g, StreamAssumption
    DEF HeadByte, Field, IndexAfter, Crc, HeadInv, TypeOK, TypeCounts
  <1> QED BY <1>1, <1>2, <1>3, <1>4, <1>5, <1>6, <1>7, <1>8 DEF StreamInv, TypeOK

\* fill_window moves input into the lookahead.
LEMMA FillKeeps ==
  ASSUME Disciplined, StreamInv, NEW n \in 1..avail_in, Fill(n)
  PROVE  StreamInv'
  <1> USE ParseFacts DEF headVars, ioVars
  <1>i. TypeOK /\ PendFits /\ PlaceInv /\ SectInv /\ AccountInv /\ FlushInv /\ HeadInv
    BY DEF StreamInv
  <1>1. TypeCounts' BY <1>i DEF Fill, TypeOK, TypeCounts
  <1>2. TypeTags' BY <1>i DEF Fill, TypeOK, TypeTags
  <1>3. PendFits' BY <1>i DEF Fill, PendFits
  <1>4. PlaceInv' BY <1>i DEF Fill, PlaceInv
  <1>5. SectInv' BY <1>i DEF Fill, SectInv, TypeOK, TypeCounts
  <1>6. AccountInv' BY <1>i DEF Fill, AccountInv, PlaceInv, TypeOK, TypeCounts
  <1>7. FlushInv' BY <1>i DEF Fill, FlushInv
  <1>8. HeadInv' BY <1>i DEF Fill, HeadInv, HeadLen
  <1> QED BY <1>1, <1>2, <1>3, <1>4, <1>5, <1>6, <1>7, <1>8 DEF StreamInv, TypeOK

\* A symbol is tallied and nothing is put.
LEMMA TallyKeeps ==
  ASSUME Disciplined, StreamInv, NEW n \in 1..lookahead, Tally(n)
  PROVE  StreamInv'
  <1> USE ParseFacts DEF headVars, ioVars
  <1>i. TypeOK /\ PendFits /\ PlaceInv /\ SectInv /\ AccountInv /\ FlushInv /\ HeadInv
    BY DEF StreamInv
  <1>1. TypeCounts' BY <1>i DEF Tally, TypeOK, TypeCounts
  <1>2. TypeTags' BY <1>i DEF Tally, TypeOK, TypeTags
  <1>3. PendFits' BY <1>i DEF Tally, PendFits
  <1>4. PlaceInv' BY <1>i DEF Tally, PlaceInv
  <1>5. SectInv' BY <1>i DEF Tally, SectInv
  <1>6. AccountInv' BY <1>i DEF Tally, AccountInv, TypeOK, TypeCounts
  <1>7. FlushInv' BY <1>i DEF Tally, FlushInv
  <1>8. HeadInv' BY <1>i DEF Tally, HeadInv, HeadLen
  <1> QED BY <1>1, <1>2, <1>3, <1>4, <1>5, <1>6, <1>7, <1>8 DEF StreamInv, TypeOK

\* FLUSH_BLOCK inside a compressor loop: a block into an empty pending buffer.
LEMMA TallyBlockKeeps ==
  ASSUME Disciplined, StreamInv, NEW n \in 1..lookahead, NEW b \in BlockSizes, NEW v \in Bits,
         TallyBlock(n, b, v)
  PROVE  StreamInv'
  <1> USE ParseFacts DEF headVars, ioVars
  <1>i. TypeOK /\ PendFits /\ PlaceInv /\ SectInv /\ AccountInv /\ FlushInv /\ HeadInv
    BY DEF StreamInv
  <1>n. b \in Nat /\ pending + b <= PendBuf
    BY <1>i, StreamAssumption DEF TallyBlock, TypeOK, TypeCounts, PendFits, PlaceInv
  <1>d. PICK d \in Nat, o \in Nat :
           /\ Drained(b) = d /\ OutAfter(b) = o /\ d <= PendBuf
           /\ o = 0 \/ d = 0
           /\ pending = 0 /\ b <= avail_out => d = 0 /\ o = avail_out - b
    BY <1>n, DrainPick
  <1>p. /\ pc' \in {"idle", "comp", "marker", "trailer", "params"} /\ status' \in {status, "finish"}
        /\ ret' \in {ret, "ok"}
    BY <1>i DEF TallyBlock, AfterBlock, CompReturns, Goes, Finished, Return, ReturnTo
  <1>q. sect' \in Sections BY <1>i, ParseType DEF TypeOK, TypeTags, TallyBlock
  <1>1. TypeCounts'
    BY <1>i, <1>d DEF TallyBlock, CompReturns, Goes, LastFlushAt, TypeOK, TypeCounts, AccountInv
  <1>2. TypeTags' BY <1>i, <1>p, <1>q DEF TallyBlock, TypeOK, TypeTags
  <1>3. PendFits' BY <1>i, <1>d DEF TallyBlock, PendFits
  <1>4. PlaceInv'
    BY <1>i, <1>d DEF TallyBlock, AfterBlock, CompReturns, Goes, Return, ReturnTo, PlaceInv
  <1>5. SectInv'
    BY <1>i
    DEF TallyBlock, AfterBlock, CompReturns, Goes, Finished, Return, ReturnTo, SectInv,
        PlaceInv
  <1>6. AccountInv'
    BY <1>i
    DEF TallyBlock, AfterBlock, CompReturns, Goes, Finished, LastFlushAt, AccountInv,
        TypeOK, TypeCounts
  <1>7. FlushInv'
    BY <1>i DEF TallyBlock, AfterBlock, CompReturns, Goes, LastFlushAt, Return, ReturnTo, FlushInv
  <1>8. HeadInv'
    BY <1>i
    DEF TallyBlock, AfterBlock, CompReturns, Goes, Finished, Return, ReturnTo, HeadInv,
        HeadLen
  <1> QED BY <1>1, <1>2, <1>3, <1>4, <1>5, <1>6, <1>7, <1>8 DEF StreamInv, TypeOK

\* A compressor runs out of input under Z_NO_FLUSH; an open static block has
\* symbols in it.
LEMMA NeedMoreKeeps ==
  ASSUME Disciplined, StreamInv, NeedMore
  PROVE  StreamInv'
  <1> USE ParseFacts DEF headVars, ioVars
  <1>i. TypeOK /\ PendFits /\ PlaceInv /\ SectInv /\ AccountInv /\ FlushInv /\ HeadInv
    BY DEF StreamInv
  <1>1. TypeCounts' BY <1>i DEF NeedMore, CompReturns, LastFlushAt, TypeOK, TypeCounts
  <1>2. TypeTags' BY <1>i DEF NeedMore, CompReturns, Return, ReturnTo, TypeOK, TypeTags
  <1>3. PendFits' BY <1>i DEF NeedMore, PendFits
  <1>4. PlaceInv' BY <1>i DEF NeedMore, CompReturns, Return, ReturnTo, PlaceInv
  <1>5. SectInv' BY <1>i DEF NeedMore, CompReturns, Finished, SectInv
  <1>6. AccountInv' BY <1>i DEF NeedMore, CompReturns, Finished, LastFlushAt, AccountInv
  <1>7. FlushInv' BY <1>i DEF NeedMore, CompReturns, LastFlushAt, Return, ReturnTo, FlushInv
  <1>8. HeadInv' BY <1>i DEF NeedMore, CompReturns, Finished, Return, ReturnTo, HeadInv, HeadLen
  <1> QED BY <1>1, <1>2, <1>3, <1>4, <1>5, <1>6, <1>7, <1>8 DEF StreamInv, TypeOK

\* The end of the input: the last block, or the block that a flush ends.
LEMMA TallyEndKeeps ==
  ASSUME Disciplined, StreamInv, NEW b \in BlockSizes, NEW v \in Bits, TallyEnd(b, v)
  PROVE  StreamInv'
  <1> USE ParseFacts DEF headVars, ioVars
  <1>i. TypeOK /\ PendFits /\ PlaceInv /\ SectInv /\ AccountInv /\ FlushInv /\ HeadInv
    BY DEF StreamInv
  <1>n. b \in Nat /\ pending + b <= PendBuf
    BY <1>i, StreamAssumption DEF TallyEnd, TypeOK, TypeCounts, PendFits, PlaceInv
  <1>d. PICK d \in Nat, o \in Nat :
           /\ Drained(b) = d /\ OutAfter(b) = o /\ d <= PendBuf
           /\ o = 0 \/ d = 0
           /\ pending = 0 /\ b <= avail_out => d = 0 /\ o = avail_out - b
    BY <1>n, DrainPick
  <1>p. /\ pc' \in {"idle", "comp", "marker", "trailer", "params"} /\ status' \in {status, "finish"}
        /\ ret' \in {ret, "ok"}
    BY <1>i DEF TallyEnd, AfterBlock, CompReturns, Goes, Finished, Return, ReturnTo
  <1>q. sect' \in Sections BY <1>i, ParseType DEF TypeOK, TypeTags, TallyEnd
  <1>1. TypeCounts'
    BY <1>i, <1>d DEF TallyEnd, CompReturns, LastFlushAt, TypeOK, TypeCounts, AccountInv
  <1>2. TypeTags' BY <1>i, <1>p, <1>q DEF TallyEnd, TypeOK, TypeTags
  <1>3. PendFits' BY <1>i, <1>d DEF TallyEnd, PendFits
  <1>4. PlaceInv'
    BY <1>i, <1>d
    DEF TallyEnd, CompReturns, Finished, Return, ReturnTo, PlaceInv, SectInv, AccountInv,
        TypeOK, TypeCounts
  <1>5. SectInv'
    BY <1>i, StreamAssumption
    DEF TallyEnd, CompReturns, Finished, Return, ReturnTo, SectInv, PlaceInv
  <1>6. AccountInv' BY <1>i DEF TallyEnd, CompReturns, LastFlushAt, AccountInv, TypeOK, TypeCounts
  <1>7. FlushInv' BY <1>i DEF TallyEnd, CompReturns, LastFlushAt, Return, ReturnTo, FlushInv
  <1>8. HeadInv' BY <1>i DEF TallyEnd, CompReturns, PlaceInv, HeadInv, HeadLen
  <1> QED BY <1>1, <1>2, <1>3, <1>4, <1>5, <1>6, <1>7, <1>8 DEF StreamInv, TypeOK

\* quick_start_block closes an open block so that another one can be the last.
LEMMA QuickCloseKeeps ==
  ASSUME Disciplined, StreamInv, NEW c \in 0..Margin, NEW v \in Bits, QuickClose(c, v)
  PROVE  StreamInv'
  <1> USE ParseFacts DEF headVars, ioVars
  <1>i. TypeOK /\ PendFits /\ PlaceInv /\ SectInv /\ AccountInv /\ FlushInv /\ HeadInv
    BY DEF StreamInv
  <1>n. c \in Nat /\ pending + c <= PendBuf
    BY <1>i, StreamAssumption DEF QuickClose, TypeOK, TypeCounts, PendFits, PlaceInv
  <1>d. PICK d \in Nat, o \in Nat :
           /\ Drained(c) = d /\ OutAfter(c) = o /\ d <= PendBuf
           /\ o = 0 \/ d = 0
           /\ pending = 0 /\ c <= avail_out => d = 0 /\ o = avail_out - c
    BY <1>n, DrainPick
  <1>1. TypeCounts'
    BY <1>i, <1>d DEF QuickClose, CloseBlock, CompReturns, Goes, LastFlushAt, TypeOK, TypeCounts
  <1>2. TypeTags'
    BY <1>i, ParseType
    DEF QuickClose, CloseBlock, CompReturns, Goes, Return, ReturnTo, TypeOK, TypeTags
  <1>3. PendFits' BY <1>i, <1>d DEF QuickClose, CloseBlock, PendFits
  <1>4. PlaceInv'
    BY <1>i, <1>d DEF QuickClose, CloseBlock, CompReturns, Goes, Return, ReturnTo, PlaceInv
  <1>5. SectInv'
    BY <1>i
    DEF QuickClose, ClosesFirst, CloseBlock, CompReturns, Goes, Finished, Return,
        ReturnTo, SectInv
  <1>6. AccountInv'
    BY <1>i DEF QuickClose, CloseBlock, CompReturns, Goes, Finished, LastFlushAt, AccountInv
  <1>7. FlushInv'
    BY <1>i DEF QuickClose, CloseBlock, CompReturns, Goes, LastFlushAt, Return, ReturnTo, FlushInv
  <1>8. HeadInv'
    BY <1>i DEF QuickClose, CompReturns, Goes, Finished, Return, ReturnTo, HeadInv, HeadLen
  <1> QED BY <1>1, <1>2, <1>3, <1>4, <1>5, <1>6, <1>7, <1>8 DEF StreamInv, TypeOK

\* quick_end_block at the end of the input.
LEMMA QuickEndKeeps ==
  ASSUME Disciplined, StreamInv, NEW c \in 0..Margin, NEW v \in Bits, QuickEnd(c, v)
  PROVE  StreamInv'
  <1> USE ParseFacts DEF headVars, ioVars
  <1>i. TypeOK /\ PendFits /\ PlaceInv /\ SectInv /\ AccountInv /\ FlushInv /\ HeadInv
    BY DEF StreamInv
  <1>n. c \in Nat /\ pending + c <= PendBuf
    BY <1>i, StreamAssumption DEF QuickEnd, TypeOK, TypeCounts, PendFits, PlaceInv
  <1>d. PICK d \in Nat, o \in Nat :
           /\ Drained(c) = d /\ OutAfter(c) = o /\ d <= PendBuf
           /\ o = 0 \/ d = 0
           /\ pending = 0 /\ c <= avail_out => d = 0 /\ o = avail_out - c
    BY <1>n, DrainPick
  <1>1. TypeCounts'
    BY <1>i, <1>d DEF QuickEnd, CloseBlock, CompReturns, LastFlushAt, TypeOK, TypeCounts
  <1>2. TypeTags'
    BY <1>i, ParseType DEF QuickEnd, CloseBlock, CompReturns, Return, ReturnTo, TypeOK, TypeTags
  <1>3. PendFits' BY <1>i, <1>d DEF QuickEnd, CloseBlock, PendFits
  <1>4. PlaceInv'
    BY <1>i, <1>d
    DEF QuickEnd, Last, CloseBlock, CompReturns, Finished, Return, ReturnTo, PlaceInv,
        AccountInv
  <1>5. SectInv'
    BY <1>i, StreamAssumption
    DEF QuickEnd, Last, CloseBlock, CompReturns, Finished, Return, ReturnTo, SectInv,
        PlaceInv, TypeOK, TypeCounts
  <1>6. AccountInv'
    BY <1>i
    DEF QuickEnd, Last, CloseBlock, CompReturns, Finished, LastFlushAt, SectInv,
        AccountInv
  <1>7. FlushInv'
    BY <1>i DEF QuickEnd, CloseBlock, CompReturns, LastFlushAt, Return, ReturnTo, FlushInv
  <1>8. HeadInv'
    BY <1>i DEF QuickEnd, Last, CompReturns, Finished, HeadInv, HeadLen, SectInv, TypeOK, TypeTags
  <1> QED BY <1>1, <1>2, <1>3, <1>4, <1>5, <1>6, <1>7, <1>8 DEF StreamInv, TypeOK

\* quick_start_block opens a block when there is something to put into it.
LEMMA QuickStartKeeps ==
  ASSUME Disciplined, StreamInv, QuickStart
  PROVE  StreamInv'
  <1> USE ParseFacts DEF headVars, ioVars
  <1>i. TypeOK /\ PendFits /\ PlaceInv /\ SectInv /\ AccountInv /\ FlushInv /\ HeadInv
    BY DEF StreamInv
  <1>1. TypeCounts' BY <1>i DEF QuickStart, Last, TypeOK, TypeCounts
  <1>2. TypeTags' BY <1>i, ParseType DEF QuickStart, TypeOK, TypeTags
  <1>3. PendFits' BY <1>i DEF QuickStart, PendFits
  <1>4. PlaceInv' BY <1>i DEF QuickStart, PlaceInv
  <1>5. SectInv'
    BY <1>i DEF QuickStart, ClosesFirst, Opens, Last, SectInv, PlaceInv, TypeOK, TypeCounts
  <1>6. AccountInv' BY <1>i DEF QuickStart, AccountInv
  <1>7. FlushInv' BY <1>i DEF QuickStart, FlushInv
  <1>8. HeadInv' BY <1>i DEF QuickStart, HeadInv, HeadLen
  <1> QED BY <1>1, <1>2, <1>3, <1>4, <1>5, <1>6, <1>7, <1>8 DEF StreamInv, TypeOK

\* quick_flush_pending makes room for a symbol or returns.
LEMMA QuickFlushKeeps ==
  ASSUME Disciplined, StreamInv, QuickFlush
  PROVE  StreamInv'
  <1> USE ParseFacts DEF headVars, ioVars
  <1>i. TypeOK /\ PendFits /\ PlaceInv /\ SectInv /\ AccountInv /\ FlushInv /\ HeadInv
    BY DEF StreamInv
  <1>n. 0 \in Nat /\ pending + 0 <= PendBuf
    BY <1>i, StreamAssumption DEF QuickFlush, TypeOK, TypeCounts, PendFits, PlaceInv
  <1>d. PICK d \in Nat, o \in Nat :
           /\ Drained(0) = d /\ OutAfter(0) = o /\ d <= PendBuf
           /\ o = 0 \/ d = 0
           /\ pending = 0 /\ 0 <= avail_out => d = 0 /\ o = avail_out - 0
    BY <1>n, DrainPick
  <1>1. TypeCounts'
    BY <1>i, <1>d DEF QuickFlush, CompReturns, Goes, LastFlushAt, TypeOK, TypeCounts
  <1>2. TypeTags' BY <1>i DEF QuickFlush, CompReturns, Goes, Return, ReturnTo, TypeOK, TypeTags
  <1>3. PendFits' BY <1>i, <1>d DEF QuickFlush, PendFits
  <1>4. PlaceInv' BY <1>i, <1>d DEF QuickFlush, CompReturns, Goes, Return, ReturnTo, PlaceInv
  <1>5. SectInv' BY <1>i, StreamAssumption DEF QuickFlush, CompReturns, Goes, Finished, SectInv
  <1>6. AccountInv'
    BY <1>i, StreamAssumption
    DEF QuickFlush, CompReturns, Goes, Finished, LastFlushAt, PlaceInv, AccountInv
  <1>7. FlushInv'
    BY <1>i DEF QuickFlush, CompReturns, Goes, LastFlushAt, Return, ReturnTo, FlushInv
  <1>8. HeadInv'
    BY <1>i
    DEF QuickFlush, CompReturns, Goes, Finished, Return, ReturnTo, HeadInv, HeadLen,
        SectInv
  <1> QED BY <1>1, <1>2, <1>3, <1>4, <1>5, <1>6, <1>7, <1>8 DEF StreamInv, TypeOK

\* deflate_quick puts a symbol, which fits by the margin it kept.
LEMMA QuickSymbolKeeps ==
  ASSUME Disciplined, StreamInv, NEW n \in 1..lookahead, NEW c \in 0..Margin, QuickSymbol(n, c)
  PROVE  StreamInv'
  <1> USE ParseFacts DEF headVars, ioVars
  <1>i. TypeOK /\ PendFits /\ PlaceInv /\ SectInv /\ AccountInv /\ FlushInv /\ HeadInv
    BY DEF StreamInv
  <1>1. TypeCounts'
    BY <1>i, StreamAssumption DEF QuickSymbol, Last, TypeOK, TypeCounts, AccountInv
  <1>2. TypeTags' BY <1>i, ParseType DEF QuickSymbol, TypeOK, TypeTags
  <1>3. PendFits' BY <1>i, StreamAssumption DEF QuickSymbol, PendFits, TypeOK, TypeCounts
  <1>4. PlaceInv' BY <1>i DEF QuickSymbol, Opens, Last, PlaceInv, TypeOK, TypeCounts
  <1>5. SectInv'
    BY <1>i, StreamAssumption DEF QuickSymbol, Opens, Last, SectInv, PlaceInv, TypeOK, TypeCounts
  <1>6. AccountInv' BY <1>i DEF QuickSymbol, AccountInv, PlaceInv, TypeOK, TypeCounts
  <1>7. FlushInv' BY <1>i DEF QuickSymbol, FlushInv
  <1>8. HeadInv' BY <1>i DEF QuickSymbol, HeadInv, HeadLen
  <1> QED BY <1>1, <1>2, <1>3, <1>4, <1>5, <1>6, <1>7, <1>8 DEF StreamInv, TypeOK

\* deflate_stored copies straight to next_out: the header it computed leaves
\* pending first.
LEMMA StoredCopyKeeps ==
  ASSUME Disciplined, StreamInv, StoredCopy
  PROVE  StreamInv'
  <1> USE ParseFacts DEF headVars, ioVars
  <1>i. TypeOK /\ PendFits /\ PlaceInv /\ SectInv /\ AccountInv /\ FlushInv /\ HeadInv
    BY DEF StreamInv
  <1>n. HdrPut \in Nat /\ pending + HdrPut <= PendBuf
    BY <1>i, StreamAssumption DEF StoredCopy, TypeOK, TypeCounts, PendFits, PlaceInv, HdrPut
  <1>d. PICK d \in Nat, o \in Nat :
           /\ Drained(HdrPut) = d /\ OutAfter(HdrPut) = o /\ d <= PendBuf
           /\ o = 0 \/ d = 0
           /\ pending = 0 /\ HdrPut <= avail_out => d = 0 /\ o = avail_out - HdrPut
    BY <1>n, DrainPick
  <1>p. /\ pc' \in {"idle", "comp", "marker", "trailer", "params"} /\ status' \in {status, "finish"}
        /\ ret' \in {ret, "ok"}
    BY <1>i DEF StoredCopy, AfterBlock, CompReturns, Goes, Finished, Return, ReturnTo
  <1>q. sect' \in Sections BY <1>i, ParseType DEF TypeOK, TypeTags, StoredCopy
  <1>m. PICK len \in Nat, m \in Nat :
           /\ DirectLen = len /\ Min2(left, len) = m
           /\ m <= left /\ m <= len /\ len <= left + avail_in /\ len + HdrPut <= avail_out
           /\ len - m <= avail_in
    <2>t. left \in Nat /\ avail_in \in Nat /\ avail_out \in Nat /\ HdrPut \in Nat /\ Hdr = HdrPut
          /\ MaxStored \in Nat
      BY <1>i, StreamAssumption DEF TypeOK, TypeCounts, Hdr, HdrPut
    <2>h. avail_out >= HdrPut BY <2>t DEF StoredCopy, CopyBreaks
    <2>1. DirectLen \in Nat /\ DirectLen <= left + avail_in /\ DirectLen + HdrPut <= avail_out
      BY <2>t, <2>h DEF DirectLen
    <2>2. Min2(left, DirectLen) \in Nat BY <2>t, <2>1
    <2> QED BY <2>t, <2>1, <2>2
  <1>1. TypeCounts'
    <2>0. o = avail_out - HdrPut
      <3>1. pending = 0 BY <1>i DEF StoredCopy, PlaceInv
      <3>2. avail_out \in Nat BY <1>i DEF TypeOK, TypeCounts
      <3> QED BY <3>1, <3>2, <1>d, <1>m, <1>n
    <2>1. /\ pending' = d /\ avail_out' = o - len
          /\ left' = left - m /\ avail_in' = avail_in - (len - m) /\ owed' = owed - m
      BY <1>d, <1>m DEF StoredCopy
    <2>2. owed = left BY <1>i DEF StoredCopy, AccountInv, TypeOK, TypeCounts
    <2>3. /\ pending' \in Nat /\ avail_out' \in Nat /\ left' \in Nat /\ avail_in' \in Nat
          /\ owed' \in Nat
      BY <1>i, <1>m, <1>n, <2>0, <2>1, <2>2 DEF TypeOK, TypeCounts
    <2> QED
      BY <1>i, <2>3 DEF StoredCopy, CompReturns, Goes, LastFlushAt, TypeOK, TypeCounts
  <1>2. TypeTags' BY <1>i, <1>p, <1>q DEF StoredCopy, TypeOK, TypeTags
  <1>3. PendFits' BY <1>i, <1>d DEF StoredCopy, PendFits
  <1>4. PlaceInv'
    BY <1>i, <1>n, <1>d
    DEF StoredCopy, CopyBreaks, Hdr, HdrPut, CompReturns, Goes, Finished, PlaceInv,
        TypeOK, TypeCounts
  <1>5. SectInv'
    BY <1>i, <1>d, StreamAssumption
    DEF StoredCopy, CopyBreaks, Hdr, HdrPut, CompReturns, Goes, Finished, SectInv,
        PlaceInv, TypeOK, TypeCounts
  <1>6. AccountInv'
    BY <1>i, StreamAssumption
    DEF StoredCopy, CopyBreaks, DirectLen, Hdr, CompReturns, Goes, TypeOK, TypeCounts,
        AccountInv, FlushInv, Disciplined
  <1>7. FlushInv' BY <1>i DEF StoredCopy, CompReturns, Goes, FlushInv
  <1>8. HeadInv' BY <1>i DEF StoredCopy, CompReturns, Goes, PlaceInv, HeadInv, HeadLen
  <1> QED BY <1>1, <1>2, <1>3, <1>4, <1>5, <1>6, <1>7, <1>8 DEF StreamInv, TypeOK

\* deflate_stored has flushed all of its input.
LEMMA StoredDoneKeeps ==
  ASSUME Disciplined, StreamInv, StoredDone
  PROVE  StreamInv'
  <1> USE ParseFacts DEF headVars, ioVars
  <1>i. TypeOK /\ PendFits /\ PlaceInv /\ SectInv /\ AccountInv /\ FlushInv /\ HeadInv
    BY DEF StreamInv
  <1>1. TypeCounts' BY <1>i DEF StoredDone, CompReturns, TypeOK, TypeCounts
  <1>2. TypeTags' BY <1>i DEF StoredDone, CompReturns, TypeOK, TypeTags
  <1>3. PendFits' BY <1>i DEF StoredDone, PendFits
  <1>4. PlaceInv' BY <1>i DEF StoredDone, CompReturns, Finished, PlaceInv, SectInv, AccountInv
  <1>5. SectInv' BY <1>i DEF StoredDone, CompReturns, Finished, SectInv
  <1>6. AccountInv' BY <1>i DEF StoredDone, CompReturns, AccountInv
  <1>7. FlushInv' BY <1>i DEF StoredDone, CompReturns, FlushInv
  <1>8. HeadInv' BY <1>i DEF StoredDone, CompReturns, Finished, HeadInv, HeadLen
  <1> QED BY <1>1, <1>2, <1>3, <1>4, <1>5, <1>6, <1>7, <1>8 DEF StreamInv, TypeOK

\* deflate_stored keeps the rest of the input, putting a block if it is worth
\* it. During a flush it always puts one and fills the output (<1>b), so that
\* last_flush does not claim a flush whose marker is missing.
LEMMA StoredFillKeeps ==
  ASSUME Disciplined, StreamInv, StoredFill
  PROVE  StreamInv'
  <1> USE ParseFacts DEF headVars, ioVars
  <1>i. TypeOK /\ PendFits /\ PlaceInv /\ SectInv /\ AccountInv /\ FlushInv /\ HeadInv
    BY DEF StreamInv
  <1>z. pending = 0 /\ status = "busy" /\ block_open = 0 /\ sect = "between" /\ owed = left /\ last_flush = flush
    BY <1>i DEF StoredFill, PlaceInv, SectInv, AccountInv, FlushInv, TypeOK, TypeCounts
  <1>y. PICK n \in Nat, have \in Nat, l \in Nat, len \in Nat :
          /\ n = Min2(avail_in, Room - left) /\ have = Min2(PendBuf - Hdr, MaxStored) /\ l = left + n /\ len = Min2(l, have)
          /\ n <= avail_in /\ left + n <= Room /\ len <= l /\ len <= have
    <2>a. avail_in \in Nat /\ left \in Nat /\ Room \in Nat /\ left <= Room
      BY <1>i, StreamAssumption DEF StoredFill, AccountInv, TypeOK, TypeCounts
    <2>b. Min2(avail_in, Room - left) \in Nat /\ Min2(avail_in, Room - left) <= avail_in
          /\ left + Min2(avail_in, Room - left) <= Room
      BY <2>a
    <2>1. PICK n \in Nat : n = Min2(avail_in, Room - left) /\ n <= avail_in /\ left + n <= Room
      BY <2>b
    <2>c. Min2(PendBuf - Hdr, MaxStored) \in Nat BY <1>i, StreamAssumption DEF Hdr, TypeOK, TypeCounts
    <2>2. PICK have \in Nat : have = Min2(PendBuf - Hdr, MaxStored) BY <2>c
    <2>3. PICK l \in Nat : l = left + n BY <1>i, <2>1 DEF TypeOK, TypeCounts
    <2>4. PICK len \in Nat : len = Min2(l, have) /\ len <= l /\ len <= have BY <2>2, <2>3
    <2> QED BY <2>1, <2>2, <2>3, <2>4
  <1>h. HdrPut + len \in Nat /\ pending + (HdrPut + len) <= PendBuf
    BY <1>i, <1>z, <1>y, StreamAssumption DEF Hdr, HdrPut, TypeOK, TypeCounts
  <1>d. PICK d \in Nat, o \in Nat :
           /\ Drained(HdrPut + len) = d /\ OutAfter(HdrPut + len) = o /\ d <= PendBuf /\ (o = 0 \/ d = 0)
    BY <1>h, DrainPick
  <1> DEFINE emit == \/ l >= Min2(have, WSize)
                     \/ (l > 0 \/ flush = FINISH) /\ flush # NO /\ avail_in = n /\ l <= have
             last == emit /\ flush = FINISH /\ avail_in = n /\ len = l
             out == IF emit THEN o ELSE avail_out
  <1>e. /\ avail_in' = avail_in - n
        /\ left' = IF emit THEN l - len ELSE l
        /\ owed' = IF emit THEN owed + n - len ELSE owed + n
        /\ pending' = IF emit THEN d ELSE pending
        /\ avail_out' = out
        /\ bi_valid' = IF emit THEN 0 ELSE bi_valid
        /\ marked' = (marked /\ ~emit)
        /\ sect' = IF emit THEN Parse(sect, IF last THEN "final" ELSE "block") ELSE sect
        /\ CompReturns(IF last THEN "finish_started" ELSE "need_more", out)
    BY <1>y, <1>d DEF StoredFill
  <1>v. UNCHANGED <<wrap, headVars, kind, block_open, lookahead, flush, call, want>>
    BY DEF StoredFill
  <1>r. /\ status' = IF last THEN "finish" ELSE "busy"
        /\ last_flush' = IF out = 0 THEN -1 ELSE flush
        /\ ret' = "ok" /\ pc' = IF call = "params" THEN "params" ELSE "idle"
    BY <1>e, <1>z DEF CompReturns, Finished, LastFlushAt, Return, ReturnTo
  <1>b. flush # NO => emit /\ out = 0
    <2> SUFFICES ASSUME flush # NO PROVE emit /\ out = 0 OBVIOUS
    <2>t. /\ left \in Nat /\ avail_in \in Nat /\ avail_out \in Nat /\ Hdr \in {HdrLow, HdrLow + 1}
          /\ HdrPut = Hdr
      BY <1>i, StreamAssumption DEF TypeOK, TypeCounts, Hdr, HdrPut
    <2>u. left + avail_in > 0 \/ flush = FINISH BY <2>t DEF StoredFill
    <2>k. /\ MaxStored \in Nat /\ MaxStored >= WSize
          /\ HdrLow \in Nat /\ WSize \in Nat /\ Room \in Nat /\ PendBuf \in Nat /\ WSize <= Room
          /\ HdrLow + 1 < PendBuf /\ WSize > 0
      BY StreamAssumption
    <2>1. emit
      <3>1. CASE l >= Min2(have, WSize) BY <3>1
      <3>2. CASE ~(l >= Min2(have, WSize))
        <4>1. l < have /\ l < WSize BY <1>y, <2>k, <3>2
        <4>2. n = avail_in BY <1>y, <2>t, <2>k, <4>1
        <4> QED BY <1>y, <2>t, <2>u, <4>1, <4>2
      <3> QED BY <3>1, <3>2
    <2>2. o = 0
      <3>1. avail_out <= Hdr + len
        <4>1. CASE avail_out < Hdr BY <1>y, <2>t, <2>k, <4>1
        <4>2. CASE ~(avail_out < Hdr)
          <5>1. /\ DirectLen < Min2(PendBuf - HdrLow, WSize)
                /\ DirectLen = left + avail_in => DirectLen = 0 /\ flush # FINISH
            BY <4>2 DEF StoredFill, CopyBreaks
          <5>2. DirectLen # left + avail_in BY <5>1, <2>u, <2>t
          <5>3. DirectLen = avail_out - Hdr /\ DirectLen < left + avail_in
            <6>1. DirectLen < MaxStored BY <5>1, <4>2, <2>t, <2>k DEF DirectLen
            <6> QED BY <6>1, <5>2, <4>2, <2>t, <2>k DEF DirectLen
          <5>4. avail_out - Hdr < PendBuf - HdrLow /\ avail_out - Hdr < WSize
            BY <5>1, <5>3, <4>2, <2>t, <2>k
          <5>5. n = avail_in \/ l = Room BY <1>y, <2>t, <2>k
          <5>6. have = PendBuf - Hdr \/ have = MaxStored BY <1>y
          <5>7. CASE len = have BY <1>y, <5>4, <5>6, <5>7, <2>t, <2>k
          <5>8. CASE len = l BY <1>y, <5>3, <5>4, <5>5, <5>8, <2>t, <2>k
          <5> QED BY <1>y, <5>7, <5>8
        <4> QED BY <4>1, <4>2
      <3> QED BY <3>1, <1>y, <1>d, <1>z, <2>t, <2>k DEF OutAfter
    <2> QED BY <2>1, <2>2
  <1>1. TypeCounts' BY <1>i, <1>z, <1>y, <1>e, <1>v, <1>r DEF TypeOK, TypeCounts
  <1>2. TypeTags' BY <1>i, <1>e, <1>v, <1>r, ParseType DEF TypeOK, TypeTags
  <1>3. PendFits' BY <1>z, <1>d, <1>e, StreamAssumption DEF PendFits
  <1>4. PlaceInv' BY <1>i DEF StoredFill, CompReturns, Return, ReturnTo, PlaceInv
  <1>5. SectInv'
    BY <1>i, StreamAssumption
    DEF StoredFill, CompReturns, Finished, Return, ReturnTo, SectInv, PlaceInv
  <1>6. AccountInv'
    BY <1>i, StreamAssumption
    DEF StoredFill, Hdr, CompReturns, Finished, LastFlushAt, TypeOK, TypeCounts, PlaceInv,
        AccountInv
  <1>7. FlushInv'
    <2>1. last_flush' \in {NO, -1} BY <1>b, <1>r
    <2>2. ret' = "ok" /\ pc' \in {"idle", "params"} BY <1>r
    <2>3. avail_out' > 0 => last_flush' = flush' BY <1>e, <1>v, <1>r
    <2> QED BY <2>1, <2>2, <2>3 DEF FlushInv
  <1>8. HeadInv' BY <1>i DEF StoredFill, CompReturns, PlaceInv, HeadInv, HeadLen
  <1> QED BY <1>1, <1>2, <1>3, <1>4, <1>5, <1>6, <1>7, <1>8 DEF StreamInv, TypeOK

\* The marker of a flush completes it: only then does last_flush keep its
\* name.
LEMMA MarkerKeeps ==
  ASSUME Disciplined, StreamInv, NEW m \in MarkSizes, NEW v \in Bits, Marker(m, v)
  PROVE  StreamInv'
  <1> USE ParseFacts DEF headVars, ioVars
  <1>i. TypeOK /\ PendFits /\ PlaceInv /\ SectInv /\ AccountInv /\ FlushInv /\ HeadInv
    BY DEF StreamInv
  <1>n. m \in Nat /\ pending + m <= PendBuf
    BY <1>i, StreamAssumption
    DEF Marker, TypeOK, TypeCounts, PendFits, PlaceInv, MarkSizes, HdrPut
  <1>d. PICK d \in Nat, o \in Nat :
           /\ Drained(m) = d /\ OutAfter(m) = o /\ d <= PendBuf
           /\ o = 0 \/ d = 0
           /\ pending = 0 /\ m <= avail_out => d = 0 /\ o = avail_out - m
    BY <1>n, DrainPick
  <1>1. TypeCounts' BY <1>i, <1>d DEF Marker, LastFlushAt, TypeOK, TypeCounts
  <1>2. TypeTags' BY <1>i, ParseType DEF Marker, Return, ReturnTo, TypeOK, TypeTags
  <1>3. PendFits' BY <1>i, <1>d DEF Marker, PendFits
  <1>4. PlaceInv' BY <1>i DEF Marker, Return, ReturnTo, PlaceInv
  <1>5. SectInv' BY <1>i DEF Marker, SectInv, PlaceInv
  <1>6. AccountInv' BY <1>i DEF Marker, LastFlushAt, AccountInv, PlaceInv, TypeOK, TypeCounts
  <1>7. FlushInv'
    <2>1. sect' = "between" /\ owed' = 0 BY <1>i DEF Marker, PlaceInv, SectInv
    <2>2. flush # BLOCK => marked' = TRUE BY DEF Marker
    <2>3. /\ pending' = d /\ avail_out' = o /\ last_flush' = (IF o = 0 THEN -1 ELSE flush) /\ flush' = flush
          /\ status' = status /\ ret' = "ok" /\ pc' \in {"idle", "params"}
      BY <1>i, <1>d DEF Marker, LastFlushAt, FlushInv, Return, ReturnTo
    <2> QED BY <1>i, <1>d, <2>1, <2>2, <2>3 DEF Marker, PlaceInv, FlushInv
  <1>8. HeadInv' BY <1>i DEF Marker, Return, ReturnTo, HeadInv, HeadLen
  <1> QED BY <1>1, <1>2, <1>3, <1>4, <1>5, <1>6, <1>7, <1>8 DEF StreamInv, TypeOK

\* The trailer is put once; Z_STREAM_END means that it is out.
LEMMA WriteTrailerKeeps ==
  ASSUME Disciplined, StreamInv, WriteTrailer
  PROVE  StreamInv'
  <1> USE ParseFacts DEF headVars, ioVars
  <1>i. TypeOK /\ PendFits /\ PlaceInv /\ SectInv /\ AccountInv /\ FlushInv /\ HeadInv
    BY DEF StreamInv
  <1>n0. Trailer \in Nat /\ pending + Trailer <= PendBuf
    BY <1>i, StreamAssumption DEF WriteTrailer, TypeOK, TypeCounts, PendFits, PlaceInv
  <1>d0. PICK d \in Nat, o \in Nat :
           /\ Drained(Trailer) = d /\ OutAfter(Trailer) = o /\ d <= PendBuf
           /\ o = 0 \/ d = 0
           /\ pending = 0 /\ Trailer <= avail_out => d = 0 /\ o = avail_out - Trailer
    BY <1>n0, DrainPick
  <1>n1. 0 \in Nat /\ pending + 0 <= PendBuf
    BY <1>i, StreamAssumption DEF WriteTrailer, TypeOK, TypeCounts, PendFits, PlaceInv
  <1>d1. PICK d1 \in Nat, o1 \in Nat :
           /\ Drained(0) = d1 /\ OutAfter(0) = o1 /\ d1 <= PendBuf
           /\ o1 = 0 \/ d1 = 0
           /\ pending = 0 /\ 0 <= avail_out => d1 = 0 /\ o1 = avail_out - 0
    BY <1>n1, DrainPick
  <1>1. TypeCounts'
    BY <1>i, <1>d0, <1>d1, StreamAssumption DEF WriteTrailer, WrapAfter, TypeOK, TypeCounts
  <1>2. TypeTags' BY <1>i, ParseType DEF WriteTrailer, Return, ReturnTo, TypeOK, TypeTags
  <1>3. PendFits' BY <1>i, <1>d0, <1>d1 DEF WriteTrailer, PendFits
  <1>4. PlaceInv' BY <1>i DEF WriteTrailer, Return, ReturnTo, PlaceInv
  <1>5. SectInv'
    BY <1>i, StreamAssumption
    DEF WriteTrailer, WrapAfter, Return, ReturnTo, SectInv, PlaceInv, TypeOK, TypeCounts
  <1>6. AccountInv' BY <1>i DEF WriteTrailer, AccountInv
  <1>7. FlushInv'
    BY <1>i, StreamAssumption
    DEF WriteTrailer, WrapAfter, Return, ReturnTo, TypeOK, TypeCounts, PlaceInv, FlushInv
  <1>8. HeadInv'
    BY <1>i
    DEF WriteTrailer, WrapAfter, Return, ReturnTo, HeadInv, HeadLen, PlaceInv, TypeOK, TypeCounts
  <1> QED BY <1>1, <1>2, <1>3, <1>4, <1>5, <1>6, <1>7, <1>8 DEF StreamInv, TypeOK

\* deflateParams before anything was compressed.
LEMMA ParamsNowKeeps ==
  ASSUME Disciplined, StreamInv, NEW k \in Kinds, ParamsNow(k)
  PROVE  StreamInv'
  <1> USE ParseFacts DEF headVars, ioVars
  <1>i. TypeOK /\ PendFits /\ PlaceInv /\ SectInv /\ AccountInv /\ FlushInv /\ HeadInv
    BY DEF StreamInv
  <1>1. TypeCounts' BY <1>i DEF ParamsNow, TypeOK, TypeCounts
  <1>2. TypeTags' BY <1>i DEF ParamsNow, TypeOK, TypeTags
  <1>3. PendFits' BY <1>i DEF ParamsNow, PendFits
  <1>4. PlaceInv' BY <1>i DEF ParamsNow, PlaceInv
  <1>5. SectInv' BY <1>i DEF ParamsNow, SectInv, AccountInv
  <1>6. AccountInv' BY <1>i, StreamAssumption DEF ParamsNow, AccountInv
  <1>7. FlushInv' BY <1>i DEF ParamsNow, FlushInv
  <1>8. HeadInv' BY <1>i DEF ParamsNow, HeadInv, HeadLen
  <1> QED BY <1>1, <1>2, <1>3, <1>4, <1>5, <1>6, <1>7, <1>8 DEF StreamInv, TypeOK

\* deflateParams after its deflate(): a new compressor takes over with nothing
\* left of the old one.
LEMMA ParamsAfterKeeps ==
  ASSUME Disciplined, StreamInv, ParamsAfter
  PROVE  StreamInv'
  <1> USE ParseFacts DEF headVars, ioVars
  <1>i. TypeOK /\ PendFits /\ PlaceInv /\ SectInv /\ AccountInv /\ FlushInv /\ HeadInv
    BY DEF StreamInv
  <1>1. TypeCounts' BY <1>i DEF ParamsAfter, TypeOK, TypeCounts
  <1>2. TypeTags' BY <1>i DEF ParamsAfter, TypeOK, TypeTags
  <1>3. PendFits' BY <1>i DEF ParamsAfter, PendFits
  <1>4. PlaceInv' BY <1>i DEF ParamsAfter, PlaceInv
  <1>5. SectInv' BY <1>i DEF ParamsAfter, ParamsLeft, SectInv
  <1>6. AccountInv'
    BY <1>i, StreamAssumption DEF ParamsAfter, ParamsLeft, TypeOK, TypeCounts, AccountInv
  <1>7. FlushInv' BY <1>i DEF ParamsAfter, FlushInv
  <1>8. HeadInv' BY <1>i DEF ParamsAfter, HeadInv, HeadLen
  <1> QED BY <1>1, <1>2, <1>3, <1>4, <1>5, <1>6, <1>7, <1>8 DEF StreamInv, TypeOK

\* deflateHeaders: room for the header crc is made first, then it completes
\* the header.
LEMMA HeadHcrcKeeps ==
  ASSUME Disciplined, StreamInv, HeadHcrc
  PROVE  StreamInv'
  <1> USE ParseFacts DEF headVars, ioVars
  <1>i. TypeOK /\ PendFits /\ PlaceInv /\ SectInv /\ AccountInv /\ FlushInv /\ HeadInv
    BY DEF StreamInv
  <1>g. /\ gzhead.extra \in Nat /\ gzhead.name \in Nat /\ gzhead.comment \in Nat
        /\ gzhead.hcrc = 0 \/ gzhead.hcrc = 2
    BY <1>i, GzFacts DEF TypeOK
  <1>u. UNCHANGED <<wrap, gzhead, gzindex, beg, bi_valid, kind, block_open, left, lookahead,
                 avail_in, flush, call, want, hcov, owed, marked>>
    BY DEF HeadHcrc
  <1>1. CASE gzhead.hcrc > 0 /\ pending + 2 > PendBuf
    <2>d. PICK d \in Nat, o \in Nat : Drained(0) = d /\ OutAfter(0) = o /\ d <= PendBuf /\ (o = 0 \/ d = 0)
      BY <1>i, DrainPick DEF PendFits, TypeOK, TypeCounts
    <2>e. /\ pending' = d /\ avail_out' = o /\ UNCHANGED <<status, sect, hput>>
          /\ IF d # 0 THEN last_flush' = -1 /\ Return("ok") ELSE UNCHANGED <<last_flush, ret, pc>>
      BY <1>1, <2>d DEF HeadHcrc
    <2>1. TypeCounts' BY <1>i, <1>u, <2>e DEF TypeOK, TypeCounts
    <2>2. TypeTags' BY <1>i, <1>u, <2>e DEF TypeOK, TypeTags, Return, ReturnTo
    <2>3. PendFits' BY <2>d, <2>e DEF PendFits
    <2>4. PlaceInv' BY <1>i, <1>u, <2>e DEF HeadHcrc, PlaceInv, Return, ReturnTo
    <2>5. SectInv' BY <1>i, <1>u, <2>e DEF HeadHcrc, SectInv, Return, ReturnTo
    <2>6. AccountInv' BY <1>i, <1>u, <2>e DEF HeadHcrc, AccountInv
    <2>7. FlushInv' BY <1>i, <1>u, <2>d, <2>e DEF HeadHcrc, FlushInv, Return, ReturnTo
    <2>8. HeadInv' BY <1>i, <1>u, <2>e DEF HeadHcrc, HeadInv
    <2> QED BY <2>1, <2>2, <2>3, <2>4, <2>5, <2>6, <2>7, <2>8 DEF StreamInv, TypeOK
  <1>2. CASE ~(gzhead.hcrc > 0 /\ pending + 2 > PendBuf)
    <2>n. gzhead.hcrc \in Nat /\ pending + gzhead.hcrc <= PendBuf
      BY <1>i, <1>g, <1>2, StreamAssumption DEF PendFits, TypeOK, TypeCounts
    <2>d. PICK d \in Nat, o \in Nat :
            Drained(gzhead.hcrc) = d /\ OutAfter(gzhead.hcrc) = o /\ d <= PendBuf /\ (o = 0 \/ d = 0)
      BY <2>n, DrainPick
    <2>e. /\ pending' = d /\ avail_out' = o /\ hput' = hput + gzhead.hcrc
          /\ status' = "busy" /\ sect' = Parse(sect, "headend")
          /\ last_flush' = IF d # 0 THEN -1 ELSE last_flush
          /\ IF d # 0 THEN Return("ok") ELSE pc' = AfterHead(avail_in, flush, "busy") /\ UNCHANGED ret
      BY <1>2, <2>d DEF HeadHcrc, HeadDone, LastFlushAt
    <2>1. TypeCounts' BY <1>i, <1>u, <2>n, <2>e DEF TypeOK, TypeCounts
    <2>2. TypeTags'
      BY <1>i, <1>u, <2>e, ParseType DEF TypeOK, TypeTags, Return, ReturnTo, AfterHead
    <2>3. PendFits' BY <2>d, <2>e DEF PendFits
    <2>4. PlaceInv'
      BY <1>i, <1>u, <2>e DEF HeadHcrc, PlaceInv, SectInv, Return, ReturnTo, AfterHead
    <2>5. SectInv'
      BY <1>i, <1>u, <2>e DEF HeadHcrc, SectInv, PlaceInv, AfterHead, Return, ReturnTo
    <2>6. AccountInv' BY <1>i, <1>u, <2>e DEF HeadHcrc, AccountInv
    <2>7. FlushInv'
      BY <1>i, <1>u, <2>d, <2>e, StreamAssumption
      DEF HeadHcrc, FlushInv, Return, ReturnTo, AfterHead
    <2>8. HeadInv' BY <1>i, <1>g, <1>u, <2>e, StreamAssumption DEF HeadHcrc, HeadInv, HeadLen
    <2> QED BY <2>1, <2>2, <2>3, <2>4, <2>5, <2>6, <2>7, <2>8 DEF StreamInv, TypeOK
  <1> QED BY <1>1, <1>2

\* deflate() up to the header or the compressor, for either caller: the
\* refusals, the flush of old output, Z_BUF_ERROR, and going on.
LEMMA EnterKeeps ==
  ASSUME Disciplined, StreamInv, NEW c \in {"deflate", "params"}, NEW n \in Nat, NEW o \in Nat,
         NEW f \in 0..5, pc = "idle", Allowed(n, f), Enter(c, n, o, f),
         c = "params" => f = BLOCK /\ last_flush # -2, want' \in Kinds,
         UNCHANGED <<wrap, gzhead, gzindex, bi_valid, kind, block_open, left, lookahead,
                     hput, hcov, owed, marked>>
  PROVE  StreamInv'
  <1> USE ParseFacts
  <1>i. TypeOK /\ PendFits /\ PlaceInv /\ SectInv /\ AccountInv /\ FlushInv /\ HeadInv
    BY DEF StreamInv
  <1>a. call' = c /\ avail_in' = n /\ flush' = f BY DEF Enter
  <1>b. block_open = 2 => f = FINISH
    BY <1>i DEF SectInv, AccountInv, TypeOK, TypeTags, Disciplined, Allowed
  <1>c. c = "params" => flush' # FINISH BY <1>a
  <1>p. \A r : ReturnTo(c, r) => ret' = r /\ pc' = (IF c = "params" THEN "params" ELSE "idle")
    BY DEF ReturnTo
  <1>1. ASSUME avail_out' = o, UNCHANGED <<pending, last_flush, status, beg, sect>>,
               ReturnTo(c, "stream") \/ (ReturnTo(c, "buf") /\ o = 0)
        PROVE  StreamInv'
    <2>r. ret' \in {"stream", "buf"} /\ (ret' = "buf" => o = 0) /\ pc' = (IF c = "params" THEN "params" ELSE "idle")
      BY <1>1, <1>p
    <2>1. TypeCounts' BY <1>i, <1>a, <1>1 DEF TypeOK, TypeCounts
    <2>2. TypeTags' BY <1>i, <1>a, <1>1, <2>r DEF TypeOK, TypeTags
    <2>3. PendFits' BY <1>i, <1>1 DEF PendFits
    <2>4. PlaceInv' BY <1>i, <1>a, <1>c, <1>1, <2>r DEF PlaceInv
    <2>5. SectInv' BY <1>i, <1>a, <1>b, <1>1, <2>r DEF SectInv
    <2>6. AccountInv' BY <1>i, <1>a, <1>1, <2>r DEF AccountInv
    <2>7. FlushInv' BY <1>i, <1>a, <1>1, <2>r DEF FlushInv
    <2>8. HeadInv' BY <1>i, <1>1, <2>r DEF HeadInv, HeadLen
    <2> QED BY <2>1, <2>2, <2>3, <2>4, <2>5, <2>6, <2>7, <2>8 DEF StreamInv, TypeOK
  <1>d. PICK d \in Nat, x \in Nat :
          /\ d = pending - Min2(pending, o) /\ x = o - Min2(pending, o) /\ d <= pending
          /\ d = 0 \/ x = 0
          /\ (o = Min2(pending, o)) = (x = 0)
    <2>1. pending \in Nat BY <1>i DEF TypeOK, TypeCounts
    <2>2. /\ pending - Min2(pending, o) \in Nat /\ o - Min2(pending, o) \in Nat
          /\ pending - Min2(pending, o) <= pending
          /\ pending - Min2(pending, o) = 0 \/ o - Min2(pending, o) = 0
          /\ (o = Min2(pending, o)) = (o - Min2(pending, o) = 0)
      BY <2>1
    <2> QED BY <2>2
  <1>2. ASSUME pending' = d, avail_out' = x, UNCHANGED <<status, beg, sect>>,
               pending # 0, x = 0, last_flush' = -1, ReturnTo(c, "ok")
        PROVE  StreamInv'
    <2>r. ret' = "ok" /\ pc' = (IF c = "params" THEN "params" ELSE "idle") BY <1>2, <1>p
    <2>1. TypeCounts' BY <1>i, <1>a, <1>2 DEF TypeOK, TypeCounts
    <2>2. TypeTags' BY <1>i, <1>a, <1>2, <2>r DEF TypeOK, TypeTags
    <2>3. PendFits' BY <1>i, <1>d, <1>2, StreamAssumption DEF PendFits, TypeOK, TypeCounts
    <2>4. PlaceInv' BY <1>i, <1>a, <1>c, <1>2, <2>r DEF PlaceInv
    <2>5. SectInv' BY <1>i, <1>a, <1>b, <1>2, <2>r DEF SectInv
    <2>6. AccountInv' BY <1>i, <1>a, <1>2, <2>r DEF AccountInv
    <2>7. FlushInv' BY <1>i, <1>a, <1>2, <2>r DEF FlushInv
    <2>8. HeadInv' BY <1>i, <1>2, <2>r DEF HeadInv, HeadLen
    <2> QED BY <2>1, <2>2, <2>3, <2>4, <2>5, <2>6, <2>7, <2>8 DEF StreamInv, TypeOK
  <1>3. ASSUME pending' = d, avail_out' = x, UNCHANGED <<status, beg, sect>>, o > 0,
               ~(status = "finish" /\ f # FINISH),
               \/ pending = 0 /\ Useless(n, f)
               \/ status = "finish" /\ n # 0 /\ (pending = 0 \/ x > 0),
               last_flush' = f, ReturnTo(c, "buf")
        PROVE  StreamInv'
    <2>r. ret' = "buf" /\ pc' = (IF c = "params" THEN "params" ELSE "idle") BY <1>3, <1>p
    <2>d. d = 0 BY <1>i, <1>d, <1>3 DEF TypeOK, TypeCounts
    <2>f. /\ f \in {PARTIAL, SYNC, FULL, BLOCK} =>
               /\ last_flush \in {PARTIAL, SYNC, FULL, BLOCK}
               /\ f # BLOCK => last_flush # BLOCK
          /\ n = 0 => f # FINISH
      <3>1. CASE pending = 0 /\ Useless(n, f)
        <4>1. Rank(f) <= Rank(last_flush) /\ f # FINISH /\ n = 0 BY <3>1 DEF Useless
        <4>2. last_flush # FINISH BY <1>i, <1>3, <4>1 DEF FlushInv
        <4>3. last_flush \in -2..5 BY <1>i DEF TypeOK, TypeCounts
        <4> QED BY <4>1, <4>2, <4>3 DEF Rank
      <3>2. CASE status = "finish" /\ n # 0
        <4> QED BY <3>2, <1>i, <1>3 DEF AccountInv
      <3> QED BY <3>1, <3>2, <1>3
    <2>n. n # 0 => status = "finish" BY <1>3 DEF Useless
    <2>1. TypeCounts' BY <1>i, <1>a, <1>3 DEF TypeOK, TypeCounts
    <2>2. TypeTags' BY <1>i, <1>a, <1>3, <2>r DEF TypeOK, TypeTags
    <2>3. PendFits' BY <2>d, <1>3, StreamAssumption DEF PendFits
    <2>4. PlaceInv' BY <1>i, <1>a, <1>c, <1>3, <2>r DEF PlaceInv
    <2>5. SectInv' BY <1>i, <1>a, <1>b, <1>3, <2>r DEF SectInv
    <2>6. AccountInv' BY <1>i, <1>a, <1>3, <2>r DEF AccountInv
    <2>7. FlushInv' BY <1>i, <1>a, <1>3, <2>r, <2>d, <2>f, <2>n DEF FlushInv
    <2>8. HeadInv' BY <1>i, <1>3, <2>r DEF HeadInv, HeadLen
    <2> QED BY <2>1, <2>2, <2>3, <2>4, <2>5, <2>6, <2>7, <2>8 DEF StreamInv, TypeOK
  <1> DEFINE st == IF status = "init" /\ wrap = 0 THEN "busy" ELSE status
  <1>4. ASSUME pending' = d, avail_out' = x, d = 0, ~(status = "finish" /\ n # 0),
               ~(status = "finish" /\ f # FINISH),
               last_flush' = f, status' = st, beg' = 0, UNCHANGED ret,
               sect' = IF st = status THEN sect ELSE Parse(sect, "headend"),
               pc' = IF st \notin {"busy", "finish"} THEN "head" ELSE AfterHead(n, f, st)
        PROVE  StreamInv'
    <2>1. TypeCounts' BY <1>i, <1>a, <1>4 DEF TypeOK, TypeCounts
    <2>2. TypeTags' BY <1>i, <1>a, <1>4, ParseType DEF TypeOK, TypeTags, AfterHead
    <2>3. PendFits' BY <1>4, StreamAssumption DEF PendFits
    <2>4. PlaceInv'
      BY <1>i, <1>a, <1>c, <1>4, StreamAssumption
      DEF PlaceInv, SectInv, AccountInv, AfterHead, TypeOK, TypeTags, TypeCounts
    <2>5. SectInv'
      BY <1>i, <1>a, <1>b, <1>4, StreamAssumption
      DEF SectInv, AfterHead, TypeOK, TypeTags, TypeCounts
    <2>6. AccountInv' BY <1>i, <1>a, <1>4 DEF AccountInv
    <2>7. FlushInv' BY <1>i, <1>a, <1>4 DEF FlushInv, AfterHead, TypeOK, TypeTags
    <2>8. HeadInv'
      BY <1>i, <1>4, StreamAssumption DEF HeadInv, HeadLen, SectInv, TypeOK, TypeTags, TypeCounts
    <2> QED BY <2>1, <2>2, <2>3, <2>4, <2>5, <2>6, <2>7, <2>8 DEF StreamInv, TypeOK
  <1> QED
    <2>1. CASE status = "finish" /\ f # FINISH BY <1>1, <2>1 DEF Enter
    <2>2. CASE ~(status = "finish" /\ f # FINISH) /\ o = 0 BY <1>1, <2>2 DEF Enter
    <2>3. CASE ~(status = "finish" /\ f # FINISH) /\ o > 0
      <3>1. pending' = d /\ avail_out' = x BY <2>3, <1>d DEF Enter
      <3>2. (o > Min2(pending, o)) = (x > 0) BY <1>d, <1>i DEF TypeOK, TypeCounts
      <3>3. CASE pending # 0 /\ o = Min2(pending, o) /\ last_flush' = -1 /\ ReturnTo(c, "ok") /\ UNCHANGED <<status, beg, sect>>
        BY <1>2, <1>d, <3>1, <3>3
      <3>4. CASE (\/ pending = 0 /\ Useless(n, f)
                  \/ status = "finish" /\ n # 0 /\ (pending = 0 \/ o > Min2(pending, o)))
                 /\ last_flush' = f /\ ReturnTo(c, "buf") /\ UNCHANGED <<status, beg, sect>>
        BY <1>3, <2>3, <3>1, <3>2, <3>4
      <3>5. CASE /\ pending = 0 => ~Useless(n, f)
                 /\ pending # 0 => o > Min2(pending, o)
                 /\ ~(status = "finish" /\ n # 0)
                 /\ last_flush' = f /\ status' = st /\ beg' = 0 /\ UNCHANGED ret
                 /\ sect' = IF st = status THEN sect ELSE Parse(sect, "headend")
                 /\ pc' = IF st \notin {"busy", "finish"} THEN "head" ELSE AfterHead(n, f, st)
        <4>1. d = 0 BY <1>d, <1>i, <3>5, <2>3 DEF TypeOK, TypeCounts
        <4> QED BY <1>4, <2>3, <3>1, <3>5, <4>1
      <3> QED BY <2>3, <3>3, <3>4, <3>5 DEF Enter
    <2> QED BY <2>1, <2>2, <2>3

\* deflate() is called by the user.
LEMMA DeflateKeeps ==
  ASSUME Disciplined, StreamInv, NEW n \in InSizes \cup {avail_in}, NEW o \in OutSizes,
         NEW f \in Flushes, Deflate(n, o, f)
  PROVE  StreamInv'
  <1>1. n \in Nat /\ o \in Nat /\ f \in 0..5
    BY StreamAssumption DEF StreamInv, TypeOK, TypeCounts
  <1>2. want' \in Kinds BY DEF Deflate, StreamInv, TypeOK, TypeTags
  <1> QED BY <1>1, <1>2, EnterKeeps DEF Deflate

\* deflate(strm, Z_BLOCK) is called by deflateParams.
LEMMA ParamsFlushKeeps ==
  ASSUME Disciplined, StreamInv, NEW k \in Kinds, NEW n \in InSizes, NEW o \in OutSizes,
         ParamsFlush(k, n, o)
  PROVE  StreamInv'
  <1>1. n \in Nat /\ o \in Nat BY StreamAssumption
  <1> QED BY <1>1, EnterKeeps DEF ParamsFlush

\* Every step of a call keeps the invariant.
LEMMA StepKeeps ==
  ASSUME Disciplined, StreamInv, Step
  PROVE  StreamInv'
  <1>1. ASSUME NEW n \in ZlibHeads, HeadZlib(n) PROVE StreamInv' BY <1>1, HeadZlibKeeps
  <1>2. ASSUME NEW n \in 1..avail_in, Fill(n) PROVE StreamInv' BY <1>2, FillKeeps
  <1>3. ASSUME NEW n \in 1..lookahead, Tally(n) PROVE StreamInv' BY <1>3, TallyKeeps
  <1>4. ASSUME NEW n \in 1..lookahead, NEW b \in BlockSizes, NEW v \in Bits, TallyBlock(n, b, v)
        PROVE  StreamInv'
    BY <1>4, TallyBlockKeeps
  <1>5. ASSUME NEW b \in BlockSizes, NEW v \in Bits, TallyEnd(b, v) PROVE StreamInv'
    BY <1>5, TallyEndKeeps
  <1>6. ASSUME NEW c \in 0..Margin, NEW v \in Bits, QuickClose(c, v) \/ QuickEnd(c, v) PROVE StreamInv'
    BY <1>6, QuickCloseKeeps, QuickEndKeeps
  <1>7. ASSUME NEW n \in 1..lookahead, NEW c \in 0..Margin, QuickSymbol(n, c) PROVE StreamInv'
    BY <1>7, QuickSymbolKeeps
  <1>8. ASSUME NEW m \in MarkSizes, NEW v \in Bits, Marker(m, v) PROVE StreamInv'
    BY <1>8, MarkerKeeps
  <1> QED
    BY <1>1, <1>2, <1>3, <1>4, <1>5, <1>6, <1>7, <1>8, HeadGzipKeeps, HeadExtraKeeps,
       HeadSpillKeeps,
       HeadByteKeeps, HeadHcrcKeeps, OutKeeps, NeedMoreKeeps, QuickStartKeeps, QuickFlushKeeps,
       StoredCopyKeeps, StoredDoneKeeps, StoredFillKeeps, WriteTrailerKeeps, ParamsAfterKeeps
    DEF Step

\* Every call keeps the invariant.
LEMMA CallerKeeps ==
  ASSUME Disciplined, StreamInv, Caller
  PROVE  StreamInv'
  <1>1. ASSUME NEW n \in InSizes \cup {avail_in}, NEW o \in OutSizes, NEW f \in Flushes,
               Deflate(n, o, f)
        PROVE  StreamInv'
    BY <1>1, DeflateKeeps
  <1>2. ASSUME NEW k \in Kinds, NEW n \in InSizes, NEW o \in OutSizes, ParamsFlush(k, n, o) PROVE StreamInv'
    BY <1>2, ParamsFlushKeeps
  <1>3. ASSUME NEW k \in Kinds, ParamsNow(k) PROVE StreamInv' BY <1>3, ParamsNowKeeps
  <1>4. ASSUME NEW h \in Heads, SetHeader(h) PROVE StreamInv' BY <1>4, SetHeaderKeeps
  <1> QED BY <1>1, <1>2, <1>3, <1>4, DeflateResetKeeps DEF Caller

\* The invariant is about the variables of vars only.
LEMMA StutterKeeps ==
  ASSUME StreamInv, UNCHANGED vars
  PROVE  StreamInv'
  <1> USE DEF vars
  <1>1. TypeCounts' /\ TypeTags' BY DEF StreamInv, TypeOK, TypeCounts, TypeTags
  <1>2. PendFits' /\ PlaceInv' BY DEF StreamInv, PendFits, PlaceInv
  <1>3. SectInv' BY DEF StreamInv, SectInv
  <1>4. AccountInv' /\ FlushInv' BY DEF StreamInv, AccountInv, FlushInv
  <1>5. HeadInv' BY DEF StreamInv, HeadInv, HeadLen
  <1> QED BY <1>1, <1>2, <1>3, <1>4, <1>5 DEF StreamInv, TypeOK

----------------------------------------------------------------------------
(* The invariant, and what follows from it.                                *)

\* The inductive invariant of the deflate() protocol holds in every reachable
\* state, for all buffer, block and header sizes and all calls, for
\* disciplined callers.
THEOREM StreamInvariant == ASSUME Disciplined PROVE Spec => []StreamInv
  <1>1. Init => StreamInv BY InitInv
  <1>2. ASSUME StreamInv, [Next]_vars PROVE StreamInv'
    BY <1>2, StepKeeps, CallerKeeps, StutterKeeps DEF Next
  <1> QED BY <1>1, <1>2, PTL DEF Spec

\* No count of the stream state goes below zero (TypeOK).
THEOREM StreamTypes == ASSUME Disciplined PROVE Spec => []TypeOK
  <1>1. StreamInv => TypeOK BY DEF StreamInv
  <1> QED BY <1>1, StreamInvariant, PTL

\* What deflate puts is always a prefix of one header, blocks, one final block
\* and one trailer, however the output was cut up (WellFormed).
THEOREM StreamWellFormed == ASSUME Disciplined PROVE Spec => []WellFormed
  <1>1. StreamInv => WellFormed
    BY DEF StreamInv, TypeOK, TypeTags, TypeCounts, SectInv, WellFormed
  <1> QED BY <1>1, StreamInvariant, PTL

\* When deflate returns Z_STREAM_END everything is out (EndComplete).
THEOREM EndIsComplete == ASSUME Disciplined PROVE Spec => []EndComplete
  <1>1. StreamInv => EndComplete
    <2> SUFFICES ASSUME StreamInv, pc = "idle", ret = "end"
                 PROVE  /\ sect = IF wrap = 0 THEN "ended" ELSE "trailed"
                        /\ avail_in = 0 /\ owed = 0
                        /\ pending = 0 /\ bi_valid = 0 /\ block_open = 0
      BY DEF EndComplete
    <2>1. status = "finish" /\ pending = 0 /\ wrap <= 0 /\ wrap \in -2..2 /\ avail_in = 0
      BY StreamAssumption DEF StreamInv, FlushInv, TypeOK, TypeCounts
    <2>2. bi_valid = 0 /\ block_open = 0 /\ sect = IF wrap = 0 THEN "ended" ELSE "trailed"
      BY <2>1 DEF StreamInv, SectInv
    <2>3. owed = 0 BY <2>1 DEF StreamInv, AccountInv
    <2> QED BY <2>1, <2>2, <2>3
  <1> QED BY <1>1, StreamInvariant, PTL

\* A flush that returns with output space left is complete, its marker
\* included (FlushComplete).
THEOREM FlushIsComplete == ASSUME Disciplined PROVE Spec => []FlushComplete
  <1>1. StreamInv => FlushComplete
    BY DEF StreamInv, FlushInv, FlushComplete
  <1> QED BY <1>1, StreamInvariant, PTL

\* Z_BUF_ERROR with output space left is returned only when there is nothing
\* to do (NoFalseStall): last_flush never names an unfinished flush.
THEOREM StallIsHonest == ASSUME Disciplined PROVE Spec => []NoFalseStall
  <1>1. StreamInv => NoFalseStall
    BY DEF StreamInv, FlushInv, NoFalseStall, TypeOK, TypeCounts
  <1> QED BY <1>1, StreamInvariant, PTL

\* pending_buf is never overrun, and is empty whenever a block, a marker or a
\* trailer is put (PendingRoom).
THEOREM PendingSuffices == ASSUME Disciplined PROVE Spec => []PendingRoom
  <1>1. StreamInv => PendingRoom
    BY DEF StreamInv, PendFits, PlaceInv, PendingRoom
  <1> QED BY <1>1, StreamInvariant, PTL

\* Every byte of the gzip header is put once and covered once by the header
\* crc, wherever deflateHeaders was interrupted (HeaderExact).
THEOREM HeaderIsExact == ASSUME Disciplined PROVE Spec => []HeaderExact
  <1>1. StreamInv => HeaderExact
    BY DEF StreamInv, HeadInv, SectInv, HeaderExact, TypeOK, TypeTags
  <1> QED BY <1>1, StreamInvariant, PTL
=============================================================================
