------------------------------ MODULE Inflate ------------------------------
(***************************************************************************)
(* inflate(): the mode machine, its bit accumulator, the sliding window    *)
(* and the inner loop inflate_fast, with a caller that hands over any      *)
(* amount of input and output space per call and may reset, copy, prime,   *)
(* synchronise or set a dictionary between calls.                          *)
(*                                                                         *)
(* What the stream holds is revealed when it is decoded: an element of     *)
(* known width once its bits are there, a Huffman code (its length decides *)
(* how many bytes are pulled) when it is first looked at; sym keeps it if  *)
(* the call ends in the middle of it.  Bytes of the history are identified *)
(* by their index, so window[i] = k says that window[i] holds the k-th     *)
(* byte decoded (or given as a dictionary) since the history began.        *)
(***************************************************************************)
EXTENDS Integers, Sequences, SyncSearch, InflateFast

CONSTANTS
  MaxWBits,          \* MAX_WBITS
  Requests,          \* what inflateInit2 or inflateReset2 asks for: [wrap, wbits]
  GzFlags,           \* optional fields of gzip headers: subsets of Fields
  ExtraLens, TextLens,   \* bytes of an extra field; of a name or comment with its zero
  ExtraMax, TextMax, \* the caller's gz_header: extra_max; name_max and comm_max
  NCodes, NLens, NReps,  \* table descriptors, scaled: ncode, nlen + ndist, repeats
  LitCodes,          \* bits of literal codes
  EndCodes,          \* bits of end-of-block codes
  LenCodes, DistCodes,   \* <<bits of the code, extra bits>>
  Lengths, Offsets, StoredLens,
  MaxHist,           \* bound on the bytes of one history
  DictSizes, PrimeSizes, SyncBytes,
  Calls,             \* avail_in, avail_out and flush of the calls the caller makes
  PrimeMax           \* bits a caller puts in by inflatePrime

Fields == {"extra", "name", "comment", "hcrc"}
NoSym  == [k |-> "none", n |-> 0, x |-> 0]
NoHead == [on |-> FALSE, done |-> 0, exlen |-> 0, extra |-> 0, name |-> 0, comment |-> 0]

ASSUME InflateAssumption ==
  /\ MaxWBits \in Nat \ {0}
  /\ Requests \subseteq [wrap : SUBSET {"zlib", "gzip", "check"}, wbits : 0..MaxWBits]
  /\ \A r \in Requests :
       IF r.wrap = {} THEN r.wbits # 0
       ELSE "check" \in r.wrap /\ r.wrap \cap {"zlib", "gzip"} # {}
  /\ GzFlags \subseteq SUBSET Fields
  /\ ExtraLens \subseteq Nat /\ TextLens \subseteq Nat \ {0}
  /\ ExtraMax \in Nat /\ TextMax \in Nat
  /\ NCodes \subseteq 1..19 /\ NLens \subseteq 1..316 /\ NReps \subseteq Nat \ {0}
  /\ LitCodes \subseteq 1..15 /\ EndCodes \subseteq 1..15
  /\ LenCodes \subseteq (1..15) \X (0..5) /\ DistCodes \subseteq (1..15) \X (0..13)
  /\ Lengths \subseteq 1..MaxMatch
  /\ Offsets \subseteq Nat \ {0} /\ StoredLens \subseteq Nat /\ MaxHist \in Nat
  /\ DictSizes \subseteq Nat /\ PrimeSizes \subseteq 1..16 /\ PrimeMax \in 0..16
  \* primed bits beyond a byte are used up by the first code (fixed ones have 7 bits)
  /\ \A n \in LitCodes \cup EndCodes \cup {c[1] : c \in LenCodes} : PrimeMax <= n + 10
  /\ SyncBytes \subseteq Seq({0, 255, 1})
  /\ Calls \subseteq Nat \X Nat \X {"none", "finish", "block", "trees"}

VARIABLES
  mode, last, wrap, havedict, flags, check, total, head,   \* struct inflate_state
  wbits, wsize, whave, wnext, window,
  bits, length, offset, extra, ncode, nlen, lens,                \* lens: state->have
  flush, in, out, have, left, fast, ret, pc,                     \* locals of the call
  sym,                                                           \* the code begun
  req, hist, put, hdr, valid, faults                             \* ghosts

(* req: what the caller asked for; hist: bytes of the history; put: bytes  *)
(* put out since the stream began; hdr: bytes of the gzip header so far;   *)
(* valid: "ok" while the stream read is one inflate has to accept, "bad"   *)
(* when it has to be refused, "open" when either will do;                  *)
(* faults: what no execution of the code may do, see NoFault.              *)

winVars  == <<wbits, wsize, whave, wnext, window>>
headVars == <<wrap, flags, head, hdr, havedict>>
tabVars  == <<ncode, nlen, lens>>
codeVars == <<length, offset, extra>>
ioVars   == <<have, left>>
callVars == <<flush, in, out>>
sumVars  == <<check, total, put>>
vars == <<mode, last, wrap, havedict, flags, check, total, head, wbits, wsize,
          whave, wnext, window, bits, length, offset, extra, ncode, nlen, lens, flush,
          in, out, have, left, fast, ret, pc, sym, req, hist, put, hdr, valid, faults>>

HeadModes  == {"HEAD", "FLAGS", "TIME", "OS", "EXLEN", "EXTRA", "NAME", "COMMENT",
               "HCRC", "DICTID", "DICT"}
BlockModes == {"TYPE", "TYPEDO", "STORED", "COPY_", "COPY", "TABLE", "LENLENS",
               "CODELENS", "LEN_", "LEN", "LENEXT", "DIST", "DISTEXT", "MATCH", "LIT"}
\* inflate_mode: the modes below CHECK, the trailer, then BAD and SYNC
Modes == HeadModes \cup BlockModes \cup {"CHECK", "LENGTH", "DONE", "BAD", "SYNC"}

Min2(a, b) == IF a <= b THEN a ELSE b

----------------------------------------------------------------------------
(* The check value, by what it covers: the leading n bytes of the header,  *)
(* of the output, or of nothing in order (n = -1).                         *)

NoCheck == [of |-> "data", n |-> 0]
\* state->flags: -1 before a header, 0 for zlib, the flag bits for gzip
NoFlags == [kind |-> "none", f |-> {}]

Covers(c, what, from, to) ==
  [of |-> what, n |-> IF c.of = what /\ c.n = from THEN to ELSE -1]

\* inf_chksum and inf_chksum_cpy over output bytes from..to-1; no bytes, no change
Summed(c, from, to) == IF from = to THEN c ELSE Covers(c, "data", from, to)

\* CRC2, CRC4 and crc32_small over the next n bytes of the header
HeadSum(f, n) == IF "hcrc" \in f /\ "check" \in wrap
                 THEN Covers(check, "head", hdr, hdr + n) ELSE check

----------------------------------------------------------------------------
(* updatewindow(strm, end, len, cksum): end is the end of the history.     *)

\* 1U << w
WindowOf[w \in 0..MaxWBits] == IF w = 0 THEN 1 ELSE 2 * WindowOf[w - 1]

WSizeNow == IF wsize = 0 THEN WindowOf[wbits] ELSE wsize

WindowNext(ws, len) ==
  LET dist == Min2(ws - wnext, len)
  IN  IF len >= ws THEN 0
      ELSE IF len > dist THEN len - dist
      ELSE IF wnext + dist = ws THEN 0 ELSE wnext + dist

WindowHave(ws, len) ==
  LET dist == Min2(ws - wnext, len)
  IN  IF len >= ws \/ len > dist THEN ws
      ELSE IF whave < ws THEN whave + dist ELSE whave

\* window[i] after the last len bytes before history index end were copied in
WindowBytes(ws, len, end) ==
  LET dist == Min2(ws - wnext, len)
  IN  [i \in DOMAIN window |->
         IF len >= ws THEN (IF i < ws THEN end - ws + i ELSE window[i])
         ELSE IF i >= wnext /\ i < wnext + dist THEN end - len + (i - wnext)
         ELSE IF i < len - dist THEN end - (len - dist) + i
         ELSE window[i]]

UpdateWindow(len, end) ==
  /\ wsize' = WSizeNow
  /\ window' = WindowBytes(WSizeNow, len, end)
  /\ wnext' = WindowNext(WSizeNow, len)
  /\ whave' = WindowHave(WSizeNow, len)

\* inflateGetDictionary: the window in order
Dictionary ==
  [i \in 1..whave |-> IF i <= whave - wnext THEN window[wnext + i - 1]
                      ELSE window[i - (whave - wnext) - 1]]

----------------------------------------------------------------------------
(* The bit accumulator: NEEDBITS(n), PULLBYTE, DROPBITS.                   *)

Enough(n) == bits + 8 * have >= n
Pulled(n) == IF bits >= n THEN 0 ELSE (n - bits + 7) \div 8

\* NEEDBITS(n), then DROPBITS(d)
Need(n, d) ==
  /\ have' = have - Pulled(n)
  /\ bits' = bits + 8 * Pulled(n) - d
Take(n) == Need(n, n)

\* NEEDBITS(n), then INITBITS()
TakeAll(n) == have' = have - Pulled(n) /\ bits' = 0

\* goto inf_leave
Leave == pc' = "leave"
Stay  == pc' = "run"

\* PULLBYTE() with no input left
Starve ==
  /\ bits' = bits + 8 * have /\ have' = 0
  /\ Leave

\* SET_BAD
SetBad(v) == mode' = "BAD" /\ valid' = v

Running(m) == pc = "run" /\ fast = "no" /\ mode = m

----------------------------------------------------------------------------
(* inflateInit2, inflateResetKeep, inflateReset, inflateReset2.            *)

Init ==
  /\ req \in Requests
  /\ wrap = req.wrap /\ wbits = req.wbits
  /\ wsize = 0 /\ whave = 0 /\ wnext = 0 /\ window = [i \in 0..(WindowOf[MaxWBits] - 1) |-> -1]
  /\ mode = "HEAD" /\ check = NoCheck /\ last = FALSE /\ havedict = FALSE
  /\ flags = NoFlags /\ head = NoHead /\ bits = 0  /\ total = 0
  /\ length = 0 /\ offset = 0 /\ extra = 0 /\ ncode = 0 /\ nlen = 0 /\ lens = 0
  /\ flush = "none" /\ in = 0 /\ out = 0 /\ have = 0 /\ left = 0 /\ fast = "no"
  /\ ret = "ok" /\ pc = "idle" /\ sym = NoSym
  /\ hist = 0 /\ put = 0 /\ hdr = 0 /\ valid = "ok" /\ faults = {}

\* Values that are set before they are read again are dead; they are kept at 0.
Forget ==
  /\ length' = 0 /\ offset' = 0 /\ extra' = 0
  /\ ncode' = 0 /\ nlen' = 0 /\ lens' = 0

ResetKeep ==
  /\ mode' = "HEAD" /\ check' = NoCheck /\ last' = FALSE /\ havedict' = FALSE
  /\ flags' = NoFlags /\ head' = NoHead /\ bits' = 0  /\ total' = 0
  /\ put' = 0 /\ hdr' = 0 /\ valid' = "ok" /\ sym' = NoSym
  /\ Forget
  /\ UNCHANGED <<callVars, ioVars, fast, ret, pc, faults>>

\* A reset window holds bytes of no history any more.
ForgetWindow ==
  /\ wsize' = 0 /\ whave' = 0 /\ wnext' = 0 /\ hist' = 0
  /\ window' = [i \in DOMAIN window |-> -1]

\* A stream that takes its window size from the header keeps the size of the
\* first one: it is reused by inflateReset2 only.
Reusable == req.wbits # 0

InflateResetKeep ==
  /\ pc = "idle" /\ Reusable
  /\ ResetKeep
  /\ hist' = whave                \* the history is what the window holds
  /\ window' = [i \in DOMAIN window |->
                  IF i >= whave THEN -1 ELSE IF whave < wsize THEN i
                  ELSE IF i >= wnext THEN i - wnext ELSE wsize - wnext + i]
  /\ UNCHANGED <<wrap, wbits, wsize, whave, wnext, req>>

InflateReset ==
  /\ pc = "idle" /\ Reusable
  /\ ResetKeep /\ ForgetWindow
  /\ UNCHANGED <<wrap, wbits, req>>

InflateReset2(r) ==
  /\ pc = "idle"
  /\ req' = r /\ wrap' = r.wrap /\ wbits' = r.wbits
  /\ ResetKeep /\ ForgetWindow

----------------------------------------------------------------------------
(* The other calls between inflate() calls.                                *)

\* inflatePrime; zlib-ng.h: raw inflate only, before the first inflate()
InflatePrime(n) ==
  /\ pc = "idle" /\ mode = "HEAD" /\ wrap = {}
  /\ bits + n <= PrimeMax
  /\ bits' = bits + n
  /\ UNCHANGED <<mode, last, headVars, sumVars, codeVars, winVars, tabVars, callVars,
                 ioVars, fast, ret, pc, sym, req, hist, valid, faults>>

\* inflatePrime(strm, -1, 0)
InflatePrimeClear ==
  /\ pc = "idle" /\ mode = "HEAD" /\ wrap = {} /\ bits > 0
  /\ bits' = 0
  /\ UNCHANGED <<mode, last, headVars, sumVars, codeVars, winVars, tabVars, callVars,
                 ioVars, fast, ret, pc, sym, req, hist, valid, faults>>

\* inflateValidate(strm, 0), before the first inflate()
InflateValidateOff ==
  /\ pc = "idle" /\ mode = "HEAD" /\ "check" \in wrap
  /\ wrap' = wrap \ {"check"}
  /\ UNCHANGED <<mode, last, havedict, flags, head, hdr, sumVars, codeVars, winVars, bits,
                 tabVars, callVars, ioVars, fast, ret, pc, sym, req, hist, valid, faults>>

\* inflateGetHeader; zlib-ng.h: before the first inflate()
InflateGetHeader ==
  /\ pc = "idle" /\ "gzip" \in wrap /\ mode = "HEAD" /\ ~head.on
  /\ head' = [NoHead EXCEPT !.on = TRUE]
  /\ UNCHANGED <<mode, last, wrap, havedict, flags, hdr, sumVars, codeVars, winVars, bits,
                 tabVars, callVars, ioVars, fast, ret, pc, sym, req, hist, valid, faults>>

\* inflateSetDictionary with the right dictionary; a wrong one changes nothing
InflateSetDictionary(n) ==
  /\ pc = "idle" /\ hist + length + n < MaxHist
  /\ IF wrap = {} THEN mode \in HeadModes \cup BlockModes ELSE mode = "DICT"
  /\ mode = "DICT" => check.of = "dict"
  /\ UpdateWindow(n, hist + n)
  /\ hist' = hist + n
  /\ havedict' = (mode = "DICT")     \* read in DICT only
  /\ UNCHANGED <<mode, last, wrap, flags, head, hdr, sumVars, codeVars, wbits, bits,
                 tabVars, callVars, ioVars, fast, ret, pc, sym, req, valid, faults>>

\* inflateCopy, the caller going on with the copy: wsize bytes of the window
InflateCopy ==
  /\ pc = "idle"
  /\ window' = [i \in DOMAIN window |-> IF i < wsize THEN window[i] ELSE -1]
  /\ UNCHANGED <<mode, last, headVars, sumVars, codeVars, wbits, wsize, whave, wnext, bits,
                 tabVars, callVars, ioVars, fast, ret, pc, sym, req, hist, valid, faults>>

\* inflateSync; buf: the caller's input; held: the whole bytes in the accumulator.
\* Not after a header that asked for a window larger than MaxWBits was refused by
\* a stream that takes its size from the header: wbits keeps that size.
InflateSync(buf, held) ==
  LET first == mode # "SYNC"
      got == syncsearch(IF first THEN syncsearch(0, held) ELSE lens, buf)
  IN
  /\ pc = "idle" /\ (Len(buf) > 0 \/ bits >= 8) /\ wbits <= MaxWBits
  /\ Len(held) = IF first THEN bits \div 8 ELSE 0
  /\ length' = 0 /\ offset' = 0 /\ extra' = 0 /\ ncode' = 0 /\ nlen' = 0
  /\ faults' = faults \cup Fault(Len(held) > 4, "syncbuf")
  /\ \/ /\ got # 4
        /\ mode' = "SYNC" /\ bits' = 0 /\ lens' = got /\ sym' = NoSym
        /\ UNCHANGED <<last, headVars, sumVars, winVars, hist, valid>>
     \/ /\ got = 4
        /\ wrap' = IF flags.kind = "none" THEN {} ELSE wrap \ {"check"}
        /\ mode' = "TYPE" /\ check' = NoCheck /\ last' = FALSE /\ havedict' = FALSE
        /\ head' = NoHead /\ bits' = 0  /\ total' = 0 /\ lens' = 0
        /\ put' = 0 /\ hdr' = 0 /\ valid' = "ok" /\ sym' = NoSym
        /\ ForgetWindow
        /\ UNCHANGED <<flags, wbits>>
  /\ UNCHANGED <<callVars, ioVars, fast, ret, pc, req>>

----------------------------------------------------------------------------
(* inflate(): the call, then one action per case of the switch.            *)

Call(n, m, f) ==
  /\ pc = "idle" /\ mode # "SYNC"
  /\ mode' = IF mode = "TYPE" THEN "TYPEDO" ELSE mode
  /\ flush' = f /\ in' = n /\ have' = n /\ out' = m /\ left' = m
  /\ ret' = "ok" /\ pc' = "run"
  /\ UNCHANGED <<last, headVars, sumVars, codeVars, winVars, bits, tabVars, fast, sym,
                 req, hist, valid, faults>>

\* Bits a mode asks for at once by NEEDBITS; BYTEBITS comes first in STORED.
BitsOf(m) == CASE m \in {"HEAD", "FLAGS", "OS"} -> 16
               [] m \in {"TIME", "DICTID", "STORED"} -> 32
               [] m = "EXLEN"  -> IF "extra" \in flags.f THEN 16 ELSE 0
               [] m = "HCRC"   -> IF "hcrc" \in flags.f THEN 16 ELSE 0
               [] m = "TYPEDO" -> IF last THEN 0 ELSE 3
               [] m = "TABLE"  -> 14
               [] m = "LENLENS" -> IF lens < ncode THEN 3 ELSE 0
               [] m \in {"LENEXT", "DISTEXT"} -> extra
               [] m = "CHECK"  -> IF wrap = {} THEN 0 ELSE 32
               [] m = "LENGTH" -> IF wrap # {} /\ flags.kind # "zlib" THEN 32 ELSE 0
               [] OTHER -> 0

\* BYTEBITS()
Aligned == bits - (bits % 8)
EnoughNow(m) == IF m = "STORED" THEN Aligned + 8 * have >= 32 ELSE Enough(BitsOf(m))

\* NEEDBITS returns for want of input.
NeedBitsLeaves ==
  /\ pc = "run" /\ fast = "no"
  /\ mode = "HEAD" => wrap # {}
  /\ ~EnoughNow(mode)
  /\ bits' = (IF mode = "STORED" THEN Aligned ELSE bits) + 8 * have
  /\ have' = 0 /\ Leave
  /\ UNCHANGED <<mode, last, headVars, sumVars, codeVars, winVars, tabVars, callVars, left,
                 fast, ret, sym, req, hist, valid, faults>>

\* case HEAD
HeadRaw ==
  /\ Running("HEAD") /\ wrap = {}
  /\ mode' = "TYPEDO"
  /\ UNCHANGED <<last, headVars, sumVars, codeVars, winVars, bits, tabVars, callVars, ioVars,
                 fast, ret, pc, sym, req, hist, valid, faults>>

HeadGzip ==
  /\ Running("HEAD") /\ "gzip" \in wrap /\ Enough(16)
  /\ TakeAll(16)
  /\ wbits' = IF wbits = 0 THEN MaxWBits ELSE wbits
  /\ check' = [of |-> "head", n |-> 2] /\ hdr' = 2
  /\ mode' = "FLAGS"
  /\ UNCHANGED <<last, wrap, flags, head, havedict, total, put, codeVars, wsize, whave, wnext,
                 window, tabVars, callVars, left, fast, ret, pc, sym, req, hist, valid, faults>>

\* The window size a zlib header may ask for; without one it has to be accepted.
WindowAsked == IF req.wbits = 0 THEN MaxWBits ELSE req.wbits

\* len: the window size of the header, dict: its FDICT flag
HeadZlib(len, dict) ==
  LET w == IF wbits = 0 THEN len ELSE wbits
  IN
  /\ Running("HEAD") /\ "zlib" \in wrap /\ Enough(16)
  /\ head' = IF head.on THEN [head EXCEPT !.done = -1] ELSE head
  /\ wbits' = w
  /\ \/ /\ len > MaxWBits \/ len > w
        /\ Need(16, 4)
        /\ SetBad(IF len > WindowAsked THEN "bad" ELSE valid)
        /\ UNCHANGED <<flags, check>>
     \/ /\ len <= MaxWBits /\ len <= w
        /\ TakeAll(16)
        /\ flags' = [kind |-> "zlib", f |-> {}] /\ check' = NoCheck
        /\ mode' = IF dict THEN "DICTID" ELSE "TYPE"
        /\ UNCHANGED valid
  /\ UNCHANGED <<last, wrap, hdr, havedict, total, put, codeVars, wsize, whave, wnext, window,
                 tabVars, callVars, left, fast, ret, pc, sym, req, hist, faults>>

\* A header that is not one, or of a kind that was not asked for.
HeadBad ==
  /\ Running("HEAD") /\ wrap # {} /\ Enough(16)
  /\ Need(16, 0)
  /\ head' = IF head.on THEN [head EXCEPT !.done = -1] ELSE head
  /\ SetBad("bad")
  /\ UNCHANGED <<last, wrap, flags, hdr, havedict, sumVars, codeVars, winVars, tabVars,
                 callVars, left, fast, ret, pc, sym, req, hist, faults>>

\* case FLAGS
Flags(f) ==
  /\ Running("FLAGS") /\ Enough(16)
  /\ TakeAll(16)
  /\ flags' = [kind |-> "gzip", f |-> f]
  /\ check' = HeadSum(f, 2) /\ hdr' = hdr + 2
  /\ mode' = "TIME"
  /\ UNCHANGED <<last, wrap, head, havedict, total, put, codeVars, winVars, tabVars, callVars,
                 left, fast, ret, pc, sym, req, hist, valid, faults>>

\* an unknown method or reserved flags
FlagsBad ==
  /\ Running("FLAGS") /\ Enough(16)
  /\ Need(16, 0)
  /\ flags' = [kind |-> "gzip", f |-> {}]
  /\ SetBad("bad")
  /\ UNCHANGED <<last, wrap, head, hdr, havedict, sumVars, codeVars, winVars, tabVars,
                 callVars, left, fast, ret, pc, sym, req, hist, faults>>

\* cases TIME and OS: text, time, xflags and os of the header are not told apart
TimeOrOS ==
  \E m \in {"TIME", "OS"} :
    /\ Running(m) /\ EnoughNow(m)
    /\ TakeAll(BitsOf(m))
    /\ check' = HeadSum(flags.f, BitsOf(m) \div 8) /\ hdr' = hdr + BitsOf(m) \div 8
    /\ mode' = IF m = "TIME" THEN "OS" ELSE "EXLEN"
    /\ UNCHANGED <<last, wrap, flags, head, havedict, total, put, codeVars, winVars, tabVars,
                   callVars, left, fast, ret, pc, sym, req, hist, valid, faults>>

\* case EXLEN
Exlen(n) ==
  LET present == "extra" \in flags.f
  IN
  /\ Running("EXLEN") /\ EnoughNow("EXLEN")
  /\ ~present => n = 0
  /\ mode' = "EXTRA"
  /\ IF present
     THEN /\ TakeAll(16)
          /\ length' = n
          /\ head' = IF head.on THEN [head EXCEPT !.exlen = n] ELSE head
          /\ check' = HeadSum(flags.f, 2) /\ hdr' = hdr + 2
     ELSE UNCHANGED <<have, bits, length, head, check, hdr>>
  /\ UNCHANGED <<last, wrap, flags, havedict, total, put, offset, extra, winVars, tabVars,
                 callVars, left, fast, ret, pc, sym, req, hist, valid, faults>>

\* Mutant: the offset in the caller's buffer restarts with every piece.
ExtraOffsetPiece == 0
\* len of case EXTRA: where the next piece of the extra field goes
ExtraOffset == head.exlen - length

\* case EXTRA: saved bytes are counted while they arrive in order
Extra ==
  LET copy == IF "extra" \in flags.f THEN Min2(length, have) ELSE 0
      at   == ExtraOffset
      n    == IF at < ExtraMax THEN Min2(copy, ExtraMax - at) ELSE 0
  IN
  /\ Running("EXTRA")
  /\ have' = have - copy
  /\ head' = IF head.on /\ n > 0
             THEN [head EXCEPT !.extra = IF @ = at THEN at + n ELSE -1] ELSE head
  /\ check' = IF copy > 0 THEN HeadSum(flags.f, copy) ELSE check
  /\ hdr' = hdr + copy
  /\ IF "extra" \in flags.f /\ copy < length
     THEN length' = length - copy /\ Leave /\ UNCHANGED mode
     ELSE length' = 0 /\ Stay /\ mode' = "NAME"
  /\ UNCHANGED <<last, wrap, flags, havedict, total, put, offset, extra, winVars, bits,
                 tabVars, callVars, left, fast, ret, sym, req, hist, valid, faults>>

\* cases NAME and COMMENT; r: bytes the text still has, its zero included
Text(m, field, r) ==
  LET copy  == Min2(have, r)
      saved == IF head.on THEN Min2(length + copy, TextMax) ELSE length
  IN
  /\ Running(m) /\ field \in flags.f /\ have > 0
  /\ r \in IF sym.k = "text" THEN {sym.n} ELSE TextLens
  /\ have' = have - copy
  /\ check' = HeadSum(flags.f, copy) /\ hdr' = hdr + copy
  /\ head' = IF head.on THEN [head EXCEPT ![field] = saved] ELSE head
  /\ IF copy < r
     THEN length' = saved /\ sym' = [k |-> "text", n |-> r - copy, x |-> 0] /\ Leave
          /\ UNCHANGED mode
     ELSE /\ sym' = NoSym /\ Stay
          /\ length' = 0 /\ mode' = IF m = "NAME" THEN "COMMENT" ELSE "HCRC"
  /\ UNCHANGED <<last, wrap, flags, havedict, total, put, offset, extra, winVars, bits,
                 tabVars, callVars, left, fast, ret, req, hist, valid, faults>>

\* no such field, or no input for it
NoText(m, field) ==
  /\ Running(m)
  /\ \/ /\ field \notin flags.f
        /\ length' = 0
        /\ mode' = IF m = "NAME" THEN "COMMENT" ELSE "HCRC"
        /\ Stay
     \/ field \in flags.f /\ have = 0 /\ Leave /\ UNCHANGED <<length, mode>>
  /\ UNCHANGED <<last, headVars, sumVars, offset, extra, winVars, bits, tabVars, callVars,
                 ioVars, fast, ret, sym, req, hist, valid, faults>>

\* case HCRC; good: the header ends with the crc of its bytes
Hcrc(good) ==
  LET present == "hcrc" \in flags.f
      matches == good /\ check = [of |-> "head", n |-> hdr]
  IN
  /\ Running("HCRC") /\ EnoughNow("HCRC")
  /\ ~present => good
  /\ IF present /\ "check" \in wrap /\ ~matches
     THEN /\ Need(16, 0)
          /\ SetBad(IF good THEN valid ELSE "bad")
          /\ UNCHANGED <<head, check, hdr>>
     ELSE /\ IF present THEN TakeAll(16) ELSE UNCHANGED <<have, bits>>
          /\ head' = IF head.on THEN [head EXCEPT !.done = 1] ELSE head
          /\ check' = IF "check" \in wrap THEN NoCheck ELSE check
          /\ hdr' = 0
          /\ mode' = "TYPE"
          /\ valid' = IF good THEN valid ELSE "bad"
  /\ UNCHANGED <<last, wrap, flags, havedict, total, put, codeVars, winVars, tabVars, callVars,
                 left, fast, ret, pc, sym, req, hist, faults>>

\* cases DICTID and DICT
DictId ==
  /\ Running("DICTID") /\ Enough(32)
  /\ TakeAll(32)
  /\ check' = [of |-> "dict", n |-> 0]
  /\ mode' = "DICT"
  /\ UNCHANGED <<last, headVars, total, put, codeVars, winVars, tabVars, callVars, left, fast,
                 ret, pc, sym, req, hist, valid, faults>>

\* return Z_NEED_DICT, without inf_leave
NeedDict ==
  /\ Running("DICT") /\ ~havedict
  /\ pc' = "idle"
  /\ in' = 0 /\ out' = 0 /\ have' = 0 /\ left' = 0 /\ flush' = "none"
  /\ UNCHANGED <<mode, last, headVars, sumVars, codeVars, winVars, bits, tabVars, fast, ret,
                 sym, req, hist, valid, faults>>

HaveDict ==
  /\ Running("DICT") /\ havedict
  /\ check' = NoCheck /\ havedict' = FALSE
  /\ mode' = "TYPE"
  /\ UNCHANGED <<last, wrap, flags, head, hdr, total, put, codeVars, winVars, bits, tabVars, callVars, ioVars,
                 fast, ret, pc, sym, req, hist, valid, faults>>

----------------------------------------------------------------------------
(* Blocks.                                                                 *)

\* case TYPE; nothing of a gzip header is read any more
Type ==
  /\ Running("TYPE")
  /\ IF flush \in {"block", "trees"} THEN Leave /\ UNCHANGED mode ELSE Stay /\ mode' = "TYPEDO"
  /\ head' = NoHead /\ flags' = [flags EXCEPT !.f = {}]
  /\ UNCHANGED <<last, wrap, hdr, havedict, sumVars, codeVars, winVars, bits, tabVars, callVars, ioVars,
                 fast, ret, sym, req, hist, valid, faults>>

\* case TYPEDO after the last block
LastBlock ==
  /\ Running("TYPEDO") /\ last
  /\ bits' = Aligned
  /\ mode' = "CHECK"
  /\ UNCHANGED <<last, headVars, sumVars, codeVars, winVars, tabVars, callVars, ioVars, fast,
                 ret, pc, sym, req, hist, valid, faults>>

\* case TYPEDO: the next block
BlockHeader(final, kind) ==
  /\ Running("TYPEDO") /\ ~last /\ Enough(3)
  /\ Take(3)
  /\ last' = final
  /\ mode' = CASE kind = "stored" -> "STORED" [] kind = "fixed" -> "LEN_"
               [] kind = "dynamic" -> "TABLE" [] kind = "bad" -> "BAD"
  /\ valid' = IF kind = "bad" THEN "bad" ELSE valid
  /\ IF kind = "fixed" /\ flush = "trees" THEN Leave ELSE Stay
  /\ UNCHANGED <<headVars, sumVars, codeVars, winVars, tabVars, callVars, left, fast, ret, sym,
                 req, hist, faults>>

\* case STORED
Stored(n) ==
  /\ Running("STORED") /\ EnoughNow("STORED") /\ hist + n <= MaxHist
  /\ have' = have - (32 - Aligned + 7) \div 8 /\ bits' = 0
  /\ length' = n
  /\ mode' = "COPY_"
  /\ IF flush = "trees" THEN Leave ELSE Stay
  /\ UNCHANGED <<last, headVars, sumVars, offset, extra, winVars, tabVars, callVars, left,
                 fast, ret, sym, req, hist, valid, faults>>

\* the two lengths disagree
StoredBad ==
  /\ Running("STORED") /\ EnoughNow("STORED")
  /\ have' = have - (32 - Aligned + 7) \div 8 /\ bits' = 32
  /\ SetBad("bad")
  /\ UNCHANGED <<last, headVars, sumVars, codeVars, winVars, tabVars, callVars, left, fast, ret,
                 pc, sym, req, hist, faults>>

\* n bytes are put out (the caller of this advances the mode)
PutBytes(n) ==
  /\ left' = left - n /\ hist' = hist + n /\ put' = put + n

\* cases COPY_ and COPY
Copy ==
  LET copy == Min2(length, Min2(have, left))
  IN
  /\ pc = "run" /\ mode \in {"COPY_", "COPY"}
  /\ \/ /\ length = 0
        /\ mode' = "TYPE" /\ Stay /\ UNCHANGED <<have, length, left, hist, put>>
     \/ /\ length > 0
        /\ mode' = "COPY"
        /\ IF copy = 0 THEN Leave ELSE Stay
        /\ have' = have - copy /\ length' = length - copy /\ PutBytes(copy)
  /\ UNCHANGED <<last, headVars, check, total, offset, extra, winVars, bits, tabVars,
                 callVars, fast, ret, sym, req, valid, faults>>

\* case TABLE; n: nlen + ndist
Table(c, n) ==
  /\ Running("TABLE") /\ Enough(14)
  /\ Take(14)
  /\ ncode' = c /\ nlen' = n /\ lens' = 0
  /\ mode' = "LENLENS"
  /\ UNCHANGED <<last, headVars, sumVars, codeVars, winVars, callVars, left, fast, ret, pc, sym,
                 req, hist, valid, faults>>

TableBad ==
  /\ Running("TABLE") /\ Enough(14)
  /\ Take(14)
  /\ SetBad("bad")
  /\ UNCHANGED <<last, headVars, sumVars, codeVars, winVars, tabVars, callVars, left, fast, ret,
                 pc, sym, req, hist, faults>>

\* case LENLENS: one code length; then inflate_table(CODES)
LenLens(good) ==
  /\ Running("LENLENS") /\ EnoughNow("LENLENS")
  /\ \/ /\ lens < ncode /\ good
        /\ Take(3) /\ lens' = lens + 1 /\ UNCHANGED <<mode, valid>>
     \/ /\ lens >= ncode /\ UNCHANGED <<have, bits>>
        /\ IF good THEN lens' = 0 /\ mode' = "CODELENS" /\ UNCHANGED valid
                   ELSE lens' = 19 /\ SetBad("bad")
  /\ UNCHANGED <<last, headVars, sumVars, codeVars, winVars, ncode, nlen, callVars, left, fast,
                 ret, pc, sym, req, hist, faults>>

\* The codes of CODELENS: a length, or a repeat with its extra bits
LengthSyms == {[k |-> "len", n |-> 4, x |-> 1]}
                \cup {[k |-> "rep", n |-> 2 + 2, x |-> r] : r \in NReps}
                \cup {[k |-> "zero", n |-> 5 + 7, x |-> r] : r \in NReps}

\* case CODELENS: one symbol
CodeLen(s) ==
  LET fits == lens + s.x <= nlen /\ (s.k = "rep" => lens > 0)
  IN
  /\ Running("CODELENS") /\ lens < nlen
  /\ sym.k # "none" => s = sym
  /\ IF Enough(s.n)
     THEN /\ Stay /\ sym' = NoSym
          /\ Need(s.n, IF s.k = "rep" /\ lens = 0 THEN s.n - 2 ELSE s.n)
          /\ IF fits THEN lens' = lens + s.x /\ UNCHANGED <<mode, valid>>
                     ELSE SetBad("bad") /\ UNCHANGED lens
     ELSE Starve /\ sym' = s /\ UNCHANGED <<mode, valid, lens>>
  /\ UNCHANGED <<last, headVars, sumVars, codeVars, winVars, ncode, nlen, callVars, left, fast,
                 ret, req, hist, faults>>

\* case CODELENS, all lengths there: an end-of-block code and two usable tables
Tables(good) ==
  /\ Running("CODELENS") /\ lens >= nlen
  /\ \/ /\ good /\ mode' = "LEN_" /\ UNCHANGED valid
        /\ IF flush = "trees" THEN Leave ELSE Stay
     \/ ~good /\ SetBad("bad") /\ Stay
  /\ ncode' = 0 /\ nlen' = 0 /\ lens' = 0
  /\ UNCHANGED <<last, headVars, sumVars, codeVars, winVars, bits, callVars, ioVars, fast, ret,
                 sym, req, hist, faults>>

----------------------------------------------------------------------------
(* Codes of a block, one at a time.                                        *)

\* A symbol may only be chosen while the history has room for its output.
Symbols == {[k |-> "lit", n |-> c, x |-> 0] : c \in {c \in LitCodes : hist < MaxHist}}
             \cup {[k |-> "end", n |-> c, x |-> 0] : c \in EndCodes}
             \cup {[k |-> "len", n |-> c[1], x |-> c[2]] : c \in {c \in LenCodes : hist < MaxHist}}

FastAllowed == have >= INFLATE_FAST_MIN_HAVE /\ left >= INFLATE_FAST_MIN_SAFE

\* cases LEN_ and LEN without inflate_fast
Len_(s) ==
  /\ pc = "run" /\ fast = "no" /\ mode \in {"LEN_", "LEN"} /\ ~FastAllowed
  /\ sym.k # "none" => s = sym
  /\ IF Enough(s.n)
     THEN /\ Take(s.n) /\ Stay /\ sym' = NoSym
          /\ mode' = CASE s.k = "lit" -> "LIT" [] s.k = "end" -> "TYPE" [] s.k = "len" -> "LENEXT"
          /\ extra' = IF s.k = "len" THEN s.x ELSE extra
     ELSE Starve /\ sym' = s /\ mode' = "LEN" /\ UNCHANGED extra
  /\ UNCHANGED <<last, headVars, sumVars, length, offset, winVars, tabVars, callVars, left, fast,
                 ret, req, hist, valid, faults>>

\* an invalid literal/length code of n bits
LenBad(n) ==
  /\ pc = "run" /\ fast = "no" /\ mode \in {"LEN_", "LEN"} /\ ~FastAllowed
  /\ sym.k = "none" /\ Enough(n)
  /\ Take(n)
  /\ SetBad("bad")
  /\ UNCHANGED <<last, headVars, sumVars, length, offset, extra, winVars, tabVars, callVars, left,
                 fast, ret, pc, sym, req, hist, faults>>

\* case LENEXT; n: base and extra bits together
LenExt(n) ==
  /\ Running("LENEXT") /\ Enough(extra)
  /\ hist + n <= MaxHist
  /\ Take(extra)
  /\ length' = n /\ extra' = 0
  /\ mode' = "DIST"
  /\ UNCHANGED <<last, headVars, sumVars, offset, winVars, tabVars, callVars, left,
                 fast, ret, pc, sym, req, hist, valid, faults>>

\* case DIST; c: a distance code and its extra bits
Dist(c) ==
  /\ Running("DIST")
  /\ sym.k # "none" => c = <<sym.n, sym.x>>
  /\ IF Enough(c[1])
     THEN Take(c[1]) /\ Stay /\ sym' = NoSym /\ extra' = c[2] /\ mode' = "DISTEXT"
     ELSE Starve /\ sym' = [k |-> "dist", n |-> c[1], x |-> c[2]] /\ UNCHANGED <<extra, mode>>
  /\ UNCHANGED <<last, headVars, sumVars, length, offset, winVars, tabVars, callVars, left,
                 fast, ret, req, hist, valid, faults>>

DistBad(n) ==
  /\ Running("DIST") /\ sym.k = "none" /\ Enough(n)
  /\ Take(n)
  /\ SetBad("bad")
  /\ UNCHANGED <<last, headVars, sumVars, codeVars, winVars, tabVars, callVars, left, fast, ret,
                 pc, sym, req, hist, faults>>

\* What has to become of distance d: beyond the history it is refused, within the
\* window it is accepted, in between inflate may do either.
Judge(d, h) == IF d > h THEN "bad"
               ELSE IF d > WindowOf[wbits] /\ valid = "ok" THEN "open" ELSE valid

\* case DISTEXT
DistExt(d) ==
  /\ Running("DISTEXT") /\ Enough(extra)
  /\ Take(extra)
  /\ offset' = d /\ extra' = 0 /\ valid' = Judge(d, hist)
  /\ mode' = "MATCH"
  /\ UNCHANGED <<last, headVars, sumVars, length, winVars, tabVars, callVars, left,
                 fast, ret, pc, sym, req, hist, faults>>

\* Mutant: bytes left at the window's end are not told from those before wnext.
MatchFromFlat(d) == [from |-> wnext - d, n |-> d]
\* where a match d bytes back in the window starts, and how far it is contiguous
MatchFrom(d) == IF d > wnext THEN [from |-> wsize - (d - wnext), n |-> d - wnext]
                             ELSE [from |-> wnext - d, n |-> d]

\* window bytes from, from+1, ... are not the n bytes of the history after index at
Misread(from, at, n) ==
  \E i \in 0..(n - 1) : from + i \notin DOMAIN window \/ window[from + i] # at + i

\* case MATCH
Match ==
  LET made == out - left
      d    == offset - made
      w    == MatchFrom(d)
      copy == IF d > 0 THEN Min2(w.n, Min2(length, left)) ELSE Min2(length, left)
  IN
  /\ Running("MATCH")
  /\ \/ left = 0 /\ Leave /\ UNCHANGED <<mode, length, offset, left, hist, put, valid, faults>>
     \/ /\ left > 0 /\ d > 0 /\ d > whave
        /\ SetBad(valid) /\ Stay /\ UNCHANGED <<length, offset, left, hist, put, faults>>
     \/ /\ left > 0 /\ (d > 0 => d <= whave)
        /\ faults' = faults \cup Fault(d > 0 /\ Misread(w.from, hist - offset, copy), "misread")
        /\ PutBytes(copy) /\ length' = length - copy
        /\ mode' = IF length = copy THEN "LEN" ELSE "MATCH"
        /\ offset' = IF length = copy THEN 0 ELSE offset
        /\ Stay /\ UNCHANGED valid
  /\ UNCHANGED <<last, headVars, check, total, extra, winVars, bits, tabVars, callVars,
                 have, fast, ret, sym, req>>

\* case LIT
Lit ==
  /\ Running("LIT")
  /\ \/ left = 0 /\ Leave /\ UNCHANGED <<mode, left, hist, put>>
     \/ left > 0 /\ PutBytes(1) /\ mode' = "LEN" /\ Stay
  /\ UNCHANGED <<last, headVars, check, total, codeVars, winVars, bits, tabVars, callVars, have,
                 fast, ret, sym, req, valid, faults>>

----------------------------------------------------------------------------
(* inflate_fast and inflate_fast_safe; their counters are those of          *)
(* InflateFast.                                                             *)

Counters == [bits |-> bits, have |-> have, left |-> left, faults |-> {}]

\* case LEN, the call of inflate_fast, up to its first refill
FastEnter ==
  LET s == FastStart(bits, have, left)
  IN
  /\ pc = "run" /\ fast = "no" /\ mode \in {"LEN_", "LEN"} /\ FastAllowed
  /\ mode' = "LEN"
  /\ fast' = FastKind(left)
  /\ bits' = s.bits /\ have' = s.have /\ faults' = faults \cup s.faults
  /\ UNCHANGED <<last, headVars, sumVars, codeVars, winVars, tabVars, callVars, left, ret, pc,
                 sym, req, hist, valid>>

\* The end of an iteration in state s and mode m: around again, or return.
FastClose(s, m) ==
  LET stop == FastStops(s, fast, m)
      t    == IF stop THEN FastReturn(s) ELSE s
  IN
  /\ mode' = m
  /\ fast' = IF stop THEN "no" ELSE fast
  /\ bits' = t.bits /\ have' = t.have /\ left' = t.left

\* The code begun in an earlier call is decoded first.
Resumes(c, k, n, x) ==
  sym.k # "none" => IF c = <<>> THEN sym = [k |-> k, n |-> n, x |-> x]
                                ELSE sym.k = "lit" /\ sym.n = c[1]

Iterates(c) == pc = "run" /\ fast # "no" /\ hist + Len(c) <= MaxHist

\* an iteration of literals only
FastLits(c) ==
  LET s == FastTop(Counters, c)
  IN
  /\ Iterates(c) /\ Complete(c)
  /\ Resumes(c, "lit", 0, 0) /\ sym' = NoSym
  /\ FastClose(s, "LEN")
  /\ hist' = hist + Len(c) /\ put' = put + Len(c)
  /\ faults' = faults \cup s.faults
  /\ UNCHANGED <<last, headVars, check, total, length, offset, extra, winVars, tabVars, callVars,
                 ret, pc, req, valid>>

\* an iteration that ends in an end-of-block code (good) or an invalid code of n bits
FastEnd(c, n, good) ==
  LET s == Drop(FastTop(Counters, c), n)
  IN
  /\ Iterates(c) /\ ~Complete(c)
  /\ Resumes(c, IF good THEN "end" ELSE "bad", n, 0) /\ sym' = NoSym
  /\ FastClose(s, IF good THEN "TYPE" ELSE "BAD")
  /\ valid' = IF good THEN valid ELSE "bad"
  /\ hist' = hist + Len(c) /\ put' = put + Len(c)
  /\ faults' = faults \cup s.faults
  /\ UNCHANGED <<last, headVars, check, total, length, offset, extra, winVars, tabVars, callVars,
                 ret, pc, req>>

\* an invalid distance code of n bits after length code l
FastDistBad(c, l, n) ==
  LET s == Drop(FastLen(FastTop(Counters, c), l[1] + l[2]), n)
  IN
  /\ Iterates(c) /\ ~Complete(c) /\ hist + Len(c) < MaxHist
  /\ Resumes(c, "len", l[1], l[2]) /\ sym' = NoSym
  /\ FastClose(s, "BAD")
  /\ valid' = "bad"
  /\ hist' = hist + Len(c) /\ put' = put + Len(c)
  /\ faults' = faults \cup s.faults
  /\ UNCHANGED <<last, headVars, check, total, length, offset, extra, winVars, tabVars, callVars,
                 ret, pc, req>>

\* Window index of byte i of a match op bytes back in the window, -1 when the
\* byte comes from the output.
FastSource(op, i) ==
  CASE wnext = 0  -> IF i < op THEN wsize - op + i ELSE -1
    [] wnext > 0 /\ wnext >= op -> IF i < op THEN wnext - op + i ELSE -1
    [] OTHER -> IF i < op - wnext THEN wsize - (op - wnext) + i
                ELSE IF i < op THEN i - (op - wnext) ELSE -1

\* one of n bytes copied from op bytes back in the window is not the byte of the
\* history after index at
FastMisread(op, at, n) ==
  op > 0 /\ \E i \in 0..(n - 1) :
    FastSource(op, i) >= 0 /\ window[FastSource(op, i)] # at + i

\* an iteration that ends in a match: n bytes, d back; l, e: its two codes
FastMatch(c, l, n, e, d) ==
  LET s     == Drop(FastLen(FastTop(Counters, c), l[1] + l[2]), e[1] + e[2])
      h     == hist + Len(c)
      op    == d - (out - s.left)          \* distance back in the window
      short == fast = "safe" /\ n > s.left
      far   == op > 0 /\ op > whave
      n2    == IF short \/ far THEN 0 ELSE n
      t     == Emit(s, n2)
  IN
  /\ Iterates(c) /\ ~Complete(c) /\ h + n <= MaxHist
  /\ Resumes(c, "len", l[1], l[2]) /\ sym' = NoSym
  /\ FastClose(t, IF short THEN "MATCH" ELSE IF far THEN "BAD" ELSE "LEN")
  /\ length' = IF short THEN n ELSE length
  /\ offset' = IF short THEN d ELSE offset
  /\ valid' = Judge(d, h)
  /\ hist' = h + n2 /\ put' = put + Len(c) + n2
  /\ faults' = faults \cup t.faults \cup Fault(FastMisread(op, h - d, n2), "misread")
  /\ UNCHANGED <<last, headVars, check, total, extra, winVars, tabVars, callVars, ret, pc, req>>

----------------------------------------------------------------------------
(* The trailer, and inf_leave.                                             *)

\* case CHECK; good: the trailer holds the check value of what was compressed
Check(good) ==
  LET made == out - left
      sum  == IF "check" \in wrap THEN Summed(check, put - made, put) ELSE check
      pass == wrap = {} \/ "check" \notin wrap \/ (good /\ sum = [of |-> "data", n |-> put])
  IN
  /\ Running("CHECK") /\ EnoughNow("CHECK")
  /\ wrap = {} => good
  /\ IF wrap = {} THEN UNCHANGED <<total, out, check, have, bits>>
     ELSE /\ total' = total + made /\ out' = left /\ check' = sum
          /\ IF pass THEN TakeAll(32) ELSE Need(32, 0)
  /\ mode' = IF pass THEN "LENGTH" ELSE "BAD"
  /\ valid' = IF good THEN valid ELSE "bad"
  /\ UNCHANGED <<last, headVars, put, codeVars, winVars, tabVars, flush, in, left, fast, ret, pc,
                 sym, req, hist, faults>>

\* case LENGTH; good: the trailer holds the length of what was compressed
Length(good) ==
  LET there == BitsOf("LENGTH") > 0
      pass  == ~there \/ "check" \notin wrap \/ (good /\ total = put)
  IN
  /\ Running("LENGTH") /\ EnoughNow("LENGTH")
  /\ ~there => good
  /\ IF ~there THEN UNCHANGED <<have, bits>>
     ELSE IF pass THEN TakeAll(32) ELSE Need(32, 0)
  /\ mode' = IF pass THEN "DONE" ELSE "BAD"
  /\ valid' = IF good THEN valid ELSE "bad"
  /\ UNCHANGED <<last, headVars, sumVars, codeVars, winVars, tabVars, callVars, left, fast, ret,
                 pc, sym, req, hist, faults>>

\* cases DONE and BAD
Over ==
  /\ pc = "run" /\ fast = "no" /\ mode \in {"DONE", "BAD"}
  /\ ret' = IF mode = "DONE" THEN "end" ELSE "data"
  /\ Leave
  /\ UNCHANGED <<mode, last, headVars, sumVars, codeVars, winVars, bits, tabVars, callVars,
                 ioVars, fast, sym, req, hist, valid, faults>>

\* Mutant: a finishing caller is trusted not to come back.
KeepsWindowTrusting(made) ==
  wsize # 0 \/ (made > 0 /\ mode # "BAD" /\ flush # "finish")
\* inf_leave: whether the output has to be kept in the window
KeepsWindow(made) ==
  \/ wsize # 0
  \/ /\ made > 0 /\ mode # "BAD"
     /\ mode \notin {"CHECK", "LENGTH", "DONE"} \/ flush # "finish"

NoProgress(made) == in = have /\ made = 0

\* Mutant: updatewindow is thought to hash every output byte.
SumsLateNever(keep) == FALSE
\* when no window is used the output is hashed here, if CHECK did not do it
SumsLate(keep) == ret = "ok" /\ flush = "finish" /\ ~keep

\* inf_leave
InfLeave ==
  LET made  == out - left
      keep  == KeepsWindow(made)
      stuck == ret = "ok" /\ (NoProgress(made) \/ flush = "finish")
  IN
  /\ pc = "leave"
  /\ IF keep THEN UpdateWindow(made, hist) ELSE UNCHANGED <<wsize, whave, wnext, window>>
  /\ check' = IF (keep /\ "check" \in wrap) \/ SumsLate(keep) THEN Summed(check, put - made, put)
              ELSE check
  /\ total' = total + made
  /\ ret' = "ok"                \* returned: Z_BUF_ERROR if stuck, else ret
  /\ faults' = faults
       \cup Fault(stuck /\ flush = "none" /\ in > 0 /\ out > 0, "stall")
       \cup Fault(have > in, "rewind")
  /\ pc' = "idle" /\ flush' = "none" /\ in' = 0 /\ out' = 0 /\ have' = 0 /\ left' = 0
  /\ UNCHANGED <<mode, last, headVars, put, codeVars, wbits, bits, tabVars, fast, sym, req, hist,
                 valid>>

----------------------------------------------------------------------------
Caller ==
  \/ InflateResetKeep \/ InflateReset \/ \E r \in Requests : InflateReset2(r)
  \/ \E n \in PrimeSizes : InflatePrime(n)
  \/ InflatePrimeClear \/ InflateValidateOff \/ InflateGetHeader \/ InflateCopy
  \/ \E n \in DictSizes : InflateSetDictionary(n)
  \/ \E b, h \in SyncBytes : InflateSync(b, h)
  \/ \E c \in Calls : Call(c[1], c[2], c[3])

Header ==
  \/ HeadRaw \/ HeadGzip \/ HeadBad \/ FlagsBad \/ TimeOrOS \/ Extra
  \/ \E len \in 1..(MaxWBits + 1), dict \in BOOLEAN : HeadZlib(len, dict)
  \/ \E f \in GzFlags : Flags(f)
  \/ \E n \in ExtraLens \cup {0} : Exlen(n)
  \/ \E r \in TextLens \cup {sym.n} : Text("NAME", "name", r)
  \/ \E r \in TextLens \cup {sym.n} : Text("COMMENT", "comment", r)
  \/ NoText("NAME", "name") \/ NoText("COMMENT", "comment")
  \/ \E good \in BOOLEAN : Hcrc(good)
  \/ DictId \/ NeedDict \/ HaveDict

Blocks ==
  \/ Type \/ LastBlock \/ StoredBad \/ Copy \/ TableBad
  \/ \E final \in BOOLEAN, kind \in {"stored", "fixed", "dynamic", "bad"} :
       BlockHeader(final, kind)
  \/ \E n \in StoredLens : Stored(n)
  \/ \E c \in NCodes, n \in NLens : Table(c, n)
  \/ \E good \in BOOLEAN : LenLens(good) \/ Tables(good)
  \/ \E s \in LengthSyms : CodeLen(s)

Codes ==
  \/ \E s \in Symbols \cup (IF sym.k = "none" THEN {} ELSE {sym}) : Len_(s)
  \/ \E n \in EndCodes : LenBad(n) \/ DistBad(n)
  \/ \E n \in Lengths : LenExt(n)
  \/ \E c \in DistCodes : Dist(c)
  \/ \E d \in Offsets : DistExt(d)
  \/ Match \/ Lit

Fast ==
  \/ FastEnter
  \/ \E c \in LitRuns(LitCodes) : FastLits(c)
  \/ \E c \in LitRuns(LitCodes), n \in EndCodes, good \in BOOLEAN : FastEnd(c, n, good)
  \/ \E c \in LitRuns(LitCodes), l \in LenCodes, n \in Lengths, e \in DistCodes, d \in Offsets :
       FastMatch(c, l, n, e, d)
  \/ \E c \in LitRuns(LitCodes), l \in LenCodes, n \in EndCodes : FastDistBad(c, l, n)

Trailer ==
  \/ \E good \in BOOLEAN : Check(good) \/ Length(good)
  \/ Over

\* The steps of a call under way
Step == NeedBitsLeaves \/ Header \/ Blocks \/ Codes \/ Fast \/ Trailer \/ InfLeave

Next == Caller \/ Step

Spec == Init /\ [][Next]_vars

----------------------------------------------------------------------------
(* Properties.                                                             *)

TypeOK ==
  /\ mode \in Modes /\ pc \in {"idle", "run", "leave"} /\ fast \in {"no", "full", "safe"}
  /\ ret \in {"ok", "end", "data"}
  /\ wrap \subseteq {"zlib", "gzip", "check"} /\ wbits \in 0..(MaxWBits + 1)
  /\ wsize \in {0} \cup {WindowOf[w] : w \in 0..MaxWBits} /\ whave \in 0..wsize
  /\ wnext \in 0..wsize /\ (wsize > 0 => wnext < wsize)
  /\ bits \in 0..63 /\ (fast = "no" => bits <= 39)
  /\ have \in Nat /\ left \in 0..out /\ total \in 0..put
  /\ lens \in 0..316 /\ (mode = "LENLENS" => lens <= 19) /\ (mode = "CODELENS" => lens <= nlen)

(* Between calls the window holds the end of the history in order: all of   *)
(* it, or as much as the window is large, unless the stream is over.        *)
(* updatewindow writes it in up to two pieces; inflateGetDictionary and the *)
(* next call's matches read it.                                             *)
HistoryInWindow ==
  pc = "idle" /\ mode \in HeadModes \cup BlockModes =>
    /\ Dictionary = [i \in 1..whave |-> hist - whave + i - 1]
    /\ whave = Min2(hist, WSizeNow)

(* However a stream is cut into calls, inflate refuses only what a decoder  *)
(* has to refuse (BAD), with the check on reaches DONE only if the check    *)
(* value and the length cover every output byte once and in order, and      *)
(* without Z_FINISH answers Z_BUF_ERROR only if the caller gave no input or *)
(* no space (or asked to stop at a block).                                  *)
Verdict ==
  /\ mode = "BAD" => valid # "ok"
  /\ mode = "DONE" /\ "check" \in wrap => valid # "bad"
  /\ "stall" \notin faults

(* Every byte a match copies out of the circular window is the byte dist    *)
(* positions back in the output, in MATCH and in the two pieces             *)
(* inflate_fast copies.                                                     *)
CopiesRight == "misread" \notin faults

(* Types, and the margins inflate_fast relies on suffice: no lookup with    *)
(* too few bits, no refill beyond the input, no byte beyond the output, no  *)
(* return of bytes that were not the caller's; and inflateSync's buf[4] is  *)
(* enough, and wnext never stays at the end of the window.                  *)
FastMargins ==
  TypeOK /\ faults \cap {"nobits", "overread", "overrun", "rewind", "syncbuf"} = {}

(* A gzip header that arrives in pieces is saved in the caller's gz_header  *)
(* as if it had come at once, up to the sizes the caller set.               *)
HeaderSaved ==
  head.on /\ head.done = 1 =>
    /\ "extra" \in flags.f => head.extra = Min2(head.exlen, ExtraMax)
    /\ "name" \in flags.f => \E r \in TextLens : head.name = Min2(r, TextMax)
    /\ "comment" \in flags.f => \E r \in TextLens : head.comment = Min2(r, TextMax)
=============================================================================
