--------------------------- MODULE DeflateWindow ---------------------------
(***************************************************************************)
(* The sliding window of deflate: who moves strstart, lookahead,           *)
(* block_start, fill_end, insert and high_water, and when the window may   *)
(* slide, restart or be refilled.                                          *)
(*                                                                         *)
(* Bytes are not represented.  The window is the set of indices into       *)
(* s->window that deflate keeps; the ghost variables count, independently  *)
(* of those indices, what the bytes stand for:                             *)
(*   owed    - input bytes read and not yet part of an emitted block,      *)
(*   tallied - input bytes the symbols of the open block stand for,        *)
(*   hist    - bytes a match may refer to, saturating at MaxDist,          *)
(*   head_ok, prev_ok - the hash heads / chains denote positions of the    *)
(*             present window layout (FALSE: of a layout that is gone).    *)
(*                                                                         *)
(* A call of the API starts in pc = "idle" and runs to "idle" again; each  *)
(* step between is one pass of a loop of the C code.                       *)
(***************************************************************************)
EXTENDS Integers

CONSTANTS
  W,           \* s->w_size
  Mult,        \* s->window_size = Mult * W (W_BUF_SIZE)
  MinMatch,    \* STD_MIN_MATCH
  WantMinMatch,\* WANT_MIN_MATCH, the shortest match most levels take
  MaxMatch,    \* STD_MAX_MATCH, also WIN_INIT
  SymEnd,      \* symbols that force a block out (s->sym_end)
  Hdr,         \* bytes of a stored block header in the output
  PendBuf,     \* s->pending_buf_size
  MaxStored,   \* MAX_STORED
  Configs,     \* the pairs of a level and a strategy the caller uses
  InSizes, OutSizes,         \* avail_in and avail_out a call may be given
  DictSizes,                 \* dictionary lengths the caller may set
  Raw,         \* s->wrap = 0 (otherwise a zlib stream, wrap = 1)
  DictRule     \* "contract": deflateSetDictionary is called where zlib-ng.h
               \* allows it; "unchecked": wherever the code accepts it

Levels     == {c.level : c \in Configs}
Strategies == {c.strategy : c \in Configs}

MinLookahead == MaxMatch + MinMatch + 1
MaxDist      == W - MinLookahead
WindowSize   == Mult * W

ASSUME SizeAssumption ==
  /\ W \in Nat /\ Mult \in Nat /\ MinMatch \in Nat /\ MaxMatch \in Nat
  /\ Mult >= 2 /\ MinMatch >= 2 /\ MaxMatch >= MinMatch
  /\ WantMinMatch \in MinMatch..MaxMatch
  /\ W > MinLookahead
ASSUME BlockAssumption ==
  /\ SymEnd \in Nat /\ SymEnd >= 1
  /\ Hdr \in Nat /\ PendBuf \in Nat /\ MaxStored \in Nat
  /\ Hdr >= 1 /\ PendBuf > Hdr /\ MaxStored >= 1
ASSUME CallAssumption ==
  /\ Configs \subseteq [level : 0..9, strategy : {"default", "huff", "rle"}]
  /\ InSizes \subseteq Nat /\ OutSizes \subseteq Nat \ {0}
  /\ DictSizes \subseteq Nat \ {0}
  /\ Raw \in BOOLEAN /\ DictRule \in {"contract", "unchecked"}

VARIABLES
  level, strategy,                          \* s->level, s->strategy
  strstart, lookahead, block_start, fill_end, insert, high_water,
  match_start, prev_length, match_available,
  next_match,                               \* deflate_medium's, while its call runs
  sym_next,                                 \* symbols tallied in this block
  avail_in, avail_out,                      \* of the call under way
  flush, used,                              \* its flush argument; deflate_stored's used
  call, want,                               \* the API call, deflateParams' arguments
  lastcall,                                 \* "init" is last_flush = -2
  finished,                                 \* FINISH_STATE
  pc,
  owed, tallied, hist, head_ok, prev_ok     \* ghosts

posVars   == <<strstart, lookahead, block_start, fill_end, insert, high_water>>
lazyVars  == <<match_start, prev_length, match_available, next_match>>
paramVars == <<level, strategy, want>>
chainVars == <<head_ok, prev_ok>>
vars == <<level, strategy, strstart, lookahead, block_start, fill_end, insert,
          high_water, match_start, prev_length, match_available, next_match, sym_next,
          avail_in, avail_out, flush, used, call, want, lastcall, finished, pc,
          owed, tallied, hist, head_ok, prev_ok>>

Min2(a, b) == IF a <= b THEN a ELSE b
Max2(a, b) == IF a >= b THEN a ELSE b

----------------------------------------------------------------------------
(* Levels and strategies.                                                  *)

\* configuration_table[level].func in the default build.
Func(l) == CASE l = 0 -> "stored" [] l = 1 -> "quick" [] l = 2 -> "fast"
             [] l \in 3..4 -> "medium" [] l \in 5..6 -> "fizzle"
             [] OTHER -> "slow"

\* Configurations that never read the hash table.
Hashless(l, s) == l = 0 \/ s \in {"huff", "rle"}

\* The compressor deflate() dispatches to.
Method == IF level = 0 THEN "stored"
          ELSE IF strategy \in {"huff", "rle"} THEN strategy
          ELSE Func(level)

\* The lookahead a compressor wants before it looks at the next string.
Need == CASE Method = "huff" -> 1
          [] Method = "rle"  -> MaxMatch + 1
          [] OTHER           -> MinLookahead

\* deflate_medium's struct match; length 0 stands for no match, 1 for a literal.
Match(at, from, n) == [strstart |-> at, match_start |-> from, match_length |-> n]
NoMatch == Match(0, 0, 0)
Matches == [strstart : Nat, match_start : Nat, match_length : 0..MaxMatch]

----------------------------------------------------------------------------
(* deflateInit2 / deflateReset: lm_init, and init_block through tr_init.   *)

\* Mutant: the lookahead of the old stream stays.
LmInitKeepsLookahead(l, s) ==
  [strstart |-> 0, lookahead |-> lookahead, block_start |-> 0, insert |-> 0,
   fill_end |-> 2 * W - MinLookahead, chain |-> ~Hashless(l, s)]

LmInit(l, s) ==
  [strstart |-> 0, lookahead |-> 0, block_start |-> 0, insert |-> 0,
   fill_end |-> 2 * W - MinLookahead, chain |-> ~Hashless(l, s)]

Init ==
  /\ \E c \in Configs : level = c.level /\ strategy = c.strategy
  /\ strstart = 0 /\ lookahead = 0 /\ block_start = 0 /\ insert = 0
  /\ fill_end = LmInit(level, strategy).fill_end
  /\ high_water = 0
  /\ match_start = 0 /\ prev_length = 0 /\ match_available = FALSE
  /\ next_match = NoMatch /\ sym_next = 0 /\ avail_in = 0 /\ avail_out = 0
  /\ flush = "no" /\ used = 0 /\ call = "none"
  /\ want = [level |-> level, strategy |-> strategy]
  /\ lastcall = "init" /\ finished = FALSE /\ pc = "idle"
  /\ owed = 0 /\ tallied = 0 /\ hist = 0
  /\ head_ok = LmInit(level, strategy).chain
  /\ prev_ok = LmInit(level, strategy).chain

DeflateReset ==
  /\ pc = "idle"
  /\ LET i == LmInit(level, strategy) IN
       /\ strstart' = i.strstart /\ lookahead' = i.lookahead
       /\ block_start' = i.block_start /\ insert' = i.insert
       /\ fill_end' = i.fill_end
       /\ head_ok' = i.chain /\ prev_ok' = i.chain
  /\ match_start' = 0 /\ prev_length' = 0 /\ match_available' = FALSE
  /\ sym_next' = 0 /\ lastcall' = "init" /\ finished' = FALSE
  /\ owed' = 0 /\ tallied' = 0 /\ hist' = 0
  /\ UNCHANGED <<high_water, next_match, paramVars, avail_in, avail_out, flush,
                 used, call, pc>>

----------------------------------------------------------------------------
(* Calls and returns.                                                      *)

\* deflate() reaches the compressor: it has input, lookahead or a flush.
Start(n, o, f) ==
  /\ avail_in' = n /\ avail_out' = o /\ flush' = f /\ used' = 0
  /\ pc' = IF level = 0 THEN "copy" ELSE "loop"

Deflate(n, o, f) ==
  /\ pc = "idle" /\ ~finished
  /\ n # 0 \/ lookahead # 0 \/ f # "no"
  /\ Start(n, o, f)
  /\ call' = "deflate" /\ lastcall' = "more"
  /\ UNCHANGED <<posVars, lazyVars, paramVars, sym_next, finished,
                 owed, tallied, hist, chainVars>>

\* The call under way is over; deflateParams goes on after its deflate().
Return(lc) ==
  /\ lastcall' = lc
  /\ pc' = IF call = "params" THEN "params" ELSE "idle"
  /\ call' = IF call = "params" THEN "params" ELSE "none"
  /\ UNCHANGED <<flush, used>>

\* What a return to the caller leaves of avail_in: deflateParams looks at it,
\* otherwise the rest of the input is the caller's again.
LeftIn == IF call = "params" THEN avail_in ELSE 0

----------------------------------------------------------------------------
(* fill_window.                                                            *)

CallFill ==
  /\ pc = "loop" /\ lookahead < Need
  /\ pc' = "fill"
  /\ UNCHANGED <<posVars, lazyVars, paramVars, sym_next, avail_in, avail_out,
                 flush, used, call, lastcall, finished, owed, tallied, hist, chainVars>>

\* Mutants: a slide one position too early; slides that keep too little; a
\* refill only when empty.
FillEndAt == IF strstart >= fill_end THEN fill_end + W ELSE fill_end
SlidesEarly == (IF strstart >= fill_end THEN fill_end + W ELSE fill_end) >= WindowSize - MinLookahead
Slides    == FillEndAt > WindowSize - MinLookahead
SlideWhole == WindowSize
SlideAll  == strstart - (strstart % W)
SlideLen  == (strstart - MaxDist) - ((strstart - MaxDist) % W)
Slid      == IF Slides THEN SlideLen ELSE 0
\* Free space a read may use; in C an unsigned that wraps when negative.
More      == (FillEndAt - Slid) + MinLookahead - lookahead - (strstart - Slid)
ReadIfEmpty == IF lookahead > 0 THEN 0 ELSE Min2(avail_in, More)
ReadLen   == IF More < 0 THEN avail_in ELSE Min2(avail_in, More)

\* The zeroed area past the data: high_water after the loop, data ending at curr.
HighWater(curr) ==
  IF high_water >= WindowSize THEN high_water
  ELSE IF high_water < curr THEN curr + Min2(MaxMatch, WindowSize - curr)
  ELSE Max2(high_water, Min2(curr + MaxMatch, WindowSize))

\* Mutant: the match start stays where it was.
MatchStartKept(q) == match_start
\* A deferred match moves with the window; one whose start slides out is given up.
MatchStartAt(q) == IF match_start >= q THEN match_start - q ELSE 0
KeptLength(q) == IF match_start >= q THEN prev_length ELSE 0

FillWindow ==
  /\ pc = "fill"
  /\ LET q   == Slid
         n   == ReadLen
         ins == IF Slides THEN Min2(insert, strstart - q) ELSE insert
         la  == lookahead + n
         again == la < MinLookahead /\ avail_in > n
     IN
       /\ fill_end' = FillEndAt - q
       /\ strstart' = strstart - q
       /\ block_start' = block_start - q
       /\ match_start' = MatchStartAt(q)
       /\ prev_length' = KeptLength(q)
       /\ head_ok' = (head_ok /\ (Slides => ~Hashless(level, strategy)))
       /\ prev_ok' = (prev_ok /\ (Slides => ~Hashless(level, strategy) /\ level # 1))
       /\ lookahead' = la
       /\ avail_in' = avail_in - n
       /\ owed' = IF call = "dict" THEN owed ELSE owed + n
       /\ insert' = IF avail_in # 0 /\ ~Hashless(level, strategy) /\ la + ins >= MinMatch
                    THEN (IF la = 1 THEN 1 ELSE 0) ELSE ins
       /\ high_water' = IF again THEN high_water ELSE HighWater(strstart - q + la)
       /\ pc' = IF again THEN "fill" ELSE IF call = "dict" THEN "dict" ELSE "filled"
  /\ UNCHANGED <<match_available, next_match, paramVars, sym_next, avail_out, flush,
                 used, call, lastcall, finished, tallied, hist>>

----------------------------------------------------------------------------
(* The compressors that use lookahead: deflate_huff, _rle, _quick, _fast,  *)
(* _medium and _slow.                                                      *)

\* The compressor may take the next symbol out of the lookahead.
Ready == \/ pc = "loop" /\ lookahead >= Need
         \/ pc = "filled" /\ lookahead > 0 /\ (lookahead >= Need \/ flush # "no")

\* if (lookahead < ... && flush == Z_NO_FLUSH) return need_more;
NeedMore ==
  /\ pc = "filled" /\ flush = "no" /\ lookahead < Need
  /\ Return("more")
  /\ avail_in' = LeftIn /\ next_match' = NoMatch
  /\ UNCHANGED <<posVars, match_start, prev_length, match_available, paramVars, sym_next,
                 avail_out, finished, owed, tallied, hist, chainVars>>

\* if (lookahead == 0) break;
EndOfInput ==
  /\ pc = "filled" /\ flush # "no" /\ lookahead = 0
  /\ pc' = "end" /\ next_match' = NoMatch
  /\ UNCHANGED <<posVars, match_start, prev_length, match_available, paramVars, sym_next,
                 avail_in, avail_out, flush, used, call, lastcall, finished, owed,
                 tallied, hist, chainVars>>

\* The output space when pending output has been handed over: all used up, or
\* not.  How much is left is never looked at again in the same call.
SpaceLeft == {0, avail_out}

\* One more symbol for n input bytes, and FLUSH_BLOCK when the buffer is full.
TallyAndFlush(n, end) ==
  IF sym_next + 1 < SymEnd
  THEN /\ sym_next' = sym_next + 1 /\ tallied' = tallied + n
       /\ UNCHANGED <<block_start, owed, avail_out>>
  ELSE /\ sym_next' = 0 /\ tallied' = 0
       /\ block_start' = end /\ owed' = owed - (tallied + n)
       /\ avail_out' \in SpaceLeft

\* After a symbol: on to the next one, or out with need_more.
NextOrOut ==
  \/ /\ avail_out' > 0 /\ pc' = "loop"
     /\ UNCHANGED <<call, lastcall, flush, used, avail_in>>
  \/ /\ avail_out' = 0 /\ Return("more") /\ avail_in' = LeftIn

\* n bytes of the lookahead become one symbol.
Consume(n) ==
  /\ n <= Min2(MaxMatch, lookahead)
  /\ strstart' = strstart + n /\ lookahead' = lookahead - n
  /\ hist' = Min2(hist + n, MaxDist)
  /\ TallyAndFlush(n, strstart + n)
  /\ NextOrOut
  /\ UNCHANGED <<fill_end, insert, high_water, match_start, prev_length,
                 match_available, paramVars, finished, head_ok>>

\* deflate_huff: literals only.
HuffStep ==
  /\ Ready /\ Method = "huff"
  /\ Consume(1) /\ UNCHANGED <<next_match, prev_ok>>

\* deflate_rle: a literal or a run of the byte before strstart.
RleStep(n) ==
  /\ Ready /\ Method = "rle"
  /\ n > 1 => n >= MinMatch /\ strstart > 0
  /\ Consume(n) /\ UNCHANGED <<next_match, prev_ok>>

\* deflate_quick, tallying: index 0 is a candidate like any other, and only
\* the heads are maintained.
QuickStep(n) ==
  /\ Ready /\ Method = "quick"
  /\ n > 1 => n >= WantMinMatch /\ strstart > 0
  /\ Consume(n) /\ prev_ok' = FALSE /\ UNCHANGED next_match

\* deflate_fast and its continuations of a longest match: a match does not
\* start at index 0.
FastStep(n) ==
  /\ Ready /\ Method = "fast"
  /\ n > 1 => n >= WantMinMatch /\ strstart > 1
  /\ Consume(n) /\ UNCHANGED <<next_match, prev_ok>>

\* find_best_match at p: a literal, or what longest_match found at a distance of
\* up to MaxDist, a match never starting at index 0.  The length is held to
\* s->lookahead, which counts from strstart wherever the search starts.
BestMatches(p) ==
  {Match(p, 0, 1)} \cup
  {Match(p, p - d, n) : d \in 1..Min2(MaxDist, p - 1),
                        n \in WantMinMatch..Min2(MaxMatch, lookahead)}

\* The match found ahead in the round before, unless fill_window ran since: its
\* length was held to a lookahead that counted the bytes before it too.
Future == IF pc = "filled" THEN NoMatch ELSE next_match

\* current_match.
Currents == IF Future.match_length > 0 THEN {Future} ELSE BestMatches(strstart)

\* Mutant: the end of the window is not asked for.
LooksAheadPastEnd(cur) ==
  /\ Method = "fizzle" /\ cur.match_length # MaxMatch
  /\ lookahead > MinLookahead
\* Levels 5 and 6 search again behind the current match.
LooksAhead(cur) ==
  /\ Method = "fizzle" /\ cur.match_length # MaxMatch
  /\ lookahead > MinLookahead
  /\ cur.strstart + cur.match_length < fill_end

\* fizzle_matches: nxt grows backwards by k bytes over cur, which keeps at most
\* one, as far as the distance limit, the length and the start of the window let it.
FizzleSteps(nxt) ==
  Min2(Min2(nxt.strstart, MaxDist), Min2(MaxMatch - nxt.match_length, nxt.match_start - 1))
Fizzles(cur, nxt) ==
  IF cur.match_length = 1 \/ nxt.match_length < WantMinMatch THEN {}
  ELSE {k \in {cur.match_length - 1, cur.match_length} : k <= FizzleSteps(nxt)}
\* Mutant: the match grows, but still claims to start where it was found.
GrownInPlace(m, k) == Match(m.strstart, m.match_start - k, m.match_length + k)
GrownBack(m, k) == Match(m.strstart - k, m.match_start - k, m.match_length + k)

\* n bytes become a symbol; m is the match to go on with, if the call goes on.
EmitMatch(n, m) ==
  /\ Consume(n)
  /\ next_match' = IF pc' = "loop" THEN m ELSE NoMatch
  /\ UNCHANGED prev_ok

\* The current match is absorbed whole: no symbol, the next round emits m.
Absorbed(m) ==
  /\ next_match' = m /\ pc' = "loop"
  /\ UNCHANGED <<posVars, match_start, prev_length, match_available, paramVars,
                 sym_next, avail_in, avail_out, flush, used, call, lastcall,
                 finished, owed, tallied, hist, chainVars>>

\* deflate_medium: one round, with the look ahead and the fizzling of levels 5
\* and 6; its continuations of a longest match are rounds of their own.
MediumStep(cur) ==
  /\ Ready /\ Method \in {"medium", "fizzle"}
  /\ \/ ~LooksAhead(cur) /\ EmitMatch(cur.match_length, NoMatch)
     \/ /\ LooksAhead(cur)
        /\ \E nxt \in BestMatches(cur.strstart + cur.match_length) :
             \/ EmitMatch(cur.match_length, nxt)
             \/ \E k \in Fizzles(cur, nxt) :
                  IF k < cur.match_length THEN EmitMatch(1, GrownBack(nxt, k))
                  ELSE Absorbed(GrownBack(nxt, k))

\* deflate_slow: the match deferred from the previous byte is the better one.
LazyEmit ==
  /\ Ready /\ Method = "slow" /\ prev_length >= MinMatch
  /\ strstart' = strstart + (prev_length - 1)
  /\ lookahead' = lookahead - (prev_length - 1)
  /\ hist' = Min2(hist + (prev_length - 1), MaxDist)
  /\ TallyAndFlush(prev_length, strstart + (prev_length - 1))
  /\ prev_length' = 0 /\ match_available' = FALSE
  /\ NextOrOut
  /\ UNCHANGED <<fill_end, insert, high_water, match_start, next_match, paramVars,
                 finished, chainVars>>

\* longest_match found m bytes at distance d, more than the deferred match
\* has; m = MinMatch - 1 stands for no match.
Found(m, d) ==
  \/ /\ m = MinMatch - 1 /\ prev_length < MinMatch
     /\ UNCHANGED match_start
  \/ /\ m \in MinMatch..Min2(MaxMatch, lookahead) /\ m > prev_length
     /\ d \in 1..Min2(MaxDist, strstart - 1)
     /\ match_start' = strstart - d

\* deflate_slow: the byte before strstart becomes a literal, after
\* FLUSH_BLOCK_ONLY the byte at strstart is the one that waits.
\* Mutant: the flush after strstart++.
LiteralBlockEndLate == strstart + 1
LiteralBlockEnd == strstart
LazyLiteral(m, d) ==
  /\ Ready /\ Method = "slow" /\ match_available
  /\ Found(m, d)
  /\ prev_length' = m
  /\ strstart' = strstart + 1 /\ lookahead' = lookahead - 1
  /\ hist' = Min2(hist + 1, MaxDist)
  /\ TallyAndFlush(1, LiteralBlockEnd)
  /\ NextOrOut
  /\ UNCHANGED <<fill_end, insert, high_water, match_available, next_match,
                 paramVars, finished, chainVars>>

\* deflate_slow: no byte is waiting, this one does.
LazyDefer(m, d) ==
  /\ Ready /\ Method = "slow" /\ ~match_available
  /\ Found(m, d)
  /\ prev_length' = m /\ match_available' = TRUE
  /\ strstart' = strstart + 1 /\ lookahead' = lookahead - 1
  /\ hist' = Min2(hist + 1, MaxDist)
  /\ pc' = "loop"
  /\ UNCHANGED <<block_start, fill_end, insert, high_water, next_match, paramVars,
                 sym_next, avail_in, avail_out, flush, used, call, lastcall,
                 finished, owed, tallied, chainVars>>

----------------------------------------------------------------------------
(* The end of the input of a flushing call, and deflate()'s block_done.    *)

\* block_done: a full flush forgets the history (CLEAR_HASH and, with no
\* lookahead, a restart at index 0).  Arguments: the positions before it.
BlockDone(bs, ins) ==
  LET full == flush = "full"
      restart == full /\ lookahead = 0 IN
    /\ head_ok' = (head_ok \/ full) /\ prev_ok' = (prev_ok \/ full)
    /\ strstart' = IF restart THEN 0 ELSE strstart
    /\ block_start' = IF restart THEN 0 ELSE bs
    /\ insert' = IF restart THEN 0 ELSE ins
    /\ hist' = IF full THEN 0 ELSE hist
    /\ avail_out' \in SpaceLeft
    /\ Return(IF avail_in = 0 /\ avail_out' > 0 THEN "flushed" ELSE "more")
    /\ avail_in' = LeftIn

EndBlock ==
  /\ pc = "end"
  /\ LET lit  == IF Method = "slow" /\ match_available THEN 1 ELSE 0
         syms == sym_next + lit
         ins  == IF Hashless(level, strategy) THEN 0 ELSE Min2(strstart, MinMatch - 1)
     IN
       /\ sym_next' = 0 /\ tallied' = 0
       /\ owed' = owed - (tallied + lit)
       /\ match_available' = (match_available /\ lit = 0)
       /\ finished' = (flush = "finish")
       /\ \/ /\ flush = "finish" \/ syms > 0    \* finish, or no room after FLUSH_BLOCK
             /\ block_start' = strstart /\ insert' = ins
             /\ avail_out' \in (IF flush = "finish" THEN SpaceLeft ELSE {0})
             /\ Return("more") /\ avail_in' = LeftIn
             /\ UNCHANGED <<strstart, hist, chainVars>>
          \/ /\ flush # "finish"
             /\ BlockDone(IF syms > 0 THEN strstart ELSE block_start, ins)
  /\ UNCHANGED <<lookahead, fill_end, high_water, match_start, prev_length,
                 next_match, paramVars>>

----------------------------------------------------------------------------
(* deflate_stored.                                                         *)

Left     == strstart - block_start
MinBlock == Min2(PendBuf - 5, W)

\* The block the copy loop would write directly: limited by MAX_STORED, by
\* the input and by the output.
DirectLen == Min2(MaxStored, Min2(Left + avail_in, avail_out - Hdr))
CopyBreaks ==
  \/ avail_out < Hdr
  \/ /\ DirectLen < MinBlock
     /\ \/ DirectLen = 0 /\ flush # "finish"
        \/ flush = "no"
        \/ DirectLen # Left + avail_in

\* One pass of the copy loop: a block straight to next_out, from the window
\* first and then from next_in.
StoredCopy ==
  /\ pc = "copy" /\ ~CopyBreaks
  /\ LET fromWin == Min2(Left, DirectLen)
         fromIn  == DirectLen - fromWin
         last    == flush = "finish" /\ DirectLen = Left + avail_in
     IN
       /\ block_start' = block_start + fromWin
       /\ owed' = owed - fromWin
       /\ avail_in' = avail_in - fromIn
       /\ used' = used + fromIn
       /\ hist' = Min2(hist + fromIn, MaxDist)
       /\ avail_out' = avail_out - Hdr - DirectLen
       /\ finished' = last
       /\ pc' = IF last THEN "update" ELSE "copy"
  /\ UNCHANGED <<strstart, lookahead, fill_end, insert, high_water, lazyVars,
                 paramVars, sym_next, flush, call, lastcall, tallied, chainVars>>

CopyDone ==
  /\ pc = "copy" /\ CopyBreaks
  /\ pc' = "update"
  /\ UNCHANGED <<posVars, lazyVars, paramVars, sym_next, avail_in, avail_out,
                 flush, used, call, lastcall, finished, owed, tallied, hist, chainVars>>

\* strstart and insert after the copied bytes are put into the window.
StoredSlides == WindowSize - strstart <= used
UpdateStart  == IF used >= W THEN W
                ELSE IF StoredSlides THEN W + used ELSE strstart + used
UpdateInsert == IF used >= W THEN W
                ELSE LET i == IF StoredSlides THEN Min2(insert, W) ELSE insert
                     IN  i + Min2(used, W - i)

\* The window takes over what was copied past it, unless the stream is done.
\* Then: finish_done, or block_done when all is flushed, or on to the window.
StoredUpdate ==
  /\ pc = "update"
  /\ LET moved == used > 0 /\ ~finished
         ss == IF moved THEN UpdateStart ELSE strstart
         bs == IF moved THEN ss ELSE block_start
         ins == IF moved THEN UpdateInsert ELSE insert
         shift == moved /\ (used >= W \/ StoredSlides)
         done == flush \notin {"no", "finish"} /\ avail_in = 0 /\ ss = bs
         full == done /\ flush = "full"
         restart == full /\ lookahead = 0
     IN
       /\ high_water' = Max2(high_water, ss)
       /\ head_ok' = ((head_ok /\ ~shift) \/ full)
       /\ prev_ok' = ((prev_ok /\ ~shift) \/ full)
       /\ strstart' = IF restart THEN 0 ELSE ss
       /\ block_start' = IF restart THEN 0 ELSE bs
       /\ insert' = IF restart THEN 0 ELSE ins
       /\ hist' = IF full THEN 0 ELSE hist
       /\ \/ /\ finished
             /\ Return("more") /\ avail_in' = LeftIn /\ UNCHANGED avail_out
          \/ /\ ~finished /\ done
             /\ avail_out' \in SpaceLeft
             /\ Return(IF avail_out' > 0 THEN "flushed" ELSE "more")
             /\ avail_in' = LeftIn
          \/ /\ ~finished /\ ~done
             /\ pc' = "store"
             /\ UNCHANGED <<avail_in, avail_out, flush, used, call, lastcall>>
  /\ UNCHANGED <<lookahead, fill_end, lazyVars, paramVars, sym_next, finished,
                 owed, tallied>>

\* The rest of the input goes into the window, sliding it if there is no room
\* and the history allows it, and a worthy or final block goes to pending.
StoredFill ==
  /\ pc = "store"
  /\ LET room  == WindowSize - strstart
         slide == IF avail_in > room /\ block_start >= W
                  THEN Min2(block_start, strstart - W) ELSE 0
         ss0   == strstart - slide
         n     == Min2(room + slide, avail_in)
         i0    == IF slide > 0 THEN Min2(insert, ss0) ELSE insert
         ss    == ss0 + n
         bs    == block_start - slide
         rest  == avail_in - n
         have  == Min2(PendBuf - Hdr, MaxStored)
         left  == ss - bs
         emit  == \/ left >= Min2(have, W)
                  \/ (left > 0 \/ flush = "finish") /\ flush # "no" /\ rest = 0 /\ left <= have
         len   == IF emit THEN Min2(left, have) ELSE 0
     IN
       /\ strstart' = ss
       /\ block_start' = bs + len
       /\ insert' = i0 + Min2(n, W - i0)
       /\ high_water' = Max2(high_water, ss)
       /\ hist' = Min2(hist + n, MaxDist)
       /\ owed' = owed + n - len
       /\ head_ok' = (head_ok /\ slide = 0) /\ prev_ok' = (prev_ok /\ slide = 0)
       /\ finished' = (emit /\ flush = "finish" /\ rest = 0 /\ len = left)
       /\ avail_out' \in (IF emit THEN SpaceLeft ELSE {avail_out})
       /\ avail_in' = IF call = "params" THEN rest ELSE 0
  /\ Return("more")
  /\ UNCHANGED <<lookahead, fill_end, lazyVars, paramVars, sym_next, tallied>>

----------------------------------------------------------------------------
(* deflateParams.                                                          *)

\* Mutant: deflate_quick's chains are kept.
StaleChainNoQuick(l, s) ==
  Hashless(l, s) # Hashless(level, strategy) \/ (l >= 9) # (level >= 9)

\* The change needs the data so far flushed with the old settings.
MustFlush(l, s) ==
  (s # strategy \/ Func(l) # Func(level)) /\ lastcall # "init"

\* The hash table does not describe the window for the new configuration.
StaleChain(l, s) ==
  \/ Hashless(l, s) # Hashless(level, strategy)
  \/ (l >= 9) # (level >= 9)
  \/ level = 1 /\ l # 1

Apply(l, s) ==
  LET rebuild == StaleChain(l, s) /\ ~Hashless(l, s) IN
    /\ level' = l /\ strategy' = s /\ want' = [level |-> l, strategy |-> s]
    /\ insert' = IF rebuild THEN Min2(strstart, W) ELSE insert
    /\ head_ok' = (head_ok \/ rebuild) /\ prev_ok' = (prev_ok \/ rebuild)

\* No flush is due: the change takes effect at once.
ParamsNow(l, s) ==
  /\ pc = "idle" /\ ~MustFlush(l, s)
  /\ Apply(l, s)
  /\ UNCHANGED <<strstart, lookahead, block_start, fill_end, high_water, lazyVars,
                 sym_next, avail_in, avail_out, flush, used, call, lastcall,
                 finished, pc, owed, tallied, hist>>

\* deflate(strm, Z_BLOCK) with the old settings; it may also return before it
\* reaches the compressor (no output space, or nothing new to flush).
ParamsFlush(l, s, n, o) ==
  /\ pc = "idle" /\ MustFlush(l, s) /\ ~finished
  /\ want' = [level |-> l, strategy |-> s]
  /\ call' = "params"
  /\ \/ Start(n, o, "block") /\ lastcall' = "more"
     \/ /\ pc' = "params" /\ avail_in' = n /\ avail_out' = 0
        /\ flush' = "block" /\ used' = 0 /\ UNCHANGED lastcall
  /\ UNCHANGED <<level, strategy, posVars, lazyVars, sym_next, finished,
                 owed, tallied, hist, chainVars>>

\* Z_BUF_ERROR when data is left over, otherwise the change is made.
ParamsAfter ==
  /\ pc = "params"
  /\ pc' = "idle" /\ call' = "none" /\ avail_in' = 0
  /\ IF avail_in # 0 \/ Left + lookahead # 0
     THEN /\ want' = [level |-> level, strategy |-> strategy]
          /\ UNCHANGED <<level, strategy, insert, chainVars>>
     ELSE Apply(want.level, want.strategy)
  /\ UNCHANGED <<strstart, lookahead, block_start, fill_end, high_water, lazyVars,
                 sym_next, avail_out, flush, used, lastcall, finished,
                 owed, tallied, hist>>

----------------------------------------------------------------------------
(* deflateSetDictionary.                                                   *)

\* The caller's side of zlib-ng.h: before any deflate, or in a raw stream
\* right after a flush that completed.
DictAllowed == DictRule = "contract" => lastcall \in {"init", "flushed"}

SetDictionary(n) ==
  /\ pc = "idle" /\ DictAllowed
  /\ lookahead = 0 /\ (Raw \/ lastcall = "init")
  /\ LET restart == n >= W /\ Raw IN
       /\ strstart' = IF restart THEN 0 ELSE strstart
       /\ block_start' = IF restart THEN 0 ELSE block_start
       /\ insert' = IF restart THEN 0 ELSE insert
       /\ head_ok' = IF restart THEN ~Hashless(level, strategy) ELSE head_ok
       /\ prev_ok' = IF restart THEN ~Hashless(level, strategy) ELSE prev_ok
       /\ hist' = IF restart THEN 0 ELSE hist
  /\ avail_in' = Min2(n, W)
  /\ call' = "dict" /\ pc' = "fill"
  /\ UNCHANGED <<lookahead, fill_end, high_water, lazyVars, paramVars, sym_next,
                 avail_out, flush, used, lastcall, finished, owed, tallied>>

\* while (lookahead >= STD_MIN_MATCH): hash what is there, fill again.
DictLoop ==
  /\ pc = "dict" /\ lookahead >= MinMatch
  /\ strstart' = strstart + (lookahead - (MinMatch - 1))
  /\ hist' = Min2(hist + (lookahead - (MinMatch - 1)), MaxDist)
  /\ lookahead' = MinMatch - 1
  /\ prev_ok' = (prev_ok /\ (level # 1 \/ Hashless(level, strategy)))
  /\ pc' = "fill"
  /\ UNCHANGED <<block_start, fill_end, insert, high_water, lazyVars, paramVars,
                 sym_next, avail_in, avail_out, flush, used, call, lastcall,
                 finished, owed, tallied, head_ok>>

DictDone ==
  /\ pc = "dict" /\ lookahead < MinMatch
  /\ strstart' = strstart + lookahead
  /\ hist' = Min2(hist + lookahead, MaxDist)
  /\ block_start' = strstart + lookahead
  /\ insert' = lookahead /\ lookahead' = 0
  /\ prev_length' = 0 /\ match_available' = FALSE
  /\ avail_in' = 0
  /\ call' = "none" /\ pc' = "idle"
  /\ UNCHANGED <<fill_end, high_water, match_start, next_match, paramVars, sym_next,
                 avail_out, flush, used, lastcall, finished, owed, tallied, chainVars>>

----------------------------------------------------------------------------
\* The steps of a call under way.
Step ==
  \/ CallFill \/ FillWindow \/ NeedMore \/ EndOfInput \/ EndBlock
  \/ HuffStep
  \/ \E n \in 1..MaxMatch : RleStep(n) \/ QuickStep(n) \/ FastStep(n)
  \/ \E cur \in Currents : MediumStep(cur)
  \/ LazyEmit
  \/ \E m \in (MinMatch - 1)..MaxMatch, d \in 1..MaxDist :
       LazyLiteral(m, d) \/ LazyDefer(m, d)
  \/ StoredCopy \/ CopyDone \/ StoredUpdate \/ StoredFill
  \/ ParamsAfter \/ DictLoop \/ DictDone

Flushes == {"no", "block", "full", "finish"}

Caller ==
  \/ \E n \in InSizes, o \in OutSizes, f \in Flushes : Deflate(n, o, f)
  \/ \E c \in Configs :
       \/ ParamsNow(c.level, c.strategy)
       \/ \E n \in InSizes, o \in OutSizes : ParamsFlush(c.level, c.strategy, n, o)
  \/ \E n \in DictSizes : SetDictionary(n)
  \/ DeflateReset

Next == Step \/ Caller

Spec == Init /\ [][Next]_vars

----------------------------------------------------------------------------
(* Correctness.                                                            *)

Pcs == {"idle", "loop", "fill", "filled", "end", "copy", "update", "store",
        "params", "dict"}

TypePos ==
  /\ strstart \in Nat /\ lookahead \in Nat /\ block_start \in Int
  /\ fill_end \in Nat /\ insert \in Nat /\ high_water \in Nat
  /\ match_start \in Nat /\ prev_length \in 0..MaxMatch
  /\ next_match \in Matches
  /\ sym_next \in Nat /\ avail_in \in Nat /\ avail_out \in Nat /\ used \in Nat
  /\ owed \in Int /\ tallied \in Nat /\ hist \in Nat

TypeTag ==
  /\ level \in Levels /\ strategy \in Strategies
  /\ want \in [level : Levels, strategy : Strategies]
  /\ flush \in Flushes /\ call \in {"none", "deflate", "params", "dict"}
  /\ lastcall \in {"init", "flushed", "more"} /\ pc \in Pcs
  /\ match_available \in BOOLEAN /\ finished \in BOOLEAN
  /\ head_ok \in BOOLEAN /\ prev_ok \in BOOLEAN

\* Type invariant.  No unsigned position ever goes below zero; block_start is
\* an int, which a block longer than the window leaves negative after slides.
TypeOK == TypePos /\ TypeTag

\* fill_window's own assertion, more >= 2, and what it protects: the bytes
\* read_buf is asked to store end inside the window buffer.
ReadsFit ==
  pc = "fill" /\ avail_in > 0 =>
    /\ More >= 2
    /\ strstart - Slid + lookahead + ReadLen <= WindowSize

\* The memcpy of a slide copies downwards between areas that do not overlap,
\* over a distance that did not wrap below zero.
SlideSafe ==
  pc = "fill" /\ Slides =>
    /\ strstart >= MaxDist
    /\ SlideLen > 0
    /\ strstart + lookahead - SlideLen <= SlideLen

\* longest_match's assertion "need lookahead" at p, and the MaxMatch bytes a
\* search there may compare: in the buffer, and written, as input or by the
\* zeroing at the end of fill_window.
SearchFits(p) ==
  /\ p <= fill_end
  /\ p + MaxMatch <= WindowSize
  /\ p + MaxMatch <= Max2(high_water, strstart + lookahead)

\* "not enough room for search" / "need lookahead": every search of a compressor
\* has its room, at strstart and where deflate_medium looks ahead of it.
RoomForSearch ==
  Ready /\ Method # "huff" =>
    /\ Method # "rle" => SearchFits(strstart)
    /\ strstart + MaxMatch <= WindowSize
    /\ strstart + MaxMatch <= Max2(high_water, strstart + lookahead)
    /\ Method = "fizzle" => \A cur \in Currents :
         LooksAhead(cur) => SearchFits(cur.strstart + cur.match_length)

\* Slides, dictionary loads and level changes keep the history that matches
\* are allowed to use: all of it, or at least the last MaxDist bytes.
HistoryKept ==
  pc \in {"idle", "loop", "filled"} /\ ~finished => strstart >= hist

\* A compressor that follows hash heads (and, unless it is deflate_quick, the
\* chains behind them) only follows entries of the present window layout.
ChainUsable ==
  Ready /\ ~Hashless(level, strategy) =>
    head_ok /\ (level = 1 \/ prev_ok)

\* The stored length zng_tr_flush_block is given is the number of bytes the
\* symbols of the block stand for: a block may be sent stored or coded and
\* must mean the same.
SymbolsCoverBlock ==
  call # "dict" /\ level # 0 =>
    tallied = strstart - block_start - (IF match_available THEN 1 ELSE 0)

\* Every input byte deflate has taken is in an emitted block, in the block
\* under construction or in the lookahead.
NoByteLost ==
  call # "dict" => owed = strstart - block_start + lookahead

\* deflate_stored is only entered with an empty lookahead and a block that
\* starts inside the window, whatever level ran before.
StoredEntry ==
  level = 0 /\ call # "dict" => lookahead = 0 /\ block_start >= 0

\* What deflate_stored moves and copies stays inside the window buffer: it
\* slides only a window that has W bytes of history, after its data drained.
StoredFits ==
  /\ pc = "update" /\ used > 0 /\ ~finished =>
       /\ block_start = strstart
       /\ UpdateStart <= WindowSize
       /\ used < W /\ StoredSlides => strstart >= W
  /\ level = 0 => strstart <= WindowSize

\* Every access of the window, by fill_window's reads, by a match search and by
\* deflate_stored's moves, is inside the buffer and to bytes that are written.
StaysInside == ReadsFit /\ RoomForSearch /\ StoredFits

\* A match found before it is emitted, by deflate_slow for the byte before or by
\* deflate_medium looking ahead, possibly across a slide and after growing
\* backwards: when it is emitted it starts at the byte the symbols have come to,
\* its distance is in 1..MaxDist and its length in the lookahead.
LazyMatchValid ==
  /\ Ready /\ prev_length >= MinMatch =>
       /\ match_available
       /\ strstart - 1 - match_start \in 1..MaxDist
       /\ prev_length - 1 <= lookahead
  /\ Ready /\ Future.match_length > 0 =>
       /\ Method = "fizzle" /\ Future.strstart = strstart
       /\ Future.match_length <= lookahead
       /\ Future.match_length > 1 => strstart - Future.match_start \in 1..MaxDist

\* A slide under a match that deflate_slow has deferred keeps its distance: the
\* bytes it refers to are the ones longest_match compared.
DistanceKept ==
  [][pc = "fill" /\ prev_length' >= MinMatch =>
       strstart' - match_start' = strstart - match_start]_vars

\* How far a call has come, the most important part first: the part of the
\* function it is in; the input, lookahead and output space it has left; the
\* place in the round of the compressor's loop; what is left of that place.
Phase == CASE pc = "params" -> 0 [] pc \in {"end", "store"} -> 1 [] pc = "update" -> 2
           [] OTHER -> 3
Unspent == avail_in + lookahead + avail_out
Turn == CASE pc = "loop" /\ lookahead < Need -> 4 [] pc = "fill" -> 3
          [] pc \in {"filled", "dict"} -> 2 [] OTHER -> 1
Rest == IF pc = "fill" THEN avail_in ELSE MaxMatch - next_match.match_length
Advance ==
  \/ Phase' < Phase
  \/ Phase' = Phase /\ Unspent' < Unspent
  \/ Phase' = Phase /\ Unspent' = Unspent /\ Turn' < Turn
  \/ Phase' = Phase /\ Unspent' = Unspent /\ Turn' = Turn /\ Rest' < Rest

\* Every step of a call either returns or gets nearer to it in a well-founded
\* order: no loop of the compressors, of fill_window or of deflateSetDictionary
\* spins.  With no deadlock (every state of a call has a step) each call comes
\* back if only its own code keeps running.
CallAdvances == [][pc # "idle" => pc' = "idle" \/ Advance]_vars

----------------------------------------------------------------------------
(* Inductive invariants.                                                   *)

\* fill_end only keeps up with deflate_stored in a buffer of 2 * w_size.
Narrow == 0 \notin Levels \/ Mult = 2

\* The positions fill_end can take.
OnGrid(fe) == \E j \in 0..(Mult - 2) : fe = (j + 2) * W - MinLookahead

\* fill_end is where a 2 * w_size buffer, shifted by whole windows, would end
\* its data; data never goes past it by more than MinLookahead.
Geometry ==
  /\ OnGrid(fill_end)
  /\ strstart + lookahead <= fill_end + MinLookahead
  /\ block_start <= strstart
  /\ pc = "fill" => lookahead < MinLookahead
  /\ pc = "filled" => strstart <= fill_end
  /\ pc = "filled" \/ (pc # "fill" /\ lookahead > 0) =>
       high_water >= Min2(strstart + lookahead + MaxMatch, WindowSize)
  /\ pc \in {"copy", "update"} /\ used > 0 => block_start = strstart

\* Which code may be running, and what it may assume.
Control ==
  /\ pc = "idle" <=> call = "none"
  /\ pc = "params" => call = "params"
  /\ pc = "dict" => call = "dict"
  /\ call = "dict" => pc \in {"fill", "dict"}
  /\ pc \in {"copy", "update", "store"} => level = 0
  /\ pc \in {"loop", "filled", "end"} => level # 0
  /\ pc = "fill" /\ call # "dict" => level # 0
  /\ pc = "end" => lookahead = 0 /\ flush # "no"
  /\ level = 0 /\ call # "dict" => lookahead = 0
  /\ finished => pc \in {"idle", "update", "params"} \/ call = "dict"
  /\ lastcall = "init" => call \in {"none", "dict"}
  /\ pc \in {"idle", "params"} \/ call = "dict" \/ lastcall = "more"
  /\ lastcall # "more" /\ call # "dict" => lookahead = 0

\* A match waiting in deflate_slow.
Deferred ==
  prev_length >= MinMatch =>
    /\ Method = "slow" /\ match_available /\ call # "dict"
    /\ strstart - 1 - match_start \in 1..MaxDist
    /\ prev_length - 1 <= lookahead

\* A match found ahead by deflate_medium, in the call that found it.
Ahead ==
  next_match.match_length > 0 =>
    /\ Method = "fizzle" /\ pc \in {"loop", "fill", "filled"} /\ call # "dict"
    /\ pc = "loop" =>
         /\ next_match.strstart = strstart
         /\ next_match.match_length > 1 =>
              strstart - next_match.match_start \in 1..MaxDist

\* The books: bytes owed and bytes tallied, against the positions.
Account ==
  /\ call # "dict" => owed = strstart - block_start + lookahead
  /\ lastcall # "more" => owed = 0
  /\ call = "dict" => owed = 0 /\ tallied = 0 /\ sym_next = 0 /\ ~match_available
  /\ level # 0 /\ call # "dict" =>
       tallied = strstart - block_start - (IF match_available THEN 1 ELSE 0)
  /\ level = 0 => tallied = 0 /\ sym_next = 0
  /\ level = 0 /\ call # "dict" => block_start >= 0
  /\ match_available => Method = "slow"
  /\ (sym_next = 0) <=> (tallied = 0)

\* Heads, and unless deflate_quick runs, chains.
ChainInv == ~Hashless(level, strategy) => head_ok /\ (level = 1 \/ prev_ok)

\* History, also while deflate_stored's copies are not in the window yet.
HistoryInv ==
  /\ hist <= MaxDist
  /\ pc \in {"copy", "update"} => hist <= strstart + used
  /\ pc \notin {"copy", "update"} /\ ~finished => hist <= strstart

\* Everything a step may assume and must keep; Account needs callers that keep
\* to zlib-ng.h when they set a dictionary.
WindowInv ==
  /\ TypeOK /\ Geometry /\ Control /\ Deferred /\ Ahead /\ ChainInv /\ HistoryInv
  /\ DictRule = "contract" => Account
=============================================================================
