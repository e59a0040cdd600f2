------------------------ MODULE DeflateWindowProofs ------------------------
(***************************************************************************)
(* Proofs about DeflateWindow.  WindowInv is shown to be inductive, one    *)
(* lemma per action; the properties the model checker looks at on small    *)
(* windows follow from it for all sizes.                                   *)
(*                                                                         *)
(* The geometry is the heart of it: fill_end only takes the positions      *)
(* k * w_size - MIN_LOOKAHEAD (OnGrid), so at the end of the buffer the    *)
(* rounded slide is exactly window_size - w_size (SlideAtEnd) and brings   *)
(* fill_end back to its first position (FillFacts).                        *)
(***************************************************************************)
EXTENDS DeflateWindow, TLAPS

\* The sizes in the order deflateInit2 guarantees: MIN_LOOKAHEAD < w_size and
\* window_size >= 2 * w_size.
LEMMA Sizes ==
  /\ W \in Nat /\ MinMatch \in Nat /\ MaxMatch \in Nat
  /\ MinMatch >= 2 /\ MaxMatch >= MinMatch
  /\ WantMinMatch \in Nat /\ WantMinMatch >= MinMatch /\ WantMinMatch <= MaxMatch
  /\ MinLookahead \in Nat /\ MinLookahead = MaxMatch + MinMatch + 1 /\ W > MinLookahead
  /\ MaxDist \in Nat /\ MaxDist >= 1 /\ MaxDist = W - MinLookahead
  /\ WindowSize \in Nat /\ WindowSize >= 2 * W
  <1>1. Mult * W >= 2 * W BY SizeAssumption
  <1>2. Mult * W \in Nat BY SizeAssumption
  <1> QED BY <1>1, <1>2, SizeAssumption DEF MinLookahead, MaxDist, WindowSize

\* Every position fill_end can take leaves MIN_LOOKAHEAD bytes of the buffer free.
LEMMA GridBounds ==
  ASSUME NEW fe, OnGrid(fe)
  PROVE  fe \in Nat /\ fe >= 2 * W - MinLookahead /\ fe <= WindowSize - MinLookahead
  <1> PICK j \in 0..(Mult - 2) : fe = (j + 2) * W - MinLookahead BY DEF OnGrid
  <1>1. (j + 2) * W >= 2 * W BY SizeAssumption
  <1>2. (j + 2) * W <= Mult * W BY SizeAssumption
  <1>3. (j + 2) * W \in Nat BY SizeAssumption
  <1> QED BY <1>1, <1>2, <1>3, Sizes DEF WindowSize

\* With level 0 in use (Narrow: a 2 * w_size buffer) fill_end is the end of the
\* buffer, so deflate_stored, which ignores it, cannot outrun it.
LEMMA StoredEnd ==
  ASSUME Narrow, TypeTag, level = 0, OnGrid(fill_end)
  PROVE  fill_end + MinLookahead = WindowSize
  <1>1. Mult = 2 BY DEF Narrow, TypeTag
  <1> QED BY <1>1, GridBounds, Sizes DEF WindowSize

USE DEF Min2, Max2, SpaceLeft, Flushes, Pcs, posVars, lazyVars, paramVars, chainVars

\* The levels and strategies of the caller's pairs are ones deflate knows.
LEMMA ConfigFacts ==
  /\ Levels \subseteq 0..9 /\ Strategies \subseteq {"default", "huff", "rle"}
  /\ \A c \in Configs : c.level \in Levels /\ c.strategy \in Strategies
  BY CallAssumption DEF Levels, Strategies

\* Where deflate_medium does not run, no match is kept ahead.
LEMMA NothingAhead ==
  ASSUME TypePos, Ahead, next_match' = next_match,
         Method # "fizzle" \/ pc \notin {"loop", "fill", "filled"} \/ call = "dict"
  PROVE  Ahead' /\ next_match.match_length = 0
  BY DEF Ahead, TypePos, Matches

\* A compressor about to take a symbol has lookahead and runs inside a call.
LEMMA ReadyFacts ==
  ASSUME TypeOK, Control, Ready
  PROVE  /\ pc \in {"loop", "filled"} /\ lookahead > 0
         /\ level # 0 /\ call \in {"deflate", "params"} /\ lastcall = "more"
  <1>1. pc \in {"loop", "filled"} BY DEF Ready
  <1>2. lookahead > 0 BY Sizes DEF Ready, Need, TypeOK, TypePos
  <1> QED BY <1>1, <1>2 DEF Control, TypeOK, TypeTag

(* What TallyAndFlush(n, end) and NextOrOut leave behind.                  *)
TallyResult(n, end) ==
  /\ sym_next' \in Nat /\ tallied' \in Nat /\ avail_out' \in Nat
  /\ owed' \in Int /\ block_start' \in Int
  /\ \/ /\ sym_next' > 0 /\ tallied' = tallied + n
        /\ owed' = owed /\ block_start' = block_start
     \/ /\ sym_next' = 0 /\ tallied' = 0
        /\ owed' = owed - (tallied + n) /\ block_start' = end

NextResult ==
  /\ pc' \in {"loop", "idle", "params"} /\ call' \in {"none", "deflate", "params"}
  /\ (pc' = "idle") <=> (call' = "none")
  /\ pc' = "params" => call' = "params"
  /\ lastcall' = "more" /\ flush' = flush /\ used' = used /\ avail_in' \in Nat

\* zng_tr_tally and FLUSH_BLOCK: one symbol more, or an emptied block.
LEMMA TallyFacts ==
  ASSUME TypePos, NEW n \in Nat, NEW end \in Int, TallyAndFlush(n, end)
  PROVE  TallyResult(n, end)
  <1>1. CASE sym_next + 1 < SymEnd
    BY <1>1, BlockAssumption DEF TypePos, TallyAndFlush, TallyResult
  <1>2. CASE ~(sym_next + 1 < SymEnd)
    BY <1>2, BlockAssumption DEF TypePos, TallyAndFlush, TallyResult
  <1> QED BY <1>1, <1>2

\* The exits of a compressor loop after a symbol.
LEMMA NextFacts ==
  ASSUME TypePos, call \in {"deflate", "params"}, lastcall = "more", NextOrOut
  PROVE  NextResult
  BY DEF TypePos, NextOrOut, Return, LeftIn, NextResult

\* Taking n bytes of the lookahead as one symbol keeps the invariant.
LEMMA ConsumeKeeps ==
  ASSUME Narrow, WindowInv, NEW n \in 1..MaxMatch, Ready, Consume(n),
         Method \notin {"slow", "stored"}, next_match' \in Matches, Ahead',
         prev_ok' = prev_ok \/ (level = 1 /\ prev_ok' = FALSE)
  PROVE  WindowInv'
  <1> USE Sizes
  <1>i. TypeOK /\ Geometry /\ Control /\ Deferred /\ Ahead /\ ChainInv /\ HistoryInv
    BY DEF WindowInv
  <1>r. /\ pc \in {"loop", "filled"} /\ lookahead > 0 /\ level # 0
        /\ call \in {"deflate", "params"} /\ lastcall = "more"
    BY <1>i, ReadyFacts DEF WindowInv
  <1>c. /\ n <= lookahead /\ strstart' = strstart + n /\ lookahead' = lookahead - n
        /\ hist' = Min2(hist + n, MaxDist)
        /\ UNCHANGED <<fill_end, insert, high_water, match_start, prev_length,
                       match_available, paramVars, finished, head_ok>>
    BY <1>i DEF Consume, TypeOK, TypePos
  <1>t. TallyResult(n, strstart + n) BY <1>i, TallyFacts DEF Consume, TypeOK, TypePos
  <1>n. NextResult BY <1>i, <1>r, NextFacts DEF Consume, TypeOK
  <1>1. TypePos' BY <1>i, <1>c, <1>t, <1>n DEF TypeOK, TypePos, TallyResult, NextResult
  <1>2. TypeTag' BY <1>i, <1>c, <1>n DEF TypeOK, TypeTag, NextResult
  <1>3. Geometry' BY <1>i, <1>r, <1>c, <1>t, <1>n DEF Geometry, TypeOK, TypePos, TallyResult, NextResult
  <1>4. Control' BY <1>i, <1>r, <1>c, <1>n DEF Control, NextResult
  <1>5. Deferred' BY <1>i, <1>c DEF Deferred
  <1>6. ChainInv' BY <1>i, <1>c DEF ChainInv, Hashless
  <1>7. HistoryInv' BY <1>i, <1>r, <1>c, <1>n DEF HistoryInv, TypeOK, TypePos, NextResult
  <1>8. ASSUME DictRule = "contract" PROVE Account'
    <2>1. Account BY <1>8 DEF WindowInv
    <2>2. ~match_available /\ ~match_available' BY <2>1, <1>c DEF Account
    <2>3. /\ owed = strstart - block_start + lookahead /\ tallied = strstart - block_start
      BY <2>1, <2>2, <1>i, <1>r DEF Account, TypeOK, TypePos
    <2>4. /\ owed' = strstart' - block_start' + lookahead' /\ tallied' = strstart' - block_start'
      <3>1. CASE tallied' = tallied + n /\ owed' = owed /\ block_start' = block_start
        BY <3>1, <2>3, <1>i, <1>c DEF TypeOK, TypePos
      <3>2. CASE tallied' = 0 /\ owed' = owed - (tallied + n) /\ block_start' = strstart + n
        BY <3>2, <2>3, <1>i, <1>c DEF TypeOK, TypePos
      <3> QED BY <3>1, <3>2, <1>t DEF TallyResult
    <2>5. (sym_next' = 0) <=> (tallied' = 0) BY <1>i, <1>t DEF TallyResult, TypeOK, TypePos
    <2> QED BY <2>2, <2>4, <2>5, <1>r, <1>c, <1>n DEF Account, NextResult, TallyResult
  <1> QED BY <1>1, <1>2, <1>3, <1>4, <1>5, <1>6, <1>7, <1>8 DEF WindowInv, TypeOK
 
\* The steps of deflate_huff, _rle, _quick and _fast.
LEMMA SymbolStepKeeps ==
  ASSUME Narrow, WindowInv, NEW n \in 1..MaxMatch,
         HuffStep \/ RleStep(n) \/ QuickStep(n) \/ FastStep(n)
  PROVE  WindowInv'
  <1>i. TypePos /\ Ahead BY DEF WindowInv, TypeOK
  <1>0. level \in Nat BY ConfigFacts DEF WindowInv, TypeOK, TypeTag
  <1>m. Method \notin {"slow", "stored", "fizzle"} /\ next_match' = next_match
    BY DEF HuffStep, RleStep, QuickStep, FastStep
  <1>a. Ahead' /\ next_match' \in Matches BY <1>i, <1>m, NothingAhead DEF TypePos
  <1>1. CASE HuffStep
    <2>1. 1 \in 1..MaxMatch BY Sizes
    <2> QED BY <1>1, <2>1, <1>a, <1>m, ConsumeKeeps DEF HuffStep
  <1>2. CASE RleStep(n) BY <1>2, <1>a, <1>m, ConsumeKeeps DEF RleStep
  <1>3. CASE QuickStep(n)
    <2>1. level = 1
      BY <1>0, <1>3, ConfigFacts DEF QuickStep, Method, Func, WindowInv, TypeOK, TypeTag
    <2> QED BY <1>3, <2>1, <1>a, <1>m, ConsumeKeeps DEF QuickStep
  <1>4. CASE FastStep(n) BY <1>4, <1>a, <1>m, ConsumeKeeps DEF FastStep
  <1> QED BY <1>1, <1>2, <1>3, <1>4

(* A match of n bytes at p, at a distance a match may have.                *)
ValidAt(m, p) ==
  /\ m \in Matches /\ m.strstart = p /\ m.match_length >= 1
  /\ m.match_length > 1 => p - m.match_start \in 1..MaxDist

\* What find_best_match returns.
LEMMA BestFacts ==
  ASSUME TypePos, NEW p \in Nat, NEW m \in BestMatches(p)
  PROVE  ValidAt(m, p)
  <1> USE Sizes DEF Match, Matches, ValidAt
  <1>1. CASE m = Match(p, 0, 1) BY <1>1
  <1>2. CASE m # Match(p, 0, 1)
    <2>1. PICK d \in 1..Min2(MaxDist, p - 1), n \in WantMinMatch..Min2(MaxMatch, lookahead) :
            m = Match(p, p - d, n)
      BY <1>2 DEF BestMatches
    <2>2. p - d \in Nat /\ p - (p - d) \in 1..MaxDist /\ n \in 1..MaxMatch
      BY <2>1 DEF TypePos
    <2> QED BY <2>1, <2>2
  <1> QED BY <1>1, <1>2

\* current_match starts at strstart, whether it was found ahead or now.
LEMMA CurrentFacts ==
  ASSUME TypePos, Ahead, Ready, NEW cur \in Currents
  PROVE  ValidAt(cur, strstart)
  <1>1. CASE Future.match_length > 0
    <2>1. Future = next_match /\ pc = "loop" BY <1>1 DEF Future, Ready, NoMatch, Match
    <2> QED BY <1>1, <2>1 DEF Currents, Ahead, ValidAt, TypePos, Matches
  <1>2. CASE ~(Future.match_length > 0) BY <1>2, BestFacts DEF Currents, TypePos
  <1> QED BY <1>1, <1>2

\* fizzle_matches leaves a match that is still one, k bytes further back.
LEMMA FizzleFacts ==
  ASSUME TypePos, NEW cur, NEW nxt, NEW k \in Fizzles(cur, nxt), ValidAt(cur, strstart),
         ValidAt(nxt, strstart + cur.match_length)
  PROVE  /\ k \in 1..cur.match_length /\ k >= cur.match_length - 1
         /\ ValidAt(GrownBack(nxt, k), strstart + cur.match_length - k)
  <1> USE Sizes
  <1>1. /\ cur.match_length \in 2..MaxMatch /\ nxt.match_length >= WantMinMatch
        /\ k \in {cur.match_length - 1, cur.match_length} /\ k <= FizzleSteps(nxt)
    BY DEF Fizzles, ValidAt, Matches
  <1>2. /\ nxt.strstart \in Nat /\ nxt.match_start \in Nat /\ nxt.match_length \in 0..MaxMatch
        /\ nxt.strstart = strstart + cur.match_length
    BY DEF ValidAt, Matches
  <1>3. k \in Nat /\ k <= nxt.strstart /\ k <= MaxMatch - nxt.match_length
        /\ k <= nxt.match_start - 1
    BY <1>1, <1>2 DEF FizzleSteps
  <1>4. GrownBack(nxt, k) \in Matches BY <1>2, <1>3 DEF GrownBack, Match, Matches
  <1>5. nxt.strstart - nxt.match_start \in 1..MaxDist BY <1>1, <1>2 DEF ValidAt
  <1> QED BY <1>1, <1>2, <1>3, <1>4, <1>5 DEF ValidAt, GrownBack, Match, TypePos

\* One round of deflate_medium.
LEMMA MediumStepKeeps ==
  ASSUME Narrow, WindowInv, NEW cur \in Currents, MediumStep(cur)
  PROVE  WindowInv'
  <1> USE Sizes
  <1>i. TypeOK /\ Geometry /\ Control /\ Deferred /\ Ahead /\ ChainInv /\ HistoryInv
    BY DEF WindowInv
  <1>t. TypePos BY <1>i DEF TypeOK
  <1>r. /\ Ready /\ Method \in {"medium", "fizzle"} /\ pc \in {"loop", "filled"}
        /\ call \in {"deflate", "params"} /\ level # 0
    BY <1>i, ReadyFacts DEF MediumStep
  <1>c. ValidAt(cur, strstart) BY <1>t, <1>i, <1>r, CurrentFacts
  <1>n. cur.match_length \in 1..MaxMatch BY <1>c DEF ValidAt, Matches
  <1>0. 0 \in 0..MaxMatch /\ NoMatch \in Matches BY DEF NoMatch, Match, Matches
  \* Emitting n bytes leaves m where it is found, or nothing.
  <1>e. ASSUME NEW n \in 1..MaxMatch, NEW m \in Matches, EmitMatch(n, m),
               m = NoMatch \/ (Method = "fizzle" /\ ValidAt(m, strstart + n))
        PROVE  WindowInv'
    <2>1. strstart' = strstart + n /\ pc' \in {"loop", "idle", "params"} /\ UNCHANGED paramVars
      BY <1>e, <1>r DEF EmitMatch, Consume, NextOrOut, Return
    <2>2. next_match' = (IF pc' = "loop" THEN m ELSE NoMatch) BY <1>e DEF EmitMatch
    <2>3. next_match' \in Matches BY <2>2, <1>0, <1>e
    <2>4. Method' = Method BY <2>1 DEF Method, Func
    <2>5. pc' = "loop" => call' # "dict"
      BY <1>e, <1>r, <1>i DEF EmitMatch, Consume, NextOrOut, Return
    <2>6. Ahead'
      <3>1. CASE next_match' = NoMatch BY <3>1 DEF Ahead, NoMatch, Match
      <3>2. CASE pc' = "loop" /\ next_match' = m /\ Method = "fizzle" /\ ValidAt(m, strstart + n)
        BY <3>2, <2>1, <2>4, <2>5 DEF Ahead, ValidAt
      <3> QED BY <3>1, <3>2, <2>2, <1>e
    <2> QED BY <2>3, <2>6, <1>e, <1>r, ConsumeKeeps DEF EmitMatch
  <1>1. CASE ~LooksAhead(cur) /\ EmitMatch(cur.match_length, NoMatch)
    BY <1>1, <1>n, <1>e, <1>0
  <1>2. CASE LooksAhead(cur)
    <2>f. Method = "fizzle" BY <1>2 DEF LooksAhead
    <2>p. strstart + cur.match_length \in Nat /\ cur.strstart = strstart
      BY <1>t, <1>n, <1>c DEF TypePos, ValidAt
    <2>1. PICK nxt \in BestMatches(strstart + cur.match_length) :
             \/ EmitMatch(cur.match_length, nxt)
             \/ \E k \in Fizzles(cur, nxt) :
                  IF k < cur.match_length THEN EmitMatch(1, GrownBack(nxt, k))
                  ELSE Absorbed(GrownBack(nxt, k))
      BY <1>2, <2>f, <2>p DEF MediumStep
    <2>v. ValidAt(nxt, strstart + cur.match_length) BY <2>1, <2>p, <1>t, BestFacts
    <2>2. CASE EmitMatch(cur.match_length, nxt)
      BY <2>2, <2>v, <2>f, <1>n, <1>e DEF ValidAt
    <2>3. ASSUME NEW k \in Fizzles(cur, nxt), k < cur.match_length,
                 EmitMatch(1, GrownBack(nxt, k))
          PROVE  WindowInv'
      <3>1. ValidAt(GrownBack(nxt, k), strstart + cur.match_length - k)
            /\ k \in 1..cur.match_length /\ k >= cur.match_length - 1
        BY <2>v, <1>c, <1>t, FizzleFacts
      <3>2. strstart + cur.match_length - k = strstart + 1
        BY <3>1, <2>3, <1>n, <1>t DEF TypePos
      <3>3. 1 \in 1..MaxMatch OBVIOUS
      <3> QED BY <3>1, <3>2, <3>3, <2>3, <2>f, <1>e DEF ValidAt
    <2>4. ASSUME NEW k \in Fizzles(cur, nxt), ~(k < cur.match_length),
                 Absorbed(GrownBack(nxt, k))
          PROVE  WindowInv'
      <3>1. ValidAt(GrownBack(nxt, k), strstart + cur.match_length - k)
            /\ k \in 1..cur.match_length
        BY <2>v, <1>c, <1>t, FizzleFacts
      <3>2. strstart + cur.match_length - k = strstart
        BY <3>1, <2>4, <1>n, <1>t DEF TypePos
      <3>3. /\ next_match' \in Matches /\ pc' = "loop"
            /\ UNCHANGED <<posVars, match_start, prev_length, match_available, paramVars,
                 sym_next, avail_in, avail_out, flush, used, call, lastcall,
                 finished, owed, tallied, hist, chainVars>>
        BY <3>1, <2>4 DEF Absorbed, ValidAt
      <3>4. Ahead'
        BY <3>1, <3>2, <3>3, <2>4, <2>f, <1>r DEF Ahead, ValidAt, Absorbed, Method, Func
      <3>5. TypeOK' BY <3>3, <1>i DEF TypeOK, TypePos, TypeTag
      <3>6. Geometry' BY <3>3, <1>i, <1>r, ReadyFacts DEF Geometry
      <3>7. Control' BY <3>3, <1>i, <1>r DEF Control
      <3>8. Deferred' BY <3>3, <1>i DEF Deferred, Method, Func
      <3>9. ChainInv' BY <3>3, <1>i DEF ChainInv, Hashless
      <3>10. HistoryInv' BY <3>3, <1>i, <1>r DEF HistoryInv
      <3>11. Account => Account' BY <3>3 DEF Account, Method, Func
      <3> QED BY <3>4, <3>5, <3>6, <3>7, <3>8, <3>9, <3>10, <3>11 DEF WindowInv
    <2> QED BY <2>1, <2>2, <2>3, <2>4
  <1> QED BY <1>1, <1>2 DEF MediumStep

\* deflate_slow emits the deferred match: its bytes, less the one already
\* counted, leave the lookahead.
LEMMA LazyEmitKeeps ==
  ASSUME Narrow, WindowInv, LazyEmit
  PROVE  WindowInv'
  <1> USE Sizes
  <1>i. TypeOK /\ Geometry /\ Control /\ Deferred /\ Ahead /\ ChainInv /\ HistoryInv
    BY DEF WindowInv
  <1>r. /\ pc \in {"loop", "filled"} /\ lookahead > 0 /\ level # 0
        /\ call \in {"deflate", "params"} /\ lastcall = "more"
    BY <1>i, ReadyFacts DEF LazyEmit
  <1> DEFINE n == prev_length - 1
  <1>c. /\ n \in Nat /\ n <= lookahead /\ match_available
        /\ strstart' = strstart + n /\ lookahead' = lookahead - n
        /\ hist' = Min2(hist + n, MaxDist)
        /\ prev_length' = 0 /\ match_available' = FALSE
        /\ UNCHANGED <<fill_end, insert, high_water, match_start, paramVars, finished, chainVars>>
    BY <1>i DEF LazyEmit, TypeOK, TypePos, Deferred
  <1>t. TallyResult(n + 1, strstart + n)
    <2>1. n + 1 = prev_length /\ n + 1 \in Nat /\ strstart + n \in Int
      BY <1>i, <1>c DEF TypeOK, TypePos
    <2> QED BY <1>i, <2>1, TallyFacts DEF LazyEmit, TypeOK
  <1>n. NextResult BY <1>i, <1>r, NextFacts DEF LazyEmit, TypeOK
  <1> HIDE DEF n
  <1>z. next_match' = next_match /\ Ahead'
    BY <1>i, NothingAhead DEF LazyEmit, TypeOK
  <1>1. TypePos' BY <1>i, <1>z, <1>c, <1>t, <1>n DEF TypeOK, TypePos, TallyResult, NextResult
  <1>2. TypeTag' BY <1>i, <1>c, <1>n DEF TypeOK, TypeTag, NextResult
  <1>3. Geometry' BY <1>i, <1>r, <1>c, <1>t, <1>n DEF Geometry, TypeOK, TypePos, TallyResult, NextResult
  <1>4. Control' BY <1>i, <1>r, <1>c, <1>n DEF Control, NextResult
  <1>5. Deferred' BY <1>c DEF Deferred
  <1>6. ChainInv' BY <1>i, <1>c DEF ChainInv, Hashless
  <1>7. HistoryInv' BY <1>i, <1>r, <1>c, <1>n DEF HistoryInv, TypeOK, TypePos, NextResult
  <1>8. ASSUME DictRule = "contract" PROVE Account'
    <2>1. Account BY <1>8 DEF WindowInv
    <2>2. /\ owed = strstart - block_start + lookahead /\ tallied = strstart - block_start - 1
      BY <2>1, <1>i, <1>r, <1>c DEF Account, TypeOK, TypePos
    <2>3. /\ owed' = strstart' - block_start' + lookahead' /\ tallied' = strstart' - block_start'
      <3>1. CASE tallied' = tallied + (n + 1) /\ owed' = owed /\ block_start' = block_start
        BY <3>1, <2>2, <1>i, <1>c DEF TypeOK, TypePos
      <3>2. CASE tallied' = 0 /\ owed' = owed - (tallied + (n + 1)) /\ block_start' = strstart + n
        BY <3>2, <2>2, <1>i, <1>c DEF TypeOK, TypePos
      <3> QED BY <3>1, <3>2, <1>t DEF TallyResult
    <2>4. (sym_next' = 0) <=> (tallied' = 0) BY <1>i, <1>c, <1>t DEF TallyResult, TypeOK, TypePos
    <2> QED BY <2>3, <2>4, <1>r, <1>c, <1>n DEF Account, NextResult, TallyResult
  <1> QED BY <1>1, <1>2, <1>3, <1>4, <1>5, <1>6, <1>7, <1>8, <1>z DEF WindowInv, TypeOK

\* A search that found something leaves a match to defer.
LEMMA FoundFacts ==
  ASSUME TypePos, NEW m \in (MinMatch - 1)..MaxMatch, NEW d \in 1..MaxDist, Found(m, d)
  PROVE  /\ match_start' \in Nat /\ m \in 0..MaxMatch
         /\ m >= MinMatch => m <= lookahead /\ strstart - match_start' \in 1..MaxDist
  BY Sizes DEF Found, TypePos

\* deflate_slow emits the waiting byte and makes the next one wait.
LEMMA LazyLiteralKeeps ==
  ASSUME Narrow, WindowInv, NEW m \in (MinMatch - 1)..MaxMatch, NEW d \in 1..MaxDist,
         LazyLiteral(m, d)
  PROVE  WindowInv'
  <1> USE Sizes
  <1>i. TypeOK /\ Geometry /\ Control /\ Deferred /\ Ahead /\ ChainInv /\ HistoryInv
    BY DEF WindowInv
  <1>r. /\ pc \in {"loop", "filled"} /\ lookahead > 0 /\ level # 0
        /\ call \in {"deflate", "params"} /\ lastcall = "more"
    BY <1>i, ReadyFacts DEF LazyLiteral
  <1>c. /\ match_available /\ match_available' = match_available
        /\ strstart' = strstart + 1 /\ lookahead' = lookahead - 1
        /\ hist' = Min2(hist + 1, MaxDist) /\ prev_length' = m
        /\ UNCHANGED <<fill_end, insert, high_water, paramVars, finished, chainVars>>
    BY <1>i DEF LazyLiteral, TypeOK, TypePos
  <1>f. /\ match_start' \in Nat /\ m \in 0..MaxMatch
        /\ m >= MinMatch => m <= lookahead /\ strstart - match_start' \in 1..MaxDist
    BY <1>i, FoundFacts DEF LazyLiteral, TypeOK
  <1>t. TallyResult(1, strstart)
    BY <1>i, TallyFacts DEF LazyLiteral, LiteralBlockEnd, TypeOK, TypePos
  <1>n. NextResult BY <1>i, <1>r, NextFacts DEF LazyLiteral, TypeOK
  <1>g. strstart' - 1 - match_start' = strstart - match_start'
    BY <1>i, <1>c, <1>f DEF TypeOK, TypePos
  <1>m. Method = "slow" /\ Method' = "slow" BY <1>c DEF LazyLiteral, Method, Func
  <1>z. next_match' = next_match /\ Ahead'
    BY <1>i, NothingAhead DEF LazyLiteral, TypeOK
  <1>1. TypePos' BY <1>i, <1>z, <1>r, <1>c, <1>f, <1>t, <1>n DEF TypeOK, TypePos, TallyResult, NextResult
  <1>2. TypeTag' BY <1>i, <1>c, <1>n DEF TypeOK, TypeTag, NextResult
  <1>3. Geometry' BY <1>i, <1>r, <1>c, <1>t, <1>n DEF Geometry, TypeOK, TypePos, TallyResult, NextResult
  <1>4. Control' BY <1>i, <1>r, <1>c, <1>n DEF Control, NextResult
  <1>5. Deferred'
    <2>1. m >= MinMatch => strstart' - 1 - match_start' \in 1..MaxDist BY <1>f, <1>g
    <2>2. m >= MinMatch => m - 1 <= lookahead' BY <1>i, <1>c, <1>f DEF TypeOK, TypePos
    <2> QED BY <2>1, <2>2, <1>r, <1>c, <1>m, <1>n DEF Deferred, NextResult
  <1>6. ChainInv' BY <1>i, <1>c DEF ChainInv, Hashless
  <1>7. HistoryInv' BY <1>i, <1>r, <1>c, <1>n DEF HistoryInv, TypeOK, TypePos, NextResult
  <1>8. ASSUME DictRule = "contract" PROVE Account'
    <2>1. Account BY <1>8 DEF WindowInv
    <2>2. /\ owed = strstart - block_start + lookahead /\ tallied = strstart - block_start - 1
      BY <2>1, <1>i, <1>r, <1>c DEF Account, TypeOK, TypePos
    <2>3. /\ owed' = strstart' - block_start' + lookahead' /\ tallied' = strstart' - block_start' - 1
      <3>1. CASE tallied' = tallied + 1 /\ owed' = owed /\ block_start' = block_start
        BY <3>1, <2>2, <1>i, <1>c DEF TypeOK, TypePos
      <3>2. CASE tallied' = 0 /\ owed' = owed - (tallied + 1) /\ block_start' = strstart
        BY <3>2, <2>2, <1>i, <1>c DEF TypeOK, TypePos
      <3> QED BY <3>1, <3>2, <1>t DEF TallyResult
    <2>4. (sym_next' = 0) <=> (tallied' = 0) BY <1>i, <1>c, <1>t DEF TallyResult, TypeOK, TypePos
    <2> QED BY <2>3, <2>4, <1>r, <1>c, <1>m, <1>n DEF Account, NextResult, TallyResult
  <1> QED BY <1>1, <1>2, <1>3, <1>4, <1>5, <1>6, <1>7, <1>8, <1>z DEF WindowInv, TypeOK

\* deflate_slow makes the first byte wait.
LEMMA LazyDeferKeeps ==
  ASSUME Narrow, WindowInv, NEW m \in (MinMatch - 1)..MaxMatch, NEW d \in 1..MaxDist,
         LazyDefer(m, d)
  PROVE  WindowInv'
  <1> USE Sizes
  <1>i. TypeOK /\ Geometry /\ Control /\ Deferred /\ Ahead /\ ChainInv /\ HistoryInv
    BY DEF WindowInv
  <1>r. /\ pc \in {"loop", "filled"} /\ lookahead > 0 /\ level # 0
        /\ call \in {"deflate", "params"} /\ lastcall = "more"
    BY <1>i, ReadyFacts DEF LazyDefer
  <1>c. /\ ~match_available /\ match_available' = TRUE
        /\ strstart' = strstart + 1 /\ lookahead' = lookahead - 1
        /\ hist' = Min2(hist + 1, MaxDist) /\ prev_length' = m /\ pc' = "loop"
        /\ UNCHANGED <<block_start, fill_end, insert, high_water, paramVars, sym_next,
                       avail_in, avail_out, flush, used, call, lastcall, finished,
                       owed, tallied, chainVars>>
    BY <1>i DEF LazyDefer, TypeOK, TypePos
  <1>f. /\ match_start' \in Nat /\ m \in 0..MaxMatch
        /\ m >= MinMatch => m <= lookahead /\ strstart - match_start' \in 1..MaxDist
    BY <1>i, FoundFacts DEF LazyDefer, TypeOK
  <1>g. strstart' - 1 - match_start' = strstart - match_start'
    BY <1>i, <1>c, <1>f DEF TypeOK, TypePos
  <1>m. Method = "slow" /\ Method' = "slow" BY <1>c DEF LazyDefer, Method, Func
  <1>z. next_match' = next_match /\ Ahead'
    BY <1>i, NothingAhead DEF LazyDefer, TypeOK
  <1>1. TypePos' BY <1>i, <1>z, <1>r, <1>c, <1>f DEF TypeOK, TypePos
  <1>2. TypeTag' BY <1>i, <1>c DEF TypeOK, TypeTag
  <1>3. Geometry' BY <1>i, <1>r, <1>c DEF Geometry, TypeOK, TypePos
  <1>4. Control' BY <1>i, <1>r, <1>c DEF Control
  <1>5. Deferred'
    <2>1. m >= MinMatch => strstart' - 1 - match_start' \in 1..MaxDist BY <1>f, <1>g
    <2>2. m >= MinMatch => m - 1 <= lookahead' BY <1>i, <1>c, <1>f DEF TypeOK, TypePos
    <2> QED BY <2>1, <2>2, <1>r, <1>c, <1>m DEF Deferred
  <1>6. ChainInv' BY <1>i, <1>c DEF ChainInv, Hashless
  <1>7. HistoryInv' BY <1>i, <1>r, <1>c DEF HistoryInv, TypeOK, TypePos
  <1>8. ASSUME DictRule = "contract" PROVE Account'
    <2>1. Account BY <1>8 DEF WindowInv
    <2> QED BY <2>1, <1>i, <1>r, <1>c, <1>m DEF Account, TypeOK, TypePos
  <1> QED BY <1>1, <1>2, <1>3, <1>4, <1>5, <1>6, <1>7, <1>8, <1>z DEF WindowInv, TypeOK

(* What Return(lc) leaves behind.                                          *)
ReturnResult(lc) ==
  /\ pc' \in {"idle", "params"} /\ call' \in {"none", "params"}
  /\ (pc' = "idle") <=> (call' = "none")
  /\ lastcall' = lc /\ flush' = flush /\ used' = used

\* Returning from deflate(), to the caller or to deflateParams.
LEMMA ReturnFacts ==
  ASSUME call \in {"deflate", "params"}, NEW lc, Return(lc)
  PROVE  ReturnResult(lc)
  BY DEF Return, ReturnResult

\* Entering fill_window: the lookahead is short.
LEMMA CallFillKeeps ==
  ASSUME Narrow, WindowInv, CallFill
  PROVE  WindowInv'
  <1> USE Sizes
  <1>i. TypeOK /\ Geometry /\ Control /\ Deferred /\ Ahead /\ ChainInv /\ HistoryInv
    BY DEF WindowInv
  <1>f. lookahead < MinLookahead BY <1>i DEF CallFill, Need, TypeOK, TypePos
  <1>1. TypeOK' BY <1>i DEF CallFill, TypeOK, TypePos, TypeTag
  <1>2. Geometry' BY <1>i, <1>f DEF CallFill, Geometry
  <1>3. Control' BY <1>i DEF CallFill, Control
  <1>4. Deferred' BY <1>i DEF CallFill, Deferred, Method, Func
  <1>5. ChainInv' BY <1>i DEF CallFill, ChainInv, Hashless
  <1>6. HistoryInv' BY <1>i DEF CallFill, HistoryInv
  <1>7. Account => Account' BY DEF CallFill, Account, Method, Func
  <1>z. Ahead' BY <1>i DEF CallFill, Ahead, Method, Func
  <1> QED BY <1>1, <1>2, <1>3, <1>4, <1>5, <1>6, <1>7, <1>z DEF WindowInv

\* Returning need_more.
LEMMA NeedMoreKeeps ==
  ASSUME Narrow, WindowInv, NeedMore
  PROVE  WindowInv'
  <1>i. TypeOK /\ Geometry /\ Control /\ Deferred /\ Ahead /\ ChainInv /\ HistoryInv
    BY DEF WindowInv
  <1>c. call \in {"deflate", "params"} BY <1>i DEF NeedMore, Control, TypeOK, TypeTag
  <1>r. ReturnResult("more") /\ avail_in' \in Nat
    BY <1>i, <1>c, ReturnFacts DEF NeedMore, LeftIn, TypeOK, TypePos
  <1>m. next_match' \in Matches BY Sizes DEF NeedMore, NoMatch, Match, Matches
  <1>1. TypeOK' BY <1>i, <1>m, <1>r DEF NeedMore, TypeOK, TypePos, TypeTag, ReturnResult
  <1>2. Geometry' BY <1>i, <1>r DEF NeedMore, Geometry, ReturnResult
  <1>3. Control' BY <1>i, <1>c, <1>r DEF NeedMore, Control, ReturnResult
  <1>4. Deferred' BY <1>i, <1>r DEF NeedMore, Deferred, Method, Func, ReturnResult
  <1>5. ChainInv' BY <1>i DEF NeedMore, ChainInv, Hashless
  <1>6. HistoryInv' BY <1>i, <1>r DEF NeedMore, HistoryInv, ReturnResult
  <1>7. Account => Account' BY <1>c, <1>r DEF NeedMore, Account, Method, Func, ReturnResult
  <1>z. Ahead' BY DEF NeedMore, Ahead, NoMatch, Match
  <1> QED BY <1>1, <1>2, <1>3, <1>4, <1>5, <1>6, <1>7, <1>z DEF WindowInv

\* Leaving the loop with an empty lookahead.
LEMMA EndOfInputKeeps ==
  ASSUME Narrow, WindowInv, EndOfInput
  PROVE  WindowInv'
  <1>i. TypeOK /\ Geometry /\ Control /\ Deferred /\ Ahead /\ ChainInv /\ HistoryInv
    BY DEF WindowInv
  <1>m. next_match' \in Matches BY Sizes DEF EndOfInput, NoMatch, Match, Matches
  <1>1. TypeOK' BY <1>i, <1>m DEF EndOfInput, TypeOK, TypePos, TypeTag
  <1>2. Geometry' BY <1>i DEF EndOfInput, Geometry
  <1>3. Control' BY <1>i DEF EndOfInput, Control
  <1>4. Deferred' BY <1>i DEF EndOfInput, Deferred, Method, Func
  <1>5. ChainInv' BY <1>i DEF EndOfInput, ChainInv, Hashless
  <1>6. HistoryInv' BY <1>i DEF EndOfInput, HistoryInv
  <1>7. Account => Account' BY DEF EndOfInput, Account, Method, Func
  <1>z. Ahead' BY DEF EndOfInput, Ahead, NoMatch, Match
  <1> QED BY <1>1, <1>2, <1>3, <1>4, <1>5, <1>6, <1>7, <1>z DEF WindowInv

\* The flush at the end of the input and block_done.  The two ways EndBlock goes
\* agree on all but the positions, which <1>b names.
LEMMA EndBlockKeeps ==
  ASSUME Narrow, WindowInv, EndBlock
  PROVE  WindowInv'
  <1> USE Sizes
  <1>i. TypeOK /\ Geometry /\ Control /\ Deferred /\ Ahead /\ ChainInv /\ HistoryInv
    BY DEF WindowInv
  <1> DEFINE lit  == IF Method = "slow" /\ match_available THEN 1 ELSE 0
             syms == sym_next + lit
             ins  == IF Hashless(level, strategy) THEN 0 ELSE Min2(strstart, MinMatch - 1)
             bs   == IF syms > 0 THEN strstart ELSE block_start
  <1>c. /\ pc = "end" /\ call \in {"deflate", "params"} /\ level # 0
        /\ lookahead = 0 /\ lookahead' = 0
    BY <1>i DEF EndBlock, Control, TypeOK, TypeTag
  <1>u. /\ sym_next' = 0 /\ tallied' = 0 /\ owed' = owed - (tallied + lit)
        /\ UNCHANGED <<fill_end, high_water, match_start, prev_length, next_match, paramVars>>
    BY DEF EndBlock
  <1>w. /\ match_available' = (match_available /\ lit = 0)
        /\ finished' = (flush = "finish")
    BY DEF EndBlock
  <1>n. ins \in Nat /\ lit \in {0, 1} /\ syms \in Nat
    BY <1>i DEF TypeOK, TypePos
  <1>d. prev_length < MinMatch BY <1>i, <1>c DEF Deferred, TypeOK, TypePos
  <1>a. Account => /\ owed = strstart - block_start /\ tallied + lit = strstart - block_start
                   /\ syms = 0 => strstart = block_start
    BY <1>i, <1>c, <1>n DEF Account, TypeOK, TypePos, TypeTag
  <1>o. Account => owed' = 0 BY <1>i, <1>a, <1>u, <1>n DEF TypeOK, TypePos
  <1>m. Account => match_available' = FALSE
    <2>1. ASSUME Account, match_available PROVE lit = 1 BY <2>1 DEF Account
    <2>2. Account => ~(match_available /\ lit = 0) BY <2>1
    <2> QED BY <2>2, <1>w
  \* Where the two ways differ.
  <1>v. /\ ReturnResult(lastcall') /\ lastcall' \in {"more", "flushed"}
        /\ avail_in' \in Nat /\ avail_out' \in Nat /\ insert' \in Nat
        /\ \/ strstart' = strstart /\ block_start' \in {strstart, bs} /\ hist' \in {0, hist}
           \/ strstart' = 0 /\ block_start' = 0 /\ hist' = 0
    <2>1. CASE /\ block_start' = strstart /\ insert' = ins
               /\ avail_out' \in (IF flush = "finish" THEN SpaceLeft ELSE {0})
               /\ Return("more") /\ avail_in' = LeftIn
               /\ UNCHANGED <<strstart, hist>>
      BY <2>1, <1>i, <1>c, <1>n, ReturnFacts DEF LeftIn, TypeOK, TypePos, ReturnResult
    <2>2. CASE BlockDone(bs, ins)
      BY <2>2, <1>i, <1>c, <1>n, ReturnFacts DEF BlockDone, LeftIn, TypeOK, TypePos, ReturnResult
    <2> QED BY <2>1, <2>2 DEF EndBlock
  <1>h. /\ head_ok' \in BOOLEAN /\ prev_ok' \in BOOLEAN
        /\ head_ok => head_ok'
        /\ prev_ok => prev_ok'
    <2>1. CASE UNCHANGED chainVars BY <2>1, <1>i DEF TypeOK, TypeTag
    <2>2. CASE BlockDone(bs, ins) BY <2>2 DEF BlockDone
    <2> QED BY <2>1, <2>2 DEF EndBlock
  \* The primed positions, under names of their own.
  <1>b. PICK x \in Nat, y \in Int, z \in Nat :
           /\ strstart' = x /\ block_start' = y /\ hist' = z
           /\ y <= x /\ x <= strstart /\ z <= MaxDist /\ z <= x
           /\ Account => x - y = 0
    <2>1. CASE strstart' = strstart /\ block_start' \in {strstart, bs} /\ hist' \in {0, hist}
      <3>1. /\ strstart \in Nat /\ strstart \in Int /\ hist \in Nat /\ hist <= MaxDist /\ hist <= strstart
            /\ bs \in Int /\ bs <= strstart /\ strstart <= strstart /\ 0 \in Nat /\ 0 <= strstart /\ 0 <= MaxDist
        BY <1>i, <1>c DEF TypeOK, TypePos, TypeTag, Geometry, HistoryInv, Control
      <3>2. Account => strstart - bs = 0 /\ strstart - strstart = 0
        BY <1>i, <1>a, <1>n DEF TypeOK, TypePos
      <3> QED BY <2>1, <3>1, <3>2, Zenon
    <2>2. CASE strstart' = 0 /\ block_start' = 0 /\ hist' = 0
      BY <2>2, <1>i DEF TypeOK, TypePos
    <2> QED BY <2>1, <2>2, <1>v
  <1> HIDE DEF lit, syms, ins, bs
  <1>1. TypePos'
    <2>1. owed' \in Int BY <1>i, <1>u, <1>n DEF TypeOK, TypePos
    <2> QED BY <2>1, <1>i, <1>c, <1>u, <1>v, <1>b DEF TypeOK, TypePos, ReturnResult
  <1>2. TypeTag'
    <2>1. match_available' \in BOOLEAN /\ finished' \in BOOLEAN BY <1>w
    <2> QED BY <2>1, <1>i, <1>u, <1>v, <1>h DEF TypeOK, TypeTag, ReturnResult
  <1>3. Geometry'
    <2>1. fill_end' = fill_end /\ pc' \in {"idle", "params"} BY <1>u, <1>v DEF ReturnResult
    <2> QED BY <2>1, <1>i, <1>c, <1>b DEF Geometry, TypeOK, TypePos
  <1>4. Control' BY <1>i, <1>c, <1>u, <1>v DEF Control, ReturnResult
  <1>5. Deferred' BY <1>i, <1>d, <1>u DEF Deferred, TypeOK, TypePos
  <1>6. ChainInv'
    <2>1. level' = level /\ strategy' = strategy BY <1>u
    <2> QED BY <2>1, <1>i, <1>h DEF ChainInv, Hashless
  <1>7. HistoryInv' BY <1>b, <1>v DEF HistoryInv, ReturnResult
  <1>8. ASSUME Account PROVE Account'
    <2>1. /\ owed' = strstart' - block_start' + lookahead'
          /\ tallied' = strstart' - block_start' - 0
      BY <1>8, <1>c, <1>u, <1>b, <1>o
    <2>2. call' # "dict" BY <1>v DEF ReturnResult
    <2> QED BY <2>1, <2>2, <1>8, <1>c, <1>u, <1>o, <1>m DEF Account
  <1>z. Ahead' BY <1>i, <1>c, <1>u, NothingAhead DEF TypeOK
  <1> QED BY <1>1, <1>2, <1>3, <1>4, <1>5, <1>6, <1>7, <1>8, <1>z DEF WindowInv, TypeOK

\* Leaving the copy loop of deflate_stored.
LEMMA CopyDoneKeeps ==
  ASSUME Narrow, WindowInv, CopyDone
  PROVE  WindowInv'
  <1>i. TypeOK /\ Geometry /\ Control /\ Deferred /\ Ahead /\ ChainInv /\ HistoryInv
    BY DEF WindowInv
  <1>1. TypeOK' BY <1>i DEF CopyDone, TypeOK, TypePos, TypeTag
  <1>2. Geometry' BY <1>i DEF CopyDone, Geometry
  <1>3. Control' BY <1>i DEF CopyDone, Control
  <1>4. Deferred' BY <1>i DEF CopyDone, Deferred, Method, Func
  <1>5. ChainInv' BY <1>i DEF CopyDone, ChainInv, Hashless
  <1>6. HistoryInv' BY <1>i DEF CopyDone, HistoryInv
  <1>7. Account => Account' BY DEF CopyDone, Account, Method, Func
  <1>z. Ahead' BY <1>i, NothingAhead DEF CopyDone, TypeOK
  <1> QED BY <1>1, <1>2, <1>3, <1>4, <1>5, <1>6, <1>7, <1>z DEF WindowInv

\* w bytes leave the window, k bytes of input follow once it is drained.
LEMMA StoredCopyKeeps ==
  ASSUME Narrow, WindowInv, StoredCopy
  PROVE  WindowInv'
  <1> USE Sizes
  <1>i. TypeOK /\ Geometry /\ Control /\ Deferred /\ Ahead /\ ChainInv /\ HistoryInv
    BY DEF WindowInv
  <1>c. /\ pc = "copy" /\ level = 0 /\ call \in {"deflate", "params"} /\ lookahead = 0
    BY <1>i DEF StoredCopy, Control, TypeOK, TypeTag
  <1>u. UNCHANGED <<strstart, lookahead, fill_end, insert, high_water, lazyVars,
                    paramVars, sym_next, flush, call, lastcall, tallied, chainVars>>
    BY DEF StoredCopy
  <1>d. DirectLen \in Nat /\ DirectLen <= Left + avail_in /\ Left \in Nat
        /\ DirectLen <= avail_out - Hdr
    BY <1>i, BlockAssumption DEF StoredCopy, CopyBreaks, DirectLen, Left, TypeOK, TypePos, Geometry
  <1>p. PICK w \in Nat, k \in Nat :
          /\ w <= strstart - block_start /\ k <= avail_in
          /\ k > 0 => block_start + w = strstart
          /\ block_start' = block_start + w /\ owed' = owed - w
          /\ avail_in' = avail_in - k /\ used' = used + k
          /\ hist' = Min2(hist + k, MaxDist)
    <2> DEFINE w == Min2(Left, DirectLen)
               k == DirectLen - w
    <2>1. /\ w \in Nat /\ k \in Nat /\ w <= Left /\ k <= avail_in
          /\ k > 0 => block_start + w = strstart
      BY <1>d, <1>i DEF Left, TypeOK, TypePos
    <2>2. /\ block_start' = block_start + w /\ owed' = owed - w
          /\ avail_in' = avail_in - k /\ used' = used + k
          /\ hist' = Min2(hist + k, MaxDist)
      BY DEF StoredCopy
    <2> HIDE DEF w, k
    <2> QED BY <2>1, <2>2 DEF Left
  <1>o. avail_out' \in Nat
    BY <1>d, <1>i, BlockAssumption DEF StoredCopy, TypeOK, TypePos
  <1>q. /\ finished' \in BOOLEAN
        /\ \/ finished' /\ pc' = "update"
           \/ ~finished' /\ pc' = "copy"
    BY DEF StoredCopy
  <1>1. TypePos' BY <1>i, <1>u, <1>p, <1>o DEF TypeOK, TypePos
  <1>2. TypeTag' BY <1>i, <1>u, <1>q DEF TypeOK, TypeTag
  <1>3. Geometry' BY <1>i, <1>c, <1>u, <1>p, <1>q DEF Geometry, TypeOK, TypePos
  <1>4. Control' BY <1>i, <1>c, <1>u, <1>q DEF Control
  <1>5. Deferred' BY <1>i, <1>c, <1>u DEF Deferred, TypeOK, TypePos
  <1>6. ChainInv' BY <1>i, <1>u DEF ChainInv, Hashless
  <1>7. HistoryInv' BY <1>i, <1>c, <1>u, <1>p, <1>q DEF HistoryInv, TypeOK, TypePos
  <1>8. ASSUME Account PROVE Account'
    <2>1. owed = strstart - block_start /\ tallied = 0 /\ sym_next = 0 /\ ~match_available
      BY <1>8, <1>i, <1>c DEF Account, Method, TypeOK, TypePos
    <2>2. /\ owed' = strstart' - block_start' + lookahead'
          /\ lastcall # "more" => owed' = 0
          /\ block_start' >= 0
      BY <2>1, <1>8, <1>i, <1>c, <1>u, <1>p DEF Account, TypeOK, TypePos
    <2>3. level' = 0 /\ call' # "dict" /\ ~match_available' /\ tallied' = 0 /\ sym_next' = 0 /\ lastcall' = lastcall
      BY <2>1, <1>c, <1>u
    <2> QED BY <2>2, <2>3 DEF Account
  <1>z. Ahead' BY <1>i, <1>c, <1>u, NothingAhead DEF TypeOK
  <1> QED BY <1>1, <1>2, <1>3, <1>4, <1>5, <1>6, <1>7, <1>8, <1>z DEF WindowInv, TypeOK

\* Putting the copied bytes into the window, with or without a slide.
LEMMA StoredUpdateKeeps ==
  ASSUME Narrow, WindowInv, StoredUpdate
  PROVE  WindowInv'
  <1> USE Sizes
  <1>i. TypeOK /\ Geometry /\ Control /\ Deferred /\ Ahead /\ ChainInv /\ HistoryInv
    BY DEF WindowInv
  <1>c. /\ pc = "update" /\ level = 0 /\ call \in {"deflate", "params"} /\ lookahead = 0
    BY <1>i DEF StoredUpdate, Control, TypeOK, TypeTag
  <1>e. fill_end + MinLookahead = WindowSize
    BY <1>i, <1>c, StoredEnd DEF TypeOK, Geometry
  <1>u. UNCHANGED <<lookahead, fill_end, lazyVars, paramVars, sym_next, finished, owed, tallied>>
    BY DEF StoredUpdate
  <1> DEFINE moved == used > 0 /\ ~finished
             ss  == IF moved THEN UpdateStart ELSE strstart
             bs  == IF moved THEN ss ELSE block_start
             ins == IF moved THEN UpdateInsert ELSE insert
             done == flush \notin {"no", "finish"} /\ avail_in = 0 /\ ss = bs
             full == done /\ flush = "full"
             restart == full /\ lookahead = 0
  <1>m. /\ ss \in Nat /\ bs \in Int /\ ins \in Nat /\ bs <= ss /\ ss <= WindowSize
        /\ ss - bs = strstart - block_start
        /\ block_start >= 0 => bs >= 0
        /\ ~finished => hist <= ss
    <2>1. CASE moved
      <3>1. /\ UpdateStart \in Nat /\ UpdateStart <= WindowSize /\ hist <= UpdateStart
        BY <2>1, <1>i, <1>c DEF UpdateStart, StoredSlides, TypeOK, TypePos, HistoryInv
      <3>2. UpdateInsert \in Nat
        BY <2>1, <1>i DEF UpdateInsert, StoredSlides, TypeOK, TypePos
      <3>3. block_start = strstart
        BY <2>1, <1>i, <1>c DEF Geometry
      <3> QED BY <2>1, <3>1, <3>2, <3>3, <1>i DEF TypeOK, TypePos
    <2>2. CASE ~moved
      BY <2>2, <1>i, <1>c, <1>e DEF TypeOK, TypePos, Geometry, HistoryInv
    <2> QED BY <2>1, <2>2
  <1>b. /\ high_water' = Max2(high_water, ss)
        /\ strstart' = IF restart THEN 0 ELSE ss
        /\ block_start' = IF restart THEN 0 ELSE bs
        /\ insert' = IF restart THEN 0 ELSE ins
        /\ hist' = IF full THEN 0 ELSE hist
    BY DEF StoredUpdate
  <1>h. head_ok' \in BOOLEAN /\ prev_ok' \in BOOLEAN BY DEF StoredUpdate
  <1>v. /\ avail_in' \in Nat /\ avail_out' \in Nat /\ flush' = flush /\ used' = used
        /\ \/ finished /\ ReturnResult("more")
           \/ ~finished /\ ReturnResult("more")
           \/ ~finished /\ done /\ ReturnResult("flushed")
           \/ ~finished /\ pc' = "store" /\ call' = call /\ lastcall' = lastcall
    <2>1. CASE finished /\ Return("more") /\ avail_in' = LeftIn /\ UNCHANGED avail_out
      BY <2>1, <1>i, <1>c, ReturnFacts DEF LeftIn, TypeOK, TypePos, ReturnResult
    <2>2. CASE /\ ~finished /\ done /\ avail_out' \in SpaceLeft
               /\ Return(IF avail_out' > 0 THEN "flushed" ELSE "more")
               /\ avail_in' = LeftIn
      <3>1. ReturnResult(IF avail_out' > 0 THEN "flushed" ELSE "more")
        BY <2>2, <1>c, ReturnFacts
      <3>2. avail_out' \in Nat /\ avail_in' \in Nat BY <2>2, <1>i DEF LeftIn, TypeOK, TypePos
      <3>3. CASE avail_out' > 0 BY <3>1, <3>2, <3>3, <2>2 DEF ReturnResult
      <3>4. CASE ~(avail_out' > 0) BY <3>1, <3>2, <3>4, <2>2 DEF ReturnResult
      <3> QED BY <3>3, <3>4
    <2>3. CASE /\ ~finished /\ ~done /\ pc' = "store"
               /\ UNCHANGED <<avail_in, avail_out, flush, used, call, lastcall>>
      BY <2>3, <1>i DEF TypeOK, TypePos
    <2> QED BY <2>1, <2>2, <2>3 DEF StoredUpdate
  <1>d. done => ss - bs = 0 BY <1>m
  <1> HIDE DEF moved, ss, bs, ins, done
  <1>1. TypePos' BY <1>i, <1>u, <1>m, <1>b, <1>v DEF TypeOK, TypePos
  <1>2. TypeTag' BY <1>i, <1>u, <1>h, <1>v DEF TypeOK, TypeTag, ReturnResult
  <1>3. Geometry'
    <2>1. fill_end' = fill_end /\ lookahead' = 0 /\ pc' \in {"idle", "params", "store"}
      BY <1>c, <1>u, <1>v DEF ReturnResult
    <2> QED BY <2>1, <1>i, <1>e, <1>m, <1>b DEF Geometry, TypeOK, TypePos
  <1>4. Control' BY <1>i, <1>c, <1>u, <1>v DEF Control, ReturnResult
  <1>5. Deferred' BY <1>i, <1>c, <1>u DEF Deferred, TypeOK, TypePos
  <1>6. ChainInv' BY <1>c, <1>u DEF ChainInv, Hashless
  <1>7. HistoryInv'
    <2>1. pc' \in {"idle", "params", "store"} /\ finished' = finished BY <1>u, <1>v DEF ReturnResult
    <2> QED BY <2>1, <1>i, <1>m, <1>b DEF HistoryInv, TypeOK, TypePos
  <1>8. ASSUME Account PROVE Account'
    <2>1. owed = strstart - block_start /\ tallied = 0 /\ sym_next = 0 /\ ~match_available
      BY <1>8, <1>i, <1>c DEF Account, Method, TypeOK, TypePos
    <2>2. owed' = strstart' - block_start' + lookahead' /\ block_start' >= 0
      BY <2>1, <1>8, <1>i, <1>c, <1>u, <1>m, <1>b, <1>d DEF Account, TypeOK, TypePos
    <2>3. lastcall' # "more" => owed' = 0
      BY <2>1, <1>8, <1>i, <1>u, <1>v, <1>m, <1>d DEF Account, ReturnResult, TypeOK, TypePos
    <2>4. level' = 0 /\ ~match_available' /\ tallied' = 0 /\ sym_next' = 0 BY <2>1, <1>c, <1>u
    <2>5. call' # "dict" BY <1>c, <1>v DEF ReturnResult
    <2> QED BY <2>2, <2>3, <2>4, <2>5 DEF Account
  <1>z. Ahead' BY <1>i, <1>c, <1>u, NothingAhead DEF TypeOK
  <1> QED BY <1>1, <1>2, <1>3, <1>4, <1>5, <1>6, <1>7, <1>8, <1>z DEF WindowInv, TypeOK

\* Filling the window from the input, with or without a slide.
LEMMA StoredFillKeeps ==
  ASSUME Narrow, WindowInv, StoredFill
  PROVE  WindowInv'
  <1> USE Sizes
  <1>i. TypeOK /\ Geometry /\ Control /\ Deferred /\ Ahead /\ ChainInv /\ HistoryInv
    BY DEF WindowInv
  <1>c. /\ pc = "store" /\ level = 0 /\ call \in {"deflate", "params"} /\ lookahead = 0
        /\ ~finished
    BY <1>i DEF StoredFill, Control, TypeOK, TypeTag
  <1>e. fill_end + MinLookahead = WindowSize
    BY <1>i, <1>c, StoredEnd DEF TypeOK, Geometry
  <1>u. UNCHANGED <<lookahead, fill_end, lazyVars, paramVars, sym_next, tallied>>
    BY DEF StoredFill
  <1>r. ReturnResult("more") BY <1>c, ReturnFacts DEF StoredFill
  \* slide positions, n bytes read, a block of len bytes.
  <1>p. PICK slide \in Nat, n \in Nat, len \in Nat :
          /\ slide = 0 \/ (strstart - slide >= W /\ slide <= block_start)
          /\ strstart - slide + n <= WindowSize /\ n <= avail_in
          /\ len <= strstart - block_start + n
          /\ strstart' = strstart - slide + n
          /\ block_start' = block_start - slide + len
          /\ owed' = owed + n - len
          /\ hist' = Min2(hist + n, MaxDist)
          /\ high_water' = Max2(high_water, strstart - slide + n)
          /\ avail_in' = IF call = "params" THEN avail_in - n ELSE 0
          /\ insert' \in Nat /\ avail_out' \in Nat
    <2> DEFINE room  == WindowSize - strstart
               slide == IF avail_in > room /\ block_start >= W
                        THEN Min2(block_start, strstart - W) ELSE 0
               ss0   == strstart - slide
               n     == Min2(room + slide, avail_in)
               i0    == IF slide > 0 THEN Min2(insert, ss0) ELSE insert
               ss    == ss0 + n
               bs    == block_start - slide
               rest  == avail_in - n
               have  == Min2(PendBuf - Hdr, MaxStored)
               left  == ss - bs
               emit  == \/ left >= Min2(have, W)
                        \/ (left > 0 \/ flush = "finish") /\ flush # "no" /\ rest = 0 /\ left <= have
               len   == IF emit THEN Min2(left, have) ELSE 0
    <2>1. room \in Nat BY <1>i, <1>c, <1>e DEF Geometry, TypeOK, TypePos
    <2>2. slide \in Nat /\ ss0 \in Nat /\ (slide = 0 \/ (strstart - slide >= W /\ slide <= block_start))
      BY <2>1, <1>i DEF Geometry, TypeOK, TypePos
    <2> HIDE DEF slide
    <2>3. n \in Nat /\ n <= avail_in /\ ss <= WindowSize /\ i0 \in Nat
      BY <2>1, <2>2, <1>i DEF TypeOK, TypePos
    <2>4. left = strstart - block_start + n /\ left \in Nat
      BY <2>2, <2>3, <1>i DEF Geometry, TypeOK, TypePos
    <2>5. have \in Nat BY BlockAssumption
    <2> HIDE DEF n, have, left, emit
    <2>6. len \in Nat /\ len <= strstart - block_start + n
      BY <2>4, <2>5, <1>i DEF TypeOK, TypePos
    <2>7. i0 + Min2(n, W - i0) \in Nat BY <2>3
    <2>8. /\ strstart' = ss /\ block_start' = bs + len
          /\ insert' = i0 + Min2(n, W - i0)
          /\ high_water' = Max2(high_water, ss)
          /\ hist' = Min2(hist + n, MaxDist)
          /\ owed' = owed + n - len
          /\ avail_out' \in (IF emit THEN SpaceLeft ELSE {avail_out})
          /\ avail_in' = IF call = "params" THEN rest ELSE 0
      BY DEF StoredFill, slide, n, have, left, emit
    <2>9. avail_out' \in Nat BY <2>8, <1>i DEF TypeOK, TypePos
    <2> HIDE DEF len, i0
    <2> QED BY <2>2, <2>3, <2>6, <2>7, <2>8, <2>9
  <1>h. head_ok' \in BOOLEAN /\ prev_ok' \in BOOLEAN /\ finished' \in BOOLEAN BY DEF StoredFill
  <1>1. TypePos' BY <1>i, <1>c, <1>u, <1>r, <1>p DEF TypeOK, TypePos, ReturnResult
  <1>2. TypeTag' BY <1>i, <1>u, <1>h, <1>r DEF TypeOK, TypeTag, ReturnResult
  <1>3. Geometry'
    <2>1. fill_end' = fill_end /\ lookahead' = 0 /\ pc' \in {"idle", "params"}
      BY <1>c, <1>u, <1>r DEF ReturnResult
    <2> QED BY <2>1, <1>i, <1>e, <1>p DEF Geometry, TypeOK, TypePos
  <1>4. Control' BY <1>i, <1>c, <1>u, <1>r DEF Control, ReturnResult
  <1>5. Deferred' BY <1>i, <1>c, <1>u DEF Deferred, TypeOK, TypePos
  <1>6. ChainInv' BY <1>c, <1>u DEF ChainInv, Hashless
  <1>7. HistoryInv'
    <2>1. pc' \in {"idle", "params"} BY <1>r DEF ReturnResult
    <2>2. hist \in Nat /\ hist <= strstart /\ hist <= MaxDist
      BY <1>i, <1>c DEF HistoryInv, TypeOK, TypePos
    <2> QED BY <2>1, <2>2, <1>i, <1>p DEF HistoryInv, TypeOK, TypePos
  <1>8. ASSUME Account PROVE Account'
    <2>1. owed = strstart - block_start /\ tallied = 0 /\ sym_next = 0 /\ ~match_available
      BY <1>8, <1>i, <1>c DEF Account, Method, TypeOK, TypePos
    <2>2. owed' = strstart' - block_start' + lookahead' /\ block_start' >= 0
      BY <2>1, <1>8, <1>i, <1>c, <1>u, <1>p DEF Account, TypeOK, TypePos
    <2>3. level' = 0 /\ ~match_available' /\ tallied' = 0 /\ sym_next' = 0 BY <2>1, <1>c, <1>u
    <2>4. call' # "dict" /\ lastcall' = "more" BY <1>r DEF ReturnResult
    <2> QED BY <2>2, <2>3, <2>4 DEF Account
  <1>z. Ahead' BY <1>i, <1>c, <1>u, NothingAhead DEF TypeOK
  <1> QED BY <1>1, <1>2, <1>3, <1>4, <1>5, <1>6, <1>7, <1>8, <1>z DEF WindowInv, TypeOK

\* Entering deflate().
LEMMA DeflateKeeps ==
  ASSUME Narrow, WindowInv, NEW n \in InSizes, NEW o \in OutSizes, NEW f \in Flushes,
         Deflate(n, o, f)
  PROVE  WindowInv'
  <1>i. TypeOK /\ Geometry /\ Control /\ Deferred /\ Ahead /\ ChainInv /\ HistoryInv
    BY DEF WindowInv
  <1>s. /\ pc = "idle" /\ ~finished /\ avail_in' \in Nat /\ avail_out' \in Nat
        /\ flush' \in Flushes /\ used' = 0 /\ pc' = (IF level = 0 THEN "copy" ELSE "loop")
        /\ call' = "deflate" /\ lastcall' = "more"
        /\ UNCHANGED <<posVars, lazyVars, paramVars, sym_next, finished,
                       owed, tallied, hist, chainVars>>
    BY CallAssumption DEF Deflate, Start
  <1>c. call = "none" BY <1>i, <1>s DEF Control
  <1>1. TypeOK' BY <1>i, <1>s DEF TypeOK, TypePos, TypeTag
  <1>2. Geometry' BY <1>i, <1>s DEF Geometry
  <1>3. Control' BY <1>i, <1>c, <1>s DEF Control
  <1>4. Deferred' BY <1>i, <1>s DEF Deferred, Method, Func
  <1>5. ChainInv' BY <1>i, <1>s DEF ChainInv, Hashless
  <1>6. HistoryInv' BY <1>i, <1>s DEF HistoryInv, TypeOK, TypePos
  <1>7. Account => Account' BY <1>c, <1>s DEF Account, Method, Func
  <1>z. Ahead' BY <1>i, <1>s, NothingAhead DEF TypeOK
  <1> QED BY <1>1, <1>2, <1>3, <1>4, <1>5, <1>6, <1>7, <1>z DEF WindowInv

\* deflateParams enters deflate(Z_BLOCK).
LEMMA ParamsFlushKeeps ==
  ASSUME Narrow, WindowInv, NEW l \in Levels, NEW s \in Strategies,
         NEW n \in InSizes, NEW o \in OutSizes, ParamsFlush(l, s, n, o)
  PROVE  WindowInv'
  <1>i. TypeOK /\ Geometry /\ Control /\ Deferred /\ Ahead /\ ChainInv /\ HistoryInv
    BY DEF WindowInv
  <1>s. /\ pc = "idle" /\ ~finished /\ lastcall # "init"
        /\ want' \in [level : Levels, strategy : Strategies] /\ call' = "params"
        /\ avail_in' \in Nat /\ avail_out' \in Nat /\ flush' = "block" /\ used' = 0
        /\ \/ pc' = (IF level = 0 THEN "copy" ELSE "loop") /\ lastcall' = "more"
           \/ pc' = "params" /\ lastcall' = lastcall
        /\ UNCHANGED <<level, strategy, posVars, lazyVars, sym_next, finished,
                       owed, tallied, hist, chainVars>>
    BY CallAssumption DEF ParamsFlush, MustFlush, Start
  <1>c. call = "none" BY <1>i, <1>s DEF Control
  <1>1. TypePos' BY <1>i, <1>s DEF TypeOK, TypePos
  <1>2. TypeTag' BY <1>i, <1>s DEF TypeOK, TypeTag
  <1>3. Geometry' BY <1>i, <1>s DEF Geometry
  <1>4. Control' BY <1>i, <1>c, <1>s DEF Control
  <1>5. Deferred' BY <1>i, <1>s DEF Deferred, Method, Func
  <1>6. ChainInv' BY <1>i, <1>s DEF ChainInv, Hashless
  <1>7. HistoryInv' BY <1>i, <1>s DEF HistoryInv, TypeOK, TypePos
  <1>8. Account => Account' BY <1>c, <1>s DEF Account, Method, Func
  <1>z. Ahead' BY <1>i, <1>s, NothingAhead DEF TypeOK
  <1> QED BY <1>1, <1>2, <1>3, <1>4, <1>5, <1>6, <1>7, <1>8, <1>z DEF WindowInv, TypeOK

\* A change of level and strategy leaves chains that the new ones may follow.
LEMMA ApplyChains ==
  ASSUME TypeOK, ChainInv, NEW l \in Levels, NEW s \in Strategies, Apply(l, s)
  PROVE  ChainInv' /\ head_ok' \in BOOLEAN /\ prev_ok' \in BOOLEAN /\ insert' \in Nat
  <1>1. head_ok' \in BOOLEAN /\ prev_ok' \in BOOLEAN BY DEF Apply
  <1>2. insert' \in Nat BY Sizes DEF Apply, TypeOK, TypePos
  <1>3. ChainInv'
    <2> SUFFICES ASSUME ~Hashless(l, s) PROVE head_ok' /\ (l = 1 \/ prev_ok')
      BY DEF ChainInv, Hashless, Apply
    <2>1. CASE StaleChain(l, s) BY <2>1 DEF Apply
    <2>2. CASE ~StaleChain(l, s)
      <3>1. Hashless(l, s) = Hashless(level, strategy) /\ ~(level = 1 /\ l # 1)
        BY <2>2 DEF StaleChain, Hashless
      <3>2. head_ok /\ (l = 1 \/ prev_ok) BY <3>1 DEF ChainInv
      <3> QED BY <3>2 DEF Apply
    <2> QED BY <2>1, <2>2
  <1> QED BY <1>1, <1>2, <1>3

\* Between blocks and with no lookahead nothing is tallied or deferred.
LEMMA NothingOpen ==
  ASSUME TypeOK, Account, call # "dict", strstart = block_start
  PROVE  tallied = 0 /\ sym_next = 0 /\ ~match_available
  <1>1. CASE level = 0 BY <1>1 DEF Account, Method
  <1>2. CASE level # 0
    <2>1. tallied = 0 - (IF match_available THEN 1 ELSE 0)
      BY <1>2 DEF Account, TypeOK, TypePos
    <2>2. ~match_available BY <2>1 DEF TypeOK, TypePos
    <2>3. tallied = 0 - 0 BY <2>1, <2>2
    <2> QED BY <2>2, <2>3 DEF Account
  <1> QED BY <1>1, <1>2

\* Same strategy and same function: the same compressor.
LEMMA SameMethod ==
  ASSUME NEW l \in Levels, NEW s \in Strategies, Apply(l, s), TypeTag,
         s = strategy, Func(l) = Func(level)
  PROVE  Method' = Method /\ (level' = 0 <=> level = 0)
  <1>1. l \in 0..9 /\ level \in 0..9 BY ConfigFacts DEF TypeTag
  <1>2. Func(l) = "stored" <=> l = 0 BY <1>1 DEF Func
  <1>3. Func(level) = "stored" <=> level = 0 BY <1>1 DEF Func
  <1>4. level' = l /\ strategy' = s BY DEF Apply
  <1>5. Func(level)' = Func(l) BY <1>4 DEF Func
  <1> QED BY <1>2, <1>3, <1>4, <1>5 DEF Method

\* deflateParams changes level and strategy without a flush: nothing is open
\* yet, or the same compressor goes on.
LEMMA ParamsNowKeeps ==
  ASSUME Narrow, WindowInv, NEW l \in Levels, NEW s \in Strategies, ParamsNow(l, s)
  PROVE  WindowInv'
  <1> USE Sizes
  <1>i. TypeOK /\ Geometry /\ Control /\ Deferred /\ Ahead /\ ChainInv /\ HistoryInv
    BY DEF WindowInv
  <1>s. /\ pc = "idle" /\ level' = l /\ strategy' = s
        /\ want' = [level |-> l, strategy |-> s]
        /\ UNCHANGED <<strstart, lookahead, block_start, fill_end, high_water, lazyVars,
                       sym_next, avail_in, avail_out, flush, used, call, lastcall,
                       finished, pc, owed, tallied, hist>>
    BY DEF ParamsNow, Apply
  <1>c. call = "none" BY <1>i, <1>s DEF Control
  <1>a. ChainInv' /\ head_ok' \in BOOLEAN /\ prev_ok' \in BOOLEAN /\ insert' \in Nat
    BY <1>i, ApplyChains DEF ParamsNow
  <1>m. \/ lastcall = "init" /\ lookahead = 0
        \/ Method' = Method /\ (level' = 0 <=> level = 0)
    BY <1>i, <1>c, SameMethod DEF ParamsNow, MustFlush, Control, TypeOK
  <1>1. TypePos' BY <1>i, <1>s, <1>a DEF TypeOK, TypePos
  <1>2. TypeTag' BY <1>i, <1>s, <1>a DEF TypeOK, TypeTag
  <1>3. Geometry' BY <1>i, <1>s DEF Geometry
  <1>4. Control' BY <1>i, <1>c, <1>s, <1>m DEF Control
  <1>5. Deferred' BY <1>i, <1>s, <1>m DEF Deferred, TypeOK, TypePos
  <1>6. HistoryInv' BY <1>i, <1>s DEF HistoryInv
  <1>7. ASSUME Account PROVE Account'
    <2>1. CASE Method' = Method /\ (level' = 0 <=> level = 0) BY <2>1, <1>7, <1>s DEF Account
    <2>2. CASE lastcall = "init" /\ lookahead = 0
      <3>1. strstart = block_start BY <2>2, <1>7, <1>i, <1>c DEF Account, TypeOK, TypePos
      <3>2. tallied = 0 /\ sym_next = 0 /\ ~match_available
        BY <3>1, <1>7, <1>i, <1>c, NothingOpen
      <3>3. 0 = strstart - block_start - 0 /\ block_start >= 0 BY <3>1, <1>i DEF TypeOK, TypePos
      <3> QED BY <3>2, <3>3, <1>7, <1>c, <1>s DEF Account
    <2> QED BY <2>1, <2>2, <1>m
  <1>z. Ahead' BY <1>i, <1>s, NothingAhead DEF TypeOK
  <1> QED BY <1>1, <1>2, <1>3, <1>4, <1>5, <1>6, <1>7, <1>a, <1>z DEF WindowInv, TypeOK

\* deflateParams after its flush: no change, or one between blocks.
LEMMA ParamsAfterKeeps ==
  ASSUME Narrow, WindowInv, ParamsAfter
  PROVE  WindowInv'
  <1> USE Sizes
  <1>i. TypeOK /\ Geometry /\ Control /\ Deferred /\ Ahead /\ ChainInv /\ HistoryInv
    BY DEF WindowInv
  <1>s. /\ pc = "params" /\ pc' = "idle" /\ call' = "none" /\ avail_in' = 0
        /\ UNCHANGED <<strstart, lookahead, block_start, fill_end, high_water, lazyVars,
                       sym_next, avail_out, flush, used, lastcall, finished,
                       owed, tallied, hist>>
    BY DEF ParamsAfter
  <1>c. call = "params" BY <1>i, <1>s DEF Control
  <1>w. want.level \in Levels /\ want.strategy \in Strategies BY <1>i DEF TypeOK, TypeTag
  <1>k. \/ /\ want' = [level |-> level, strategy |-> strategy]
           /\ UNCHANGED <<level, strategy, insert, chainVars>>
        \/ strstart = block_start /\ lookahead = 0 /\ Apply(want.level, want.strategy)
    <2>1. Left + lookahead = 0 => strstart = block_start /\ lookahead = 0
      BY <1>i DEF Left, Geometry, TypeOK, TypePos
    <2> QED BY <2>1 DEF ParamsAfter
  <1>a. ChainInv' /\ head_ok' \in BOOLEAN /\ prev_ok' \in BOOLEAN /\ insert' \in Nat
    <2>1. CASE UNCHANGED <<level, strategy, insert, chainVars>>
      BY <2>1, <1>i DEF ChainInv, Hashless, TypeOK, TypePos, TypeTag
    <2>2. CASE Apply(want.level, want.strategy) BY <2>2, <1>i, <1>w, ApplyChains
    <2> QED BY <2>1, <2>2, <1>k
  <1>1. TypePos' BY <1>i, <1>s, <1>a DEF TypeOK, TypePos
  <1>2. TypeTag' BY <1>i, <1>s, <1>a, <1>k, <1>w DEF TypeOK, TypeTag, Apply
  <1>3. Geometry' BY <1>i, <1>s DEF Geometry
  <1>4. Control' BY <1>i, <1>c, <1>s, <1>k DEF Control
  <1>5. Deferred'
    <2>1. CASE UNCHANGED <<level, strategy>> BY <2>1, <1>i, <1>s DEF Deferred, Method, Func
    <2>2. CASE lookahead = 0 BY <2>2, <1>i, <1>s DEF Deferred, TypeOK, TypePos
    <2> QED BY <2>1, <2>2, <1>k
  <1>6. HistoryInv' BY <1>i, <1>s DEF HistoryInv
  <1>7. ASSUME Account PROVE Account'
    <2>1. CASE UNCHANGED <<level, strategy>>
      BY <2>1, <1>7, <1>c, <1>s DEF Account, Method, Func
    <2>2. CASE strstart = block_start /\ lookahead = 0
      <3>1. tallied = 0 /\ sym_next = 0 /\ ~match_available
        BY <2>2, <1>7, <1>i, <1>c, NothingOpen
      <3>2. 0 = strstart - block_start - 0 /\ block_start >= 0 BY <2>2, <1>i DEF TypeOK, TypePos
      <3> QED BY <3>1, <3>2, <1>7, <1>c, <1>s DEF Account
    <2> QED BY <2>1, <2>2, <1>k
  <1>z. Ahead' BY <1>i, <1>s, NothingAhead DEF TypeOK
  <1> QED BY <1>1, <1>2, <1>3, <1>4, <1>5, <1>6, <1>7, <1>a, <1>z DEF WindowInv, TypeOK

\* lm_init puts fill_end at its first position.
LEMMA GridStart == OnGrid(2 * W - MinLookahead)
  <1>1. 0 \in 0..(Mult - 2) /\ (0 + 2) * W - MinLookahead = 2 * W - MinLookahead
    BY SizeAssumption, Sizes
  <1> QED BY <1>1, Zenon DEF OnGrid

\* deflateReset.
LEMMA DeflateResetKeeps ==
  ASSUME Narrow, WindowInv, DeflateReset
  PROVE  WindowInv'
  <1> USE Sizes
  <1>i. TypeOK /\ Control /\ Ahead BY DEF WindowInv
  <1>s. /\ pc = "idle" /\ strstart' = 0 /\ lookahead' = 0 /\ block_start' = 0 /\ insert' = 0
        /\ fill_end' = 2 * W - MinLookahead
        /\ match_start' = 0 /\ prev_length' = 0 /\ sym_next' = 0
        /\ lastcall' = "init" /\ owed' = 0 /\ tallied' = 0 /\ hist' = 0
        /\ UNCHANGED <<high_water, next_match, paramVars, avail_in, avail_out, flush, used, call, pc>>
    BY DEF DeflateReset, LmInit
  <1>h. /\ match_available' = FALSE /\ finished' = FALSE
        /\ head_ok' = ~Hashless(level, strategy) /\ prev_ok' = ~Hashless(level, strategy)
    BY DEF DeflateReset, LmInit
  <1>c. call = "none" BY <1>i, <1>s DEF Control
  <1>1. TypePos' BY <1>i, <1>s DEF TypeOK, TypePos
  <1>2. TypeTag'
    <2>1. head_ok' \in BOOLEAN /\ prev_ok' \in BOOLEAN BY <1>h DEF Hashless
    <2> QED BY <2>1, <1>i, <1>s, <1>h DEF TypeOK, TypeTag
  <1>3. Geometry' BY <1>s, GridStart DEF Geometry
  <1>4. Control' BY <1>c, <1>s, <1>h DEF Control
  <1>5. Deferred' BY <1>s DEF Deferred
  <1>6. ChainInv'
    <2>1. level' = level /\ strategy' = strategy BY <1>s
    <2> QED BY <2>1, <1>h DEF ChainInv, Hashless
  <1>7. HistoryInv' BY <1>s DEF HistoryInv
  <1>8. Account'
    <2>1. 0 = 0 - 0 + 0 /\ 0 = 0 - 0 - 0 /\ 0 >= 0 OBVIOUS
    <2> QED BY <2>1, <1>c, <1>s, <1>h DEF Account
  <1>z. Ahead' BY <1>i, <1>s, NothingAhead DEF TypeOK
  <1> QED BY <1>1, <1>2, <1>3, <1>4, <1>5, <1>6, <1>7, <1>8, <1>z DEF WindowInv, TypeOK

\* deflateInit2.
LEMMA InitHolds ==
  ASSUME Init
  PROVE  WindowInv
  <1> USE Sizes
  <1>s. /\ strstart = 0 /\ lookahead = 0 /\ block_start = 0 /\ insert = 0
        /\ fill_end = 2 * W - MinLookahead /\ high_water = 0
        /\ match_start = 0 /\ prev_length = 0 /\ match_available = FALSE
        /\ sym_next = 0 /\ avail_in = 0 /\ avail_out = 0 /\ used = 0
        /\ call = "none" /\ lastcall = "init" /\ finished = FALSE /\ pc = "idle"
        /\ owed = 0 /\ tallied = 0 /\ hist = 0
    BY DEF Init, LmInit
  <1>h. head_ok = ~Hashless(level, strategy) /\ prev_ok = ~Hashless(level, strategy)
    BY DEF Init, LmInit
  <1>z. next_match \in Matches /\ Ahead BY DEF Init, Ahead, NoMatch, Match, Matches
  <1>1. TypePos BY <1>s, <1>z DEF TypePos
  <1>2. TypeTag
    <2>1. head_ok \in BOOLEAN /\ prev_ok \in BOOLEAN BY <1>h DEF Hashless
    <2>2. level \in Levels /\ strategy \in Strategies BY ConfigFacts DEF Init
    <2>3. want = [level |-> level, strategy |-> strategy] /\ flush = "no" BY DEF Init
    <2> QED BY <2>1, <2>2, <2>3, <1>s DEF TypeTag
  <1>3. Geometry BY <1>s, GridStart DEF Geometry
  <1>4. Control BY <1>s DEF Control
  <1>5. Deferred BY <1>s DEF Deferred
  <1>6. ChainInv BY <1>h DEF ChainInv
  <1>7. HistoryInv BY <1>s DEF HistoryInv
  <1>8. Account
    <2>1. 0 = 0 - 0 + 0 /\ 0 = 0 - 0 - 0 /\ 0 >= 0 OBVIOUS
    <2> QED BY <2>1, <1>s DEF Account
  <1> QED BY <1>1, <1>2, <1>3, <1>4, <1>5, <1>6, <1>7, <1>8, <1>z DEF WindowInv, TypeOK

\* deflateSetDictionary is accepted with an empty lookahead.
LEMMA SetDictionaryKeeps ==
  ASSUME Narrow, WindowInv, NEW n \in DictSizes, SetDictionary(n)
  PROVE  WindowInv'
  <1> USE Sizes
  <1>i. TypeOK /\ Geometry /\ Control /\ Deferred /\ Ahead /\ ChainInv /\ HistoryInv
    BY DEF WindowInv
  <1>s. /\ pc = "idle" /\ lookahead = 0 /\ call' = "dict" /\ pc' = "fill"
        /\ UNCHANGED <<lookahead, fill_end, high_water, lazyVars, paramVars, sym_next,
                       avail_out, flush, used, lastcall, finished, owed, tallied>>
    BY DEF SetDictionary
  <1>c. call = "none" BY <1>i, <1>s DEF Control
  <1>n. avail_in' \in Nat
    <2>1. Min2(n, W) \in Nat BY CallAssumption
    <2> QED BY <2>1 DEF SetDictionary
  <1>p. \/ strstart' = strstart /\ block_start' = block_start /\ insert' = insert /\ hist' = hist
        \/ strstart' = 0 /\ block_start' = 0 /\ insert' = 0 /\ hist' = 0
    BY DEF SetDictionary
  <1>d. prev_length < MinMatch BY <1>i, <1>s DEF Deferred, TypeOK, TypePos
  <1>1. TypePos' BY <1>i, <1>s, <1>n, <1>p DEF TypeOK, TypePos
  <1>6. ChainInv' /\ head_ok' \in BOOLEAN /\ prev_ok' \in BOOLEAN
    <2>1. level' = level /\ strategy' = strategy BY <1>s
    <2>2. CASE n >= W /\ Raw
      <3>1. head_ok' = ~Hashless(level, strategy) /\ prev_ok' = ~Hashless(level, strategy)
        BY <2>2 DEF SetDictionary
      <3> QED BY <2>1, <3>1 DEF ChainInv, Hashless
    <2>3. CASE ~(n >= W /\ Raw)
      <3>1. head_ok' = head_ok /\ prev_ok' = prev_ok BY <2>3 DEF SetDictionary
      <3> QED BY <2>1, <3>1, <1>i DEF ChainInv, Hashless, TypeOK, TypeTag
    <2> QED BY <2>2, <2>3
  <1>2. TypeTag' BY <1>i, <1>s, <1>6 DEF TypeOK, TypeTag
  <1>3. Geometry' BY <1>i, <1>s, <1>p DEF Geometry, TypeOK, TypePos
  <1>4. Control' BY <1>i, <1>c, <1>s DEF Control
  <1>5. Deferred' BY <1>i, <1>d, <1>s DEF Deferred, TypeOK, TypePos
  <1>7. HistoryInv' BY <1>i, <1>s, <1>p DEF HistoryInv, TypeOK, TypePos
  <1>8. ASSUME DictRule = "contract" PROVE Account'
    <2>1. Account BY <1>8 DEF WindowInv
    <2>2. owed = 0 BY <1>8, <2>1 DEF SetDictionary, DictAllowed, Account
    <2>3. strstart = block_start BY <2>1, <2>2, <1>i, <1>c, <1>s DEF Account, TypeOK, TypePos
    <2>4. tallied = 0 /\ sym_next = 0 /\ ~match_available
      BY <2>1, <2>3, <1>i, <1>c, NothingOpen
    <2> QED BY <2>2, <2>4, <1>s DEF Account
  <1>z. Ahead' BY <1>i, <1>s, NothingAhead DEF TypeOK
  <1> QED BY <1>1, <1>2, <1>3, <1>4, <1>5, <1>6, <1>7, <1>8, <1>z DEF WindowInv, TypeOK

\* One pass over the dictionary in the window.
LEMMA DictLoopKeeps ==
  ASSUME Narrow, WindowInv, DictLoop
  PROVE  WindowInv'
  <1> USE Sizes
  <1>i. TypeOK /\ Geometry /\ Control /\ Deferred /\ Ahead /\ ChainInv /\ HistoryInv
    BY DEF WindowInv
  <1>s. /\ pc = "dict" /\ lookahead >= MinMatch /\ pc' = "fill"
        /\ strstart' = strstart + (lookahead - (MinMatch - 1))
        /\ hist' = Min2(hist + (lookahead - (MinMatch - 1)), MaxDist)
        /\ lookahead' = MinMatch - 1
        /\ UNCHANGED <<block_start, fill_end, insert, high_water, lazyVars, paramVars,
                       sym_next, avail_in, avail_out, flush, used, call, lastcall,
                       finished, owed, tallied, head_ok>>
    BY DEF DictLoop
  <1>c. call = "dict" BY <1>i, <1>s DEF Control
  <1>h. prev_ok' = (prev_ok /\ (level # 1 \/ Hashless(level, strategy))) BY DEF DictLoop
  <1>1. TypePos' BY <1>i, <1>s DEF TypeOK, TypePos
  <1>2. TypeTag'
    <2>1. prev_ok' \in BOOLEAN BY <1>h, <1>i DEF TypeOK, TypeTag
    <2> QED BY <2>1, <1>i, <1>s DEF TypeOK, TypeTag
  <1>3. Geometry' BY <1>i, <1>s DEF Geometry, TypeOK, TypePos
  <1>4. Control' BY <1>i, <1>c, <1>s DEF Control
  <1>5. Deferred' BY <1>i, <1>c, <1>s DEF Deferred
  <1>6. ChainInv'
    <2>1. level' = level /\ strategy' = strategy /\ head_ok' = head_ok BY <1>s
    <2> QED BY <2>1, <1>h, <1>i DEF ChainInv, Hashless
  <1>7. HistoryInv' BY <1>i, <1>s DEF HistoryInv, TypeOK, TypePos
  <1>8. Account => Account' BY <1>c, <1>s DEF Account, Method, Func
  <1>z. Ahead' BY <1>i, <1>s, NothingAhead DEF TypeOK
  <1> QED BY <1>1, <1>2, <1>3, <1>4, <1>5, <1>6, <1>7, <1>8, <1>z DEF WindowInv, TypeOK

\* The last bytes of the dictionary.
LEMMA DictDoneKeeps ==
  ASSUME Narrow, WindowInv, DictDone
  PROVE  WindowInv'
  <1> USE Sizes
  <1>i. TypeOK /\ Geometry /\ Control /\ Deferred /\ Ahead /\ ChainInv /\ HistoryInv
    BY DEF WindowInv
  <1>s. /\ pc = "dict" /\ pc' = "idle" /\ call' = "none"
        /\ strstart' = strstart + lookahead /\ block_start' = strstart + lookahead
        /\ hist' = Min2(hist + lookahead, MaxDist)
        /\ insert' = lookahead /\ lookahead' = 0 /\ avail_in' = 0
        /\ prev_length' = 0 /\ match_available' = FALSE
        /\ UNCHANGED <<fill_end, high_water, match_start, next_match, paramVars, sym_next,
                       avail_out, flush, used, lastcall, finished, owed, tallied, chainVars>>
    BY DEF DictDone
  <1>c. call = "dict" BY <1>i, <1>s DEF Control
  <1>1. TypePos' BY <1>i, <1>s DEF TypeOK, TypePos
  <1>2. TypeTag' BY <1>i, <1>s DEF TypeOK, TypeTag
  <1>3. Geometry' BY <1>i, <1>s DEF Geometry, TypeOK, TypePos
  <1>4. Control' BY <1>i, <1>c, <1>s DEF Control
  <1>5. Deferred' BY <1>s DEF Deferred
  <1>6. ChainInv' BY <1>i, <1>s DEF ChainInv, Hashless
  <1>7. HistoryInv' BY <1>i, <1>s DEF HistoryInv, TypeOK, TypePos
  <1>8. ASSUME Account PROVE Account'
    <2>1. owed = 0 /\ tallied = 0 /\ sym_next = 0 BY <1>8, <1>c DEF Account
    <2>2. strstart + lookahead - (strstart + lookahead) = 0 /\ strstart + lookahead >= 0 BY <1>i DEF TypeOK, TypePos
    <2> QED BY <2>1, <2>2, <1>s DEF Account
  <1>z. Ahead' BY <1>i, <1>s, NothingAhead DEF TypeOK
  <1> QED BY <1>1, <1>2, <1>3, <1>4, <1>5, <1>6, <1>7, <1>8, <1>z DEF WindowInv, TypeOK

\* Quotient and remainder.
LEMMA DivMod ==
  ASSUME NEW w \in Nat, w > 0, NEW x \in Nat
  PROVE  x = w * (x \div w) + (x % w) /\ x % w \in 0..(w - 1) /\ x \div w \in Int
  OBVIOUS

\* Multiples of w_size are w_size apart.
LEMMA MulMono ==
  ASSUME NEW w \in Nat, NEW a \in Int, NEW b \in Int, a < b
  PROVE  w * a + w <= w * b
  OBVIOUS

\* The remainder of a number given as a multiple and a rest.
LEMMA ModOfMultiple ==
  ASSUME NEW w \in Nat, w > 0, NEW k \in Nat, NEW r \in 0..(w - 1)
  PROVE  (k * w + r) % w = r
  <1> DEFINE x == k * w + r
             d == x \div w
  <1>0. x \in Nat OBVIOUS
  <1>1. x = w * d + (x % w) /\ x % w \in 0..(w - 1) /\ d \in Int BY <1>0, DivMod
  <1>2. CASE d < k
    <2>1. w * d + w <= w * k BY <1>1, <1>2, MulMono
    <2> QED BY <1>1, <2>1
  <1>3. CASE d > k
    <2>1. w * k + w <= w * d BY <1>1, <1>3, MulMono
    <2> QED BY <1>1, <2>1
  <1>4. CASE d = k BY <1>1, <1>4
  <1> QED BY <1>1, <1>2, <1>3, <1>4

\* One step of w_size further is still a position of fill_end, or fill_end was
\* the last one.
LEMMA GridNext ==
  ASSUME NEW fe, OnGrid(fe)
  PROVE  \/ fe + W <= WindowSize - MinLookahead /\ OnGrid(fe + W)
         \/ fe + W > WindowSize - MinLookahead /\ fe = WindowSize - MinLookahead
  <1> USE Sizes, SizeAssumption
  <1> PICK j \in 0..(Mult - 2) : fe = (j + 2) * W - MinLookahead BY DEF OnGrid
  <1>1. CASE j = Mult - 2
    <2>1. (j + 2) * W = WindowSize
      <3>1. j + 2 = Mult BY <1>1
      <3> QED BY <3>1 DEF WindowSize
    <2> QED BY <2>1
  <1>2. CASE j < Mult - 2
    <2>1. j + 1 \in 0..(Mult - 2) BY <1>2
    <2>2. ((j + 1) + 2) * W = (j + 2) * W + W OBVIOUS
    <2>3. (j + 2) * W \in Nat OBVIOUS
    <2>4. fe + W = ((j + 1) + 2) * W - MinLookahead BY <2>2, <2>3
    <2>5. ((j + 1) + 2) * W <= Mult * W BY <2>1
    <2>6. fe + W <= WindowSize - MinLookahead BY <2>2, <2>3, <2>4, <2>5 DEF WindowSize
    <2>7. OnGrid(fe + W) BY <2>1, <2>4, Zenon DEF OnGrid
    <2> QED BY <2>6, <2>7
  <1> QED BY <1>1, <1>2

\* At the end of the buffer a slide goes all the way to the first w_size bytes.
LEMMA SlideAtEnd ==
  ASSUME TypePos, WindowSize - MinLookahead <= strstart, strstart <= WindowSize
  PROVE  SlideLen = WindowSize - W
  <1> USE Sizes, SizeAssumption
  <1> DEFINE r == strstart - (WindowSize - MinLookahead)
             k == Mult - 1
  <1>1. r \in 0..(W - 1) /\ k \in Nat BY DEF TypePos
  <1>2. k * W = WindowSize - W BY DEF WindowSize
  <1>3. strstart - MaxDist = k * W + r BY <1>2 DEF TypePos
  <1> HIDE DEF r, k
  <1>4. (k * W + r) % W = r BY <1>1, ModOfMultiple
  <1>5. SlideLen = (k * W + r) - r BY <1>3, <1>4 DEF SlideLen
  <1> QED BY <1>1, <1>2, <1>5

\* What fill_window finds and does, in every case: q bytes are slid out, the
\* data may then grow up to fe + MinLookahead.
FillPlan(q, fe) ==
  /\ FillEndAt - Slid = fe /\ Slid = q /\ OnGrid(fe)
  /\ q <= strstart /\ strstart - q <= fe
  /\ More = fe + MinLookahead - lookahead - (strstart - q) /\ More >= 2
  /\ ~Slides => q = 0
  /\ Slides => strstart >= MaxDist /\ q = SlideLen /\ q = WindowSize - W /\ strstart - q <= W
  /\ q > 0 => strstart - q >= MaxDist

\* The plan exists: no slide and no move of fill_end, fill_end one w_size on, or
\* a slide with fill_end back at its first position.
LEMMA FillFacts ==
  ASSUME TypePos, Geometry, pc = "fill"
  PROVE  \E q \in Nat, fe \in Nat : FillPlan(q, fe)
  <1> USE Sizes DEF TypePos
  <1>g. /\ OnGrid(fill_end) /\ strstart + lookahead <= fill_end + MinLookahead
        /\ lookahead < MinLookahead
    BY DEF Geometry
  <1>b. fill_end >= 2 * W - MinLookahead /\ fill_end <= WindowSize - MinLookahead
    BY <1>g, GridBounds
  <1>1. CASE strstart < fill_end
    <2>1. FillEndAt = fill_end BY <1>1 DEF FillEndAt
    <2>2. ~Slides BY <2>1, <1>b DEF Slides
    <2>3. Slid = 0 BY <2>2 DEF Slid
    <2>4. FillPlan(0, fill_end)
      BY <1>1, <1>g, <2>1, <2>2, <2>3 DEF FillPlan, More
    <2> QED BY <2>4
  <1>2. CASE strstart >= fill_end /\ fill_end + W <= WindowSize - MinLookahead
    <2>1. FillEndAt = fill_end + W BY <1>2 DEF FillEndAt
    <2>2. ~Slides BY <2>1, <1>2 DEF Slides
    <2>3. Slid = 0 BY <2>2 DEF Slid
    <2>4. OnGrid(fill_end + W) BY <1>2, <1>g, GridNext
    <2>5. FillPlan(0, fill_end + W)
      BY <1>2, <1>g, <2>1, <2>2, <2>3, <2>4 DEF FillPlan, More
    <2> QED BY <2>5
  <1>3. CASE strstart >= fill_end /\ fill_end + W > WindowSize - MinLookahead
    <2>1. fill_end = WindowSize - MinLookahead BY <1>3, <1>g, GridNext
    <2>2. FillEndAt = fill_end + W BY <1>3 DEF FillEndAt
    <2>3. Slides BY <2>2, <1>3 DEF Slides
    <2>4. SlideLen = WindowSize - W BY <2>1, <1>3, <1>g, SlideAtEnd
    <2>5. Slid = WindowSize - W BY <2>3, <2>4 DEF Slid
    <2>6. FillEndAt - Slid = 2 * W - MinLookahead BY <2>1, <2>2, <2>5
    <2>7. FillPlan(WindowSize - W, 2 * W - MinLookahead)
      BY <1>3, <1>g, <2>1, <2>3, <2>4, <2>5, <2>6, GridStart DEF FillPlan, More
    <2>8. WindowSize - W \in Nat /\ 2 * W - MinLookahead \in Nat OBVIOUS
    <2> QED BY <2>7, <2>8
  <1> QED BY <1>1, <1>2, <1>3

\* One pass of the loop of fill_window.
LEMMA FillWindowKeeps ==
  ASSUME Narrow, WindowInv, FillWindow
  PROVE  WindowInv'
  <1> USE Sizes
  <1>i. TypeOK /\ Geometry /\ Control /\ Deferred /\ Ahead /\ ChainInv /\ HistoryInv
    BY DEF WindowInv
  <1>c. pc = "fill" BY DEF FillWindow
  <1>q. PICK q \in Nat, fe \in Nat : FillPlan(q, fe)
    BY <1>i, <1>c, FillFacts DEF TypeOK
  <1>f. fe + MinLookahead <= WindowSize BY <1>q, GridBounds DEF FillPlan
  <1> DEFINE n == ReadLen
             ss == strstart - q
             la == lookahead + n
             again == la < MinLookahead /\ avail_in > n
  <1>n. /\ n \in Nat /\ n <= avail_in /\ ss \in Nat /\ la \in Nat
        /\ ss + la <= fe + MinLookahead /\ ss <= fe
    BY <1>i, <1>q DEF FillPlan, ReadLen, TypeOK, TypePos
  <1>s. /\ fill_end' = fe /\ strstart' = ss /\ block_start' = block_start - q
        /\ match_start' = (IF match_start >= q THEN match_start - q ELSE 0)
        /\ prev_length' = (IF match_start >= q THEN prev_length ELSE 0)
        /\ lookahead' = la /\ avail_in' = avail_in - n
        /\ owed' = (IF call = "dict" THEN owed ELSE owed + n)
        /\ high_water' = (IF again THEN high_water ELSE HighWater(ss + la))
        /\ pc' = (IF again THEN "fill" ELSE IF call = "dict" THEN "dict" ELSE "filled")
        /\ UNCHANGED <<match_available, next_match, paramVars, sym_next, avail_out, flush, used,
                       call, lastcall, finished, tallied, hist>>
    BY <1>q DEF FillWindow, FillPlan, MatchStartAt, KeptLength
  <1>h. /\ head_ok' = (head_ok /\ (Slides => ~Hashless(level, strategy)))
        /\ prev_ok' = (prev_ok /\ (Slides => ~Hashless(level, strategy) /\ level # 1))
    BY DEF FillWindow
  <1>t. insert' \in Nat
    <2>1. (IF Slides THEN Min2(insert, strstart - Slid) ELSE insert) \in Nat
      BY <1>i, <1>q, <1>n DEF FillPlan, TypeOK, TypePos
    <2> QED BY <2>1 DEF FillWindow
  <1>w. /\ HighWater(ss + la) \in Nat
        /\ HighWater(ss + la) >= Min2(ss + la + MaxMatch, WindowSize)
    <2>1. ss + la \in Nat /\ ss + la <= WindowSize BY <1>n, <1>f
    <2> HIDE DEF ss, la
    <2> QED BY <2>1, <1>i DEF HighWater, TypeOK, TypePos
  <1>e. call \in {"deflate", "params"} => level # 0 /\ lastcall = "more" /\ ~finished
    BY <1>i, <1>c DEF Control
  <1>d. call \in {"dict", "deflate", "params"} BY <1>i, <1>c DEF Control, TypeOK, TypeTag
  <1> HIDE DEF n, ss, la
  <1>1. TypePos'
    <2>1. high_water' \in Nat BY <1>s, <1>w, <1>i DEF TypeOK, TypePos
    <2>2. match_start' \in Nat /\ prev_length' \in 0..MaxMatch BY <1>s, <1>i, <1>q DEF TypeOK, TypePos
    <2>3. avail_in' \in Nat /\ owed' \in Int BY <1>s, <1>n, <1>i DEF TypeOK, TypePos
    <2> QED BY <2>1, <2>2, <2>3, <1>s, <1>n, <1>t, <1>i, <1>q DEF TypeOK, TypePos
  <1>2. TypeTag'
    <2>1. head_ok' \in BOOLEAN /\ prev_ok' \in BOOLEAN BY <1>h, <1>i DEF TypeOK, TypeTag
    <2> QED BY <2>1, <1>s, <1>i DEF TypeOK, TypeTag
  <1>3. Geometry'
    <2>1. OnGrid(fill_end') BY <1>q, <1>s DEF FillPlan
    <2>2. strstart' + lookahead' <= fill_end' + MinLookahead BY <1>n, <1>s
    <2>3. block_start' <= strstart' BY <1>i, <1>n, <1>s, <1>q DEF Geometry, TypeOK, TypePos, ss
    <2>4. pc' = "fill" => lookahead' < MinLookahead BY <1>s
    <2>5. pc' # "fill" => /\ strstart' <= fill_end'
                          /\ high_water' >= Min2(strstart' + lookahead' + MaxMatch, WindowSize)
      BY <1>n, <1>s, <1>w
    <2>6. pc' \notin {"copy", "update"} BY <1>s
    <2> QED BY <2>1, <2>2, <2>3, <2>4, <2>5, <2>6 DEF Geometry
  <1>4. Control' BY <1>i, <1>c, <1>d, <1>e, <1>s DEF Control
  <1>5. Deferred'
    <2> SUFFICES ASSUME prev_length' >= MinMatch
                 PROVE  /\ Method' = "slow" /\ match_available' /\ call' # "dict"
                        /\ strstart' - 1 - match_start' \in 1..MaxDist
                        /\ prev_length' - 1 <= lookahead'
      BY DEF Deferred
    <2>1. match_start >= q /\ prev_length >= MinMatch /\ prev_length' = prev_length
      BY <1>s, <1>i DEF TypeOK, TypePos
    <2>2. /\ Method = "slow" /\ match_available /\ call # "dict"
          /\ strstart - 1 - match_start \in 1..MaxDist /\ prev_length - 1 <= lookahead
      BY <2>1, <1>i DEF Deferred
    <2>3. Method' = Method BY <1>s DEF Method, Func
    <2>4. strstart' - 1 - match_start' = strstart - 1 - match_start
      BY <2>1, <1>s, <1>i, <1>q DEF TypeOK, TypePos, ss
    <2>5. prev_length' - 1 <= lookahead' BY <2>1, <2>2, <1>n, <1>s, <1>i DEF TypeOK, TypePos, la
    <2> QED BY <2>2, <2>3, <2>4, <2>5, <1>s
  <1>6. ChainInv'
    <2>1. level' = level /\ strategy' = strategy BY <1>s
    <2> QED BY <2>1, <1>h, <1>i DEF ChainInv, Hashless
  <1>7. HistoryInv'
    <2>1. pc' \notin {"copy", "update"} BY <1>s
    <2>2. ~finished => hist <= ss
      BY <1>i, <1>c, <1>q DEF HistoryInv, FillPlan, TypeOK, TypePos, ss
    <2> QED BY <2>1, <2>2, <1>s, <1>i DEF HistoryInv
  <1>8. ASSUME Account PROVE Account'
    <2>1. strstart' - block_start' = strstart - block_start
      BY <1>s, <1>i, <1>q DEF TypeOK, TypePos, ss
    <2>2. CASE call = "dict"
      <3>1. Method' = Method BY <1>s DEF Method, Func
      <3> QED BY <2>2, <3>1, <1>8, <1>s DEF Account
    <2>3. CASE call \in {"deflate", "params"}
      <3>1. owed' = strstart' - block_start' + lookahead'
        BY <2>1, <2>3, <1>8, <1>s, <1>n, <1>i DEF Account, TypeOK, TypePos, la
      <3>2. tallied' = strstart' - block_start' - (IF match_available' THEN 1 ELSE 0)
        BY <2>1, <2>3, <1>8, <1>e, <1>s DEF Account
      <3>3. Method' = Method BY <1>s DEF Method, Func
      <3> QED BY <2>3, <3>1, <3>2, <3>3, <1>8, <1>e, <1>s DEF Account
    <2> QED BY <2>2, <2>3, <1>d
  <1>z. Ahead' BY <1>i, <1>c, <1>s DEF Ahead, Method, Func
  <1> QED BY <1>1, <1>2, <1>3, <1>4, <1>5, <1>6, <1>7, <1>8, <1>z DEF WindowInv, TypeOK

\* Every step keeps the invariant.
LEMMA NextKeeps ==
  ASSUME Narrow, WindowInv, [Next]_vars
  PROVE  WindowInv'
  <1>1. CASE Step
    <2>1. CASE HuffStep
      <3>1. 1 \in 1..MaxMatch BY Sizes
      <3> QED BY <2>1, <3>1, SymbolStepKeeps
    <2>2. CASE \E n \in 1..MaxMatch : RleStep(n) \/ QuickStep(n) \/ FastStep(n)
      BY <2>2, SymbolStepKeeps
    <2>7. CASE \E cur \in Currents : MediumStep(cur) BY <2>7, MediumStepKeeps
    <2>3. CASE \E m \in (MinMatch - 1)..MaxMatch, d \in 1..MaxDist :
                 LazyLiteral(m, d) \/ LazyDefer(m, d)
      BY <2>3, LazyLiteralKeeps, LazyDeferKeeps
    <2>4. CASE CallFill \/ FillWindow \/ NeedMore \/ EndOfInput \/ EndBlock \/ LazyEmit
      BY <2>4, CallFillKeeps, FillWindowKeeps, NeedMoreKeeps, EndOfInputKeeps,
         EndBlockKeeps, LazyEmitKeeps
    <2>5. CASE StoredCopy \/ CopyDone \/ StoredUpdate \/ StoredFill
      BY <2>5, StoredCopyKeeps, CopyDoneKeeps, StoredUpdateKeeps, StoredFillKeeps
    <2>6. CASE ParamsAfter \/ DictLoop \/ DictDone
      BY <2>6, ParamsAfterKeeps, DictLoopKeeps, DictDoneKeeps
    <2> QED BY <1>1, <2>1, <2>2, <2>3, <2>4, <2>5, <2>6, <2>7 DEF Step
  <1>2. CASE Caller
    BY <1>2, ConfigFacts, DeflateKeeps, ParamsNowKeeps, ParamsFlushKeeps, SetDictionaryKeeps,
       DeflateResetKeeps DEF Caller
  <1>3. CASE UNCHANGED vars
    <2>i. TypeOK /\ Geometry /\ Control /\ Deferred /\ Ahead /\ ChainInv /\ HistoryInv
      BY DEF WindowInv
    <2>1. TypeOK' BY <2>i, <1>3 DEF vars, TypeOK, TypePos, TypeTag
    <2>2. Geometry' BY <2>i, <1>3 DEF vars, Geometry
    <2>3. Control' BY <2>i, <1>3 DEF vars, Control
    <2>4. Deferred' BY <2>i, <1>3 DEF vars, Deferred, Method, Func
    <2>5. ChainInv' BY <2>i, <1>3 DEF vars, ChainInv, Hashless
    <2>6. HistoryInv' BY <2>i, <1>3 DEF vars, HistoryInv
    <2>8. Ahead' BY <2>i, <1>3 DEF vars, Ahead, Method, Func
    <2>7. Account => Account' BY <1>3 DEF vars, Account, Method, Func
    <2> QED BY <2>1, <2>2, <2>3, <2>4, <2>5, <2>6, <2>7, <2>8 DEF WindowInv
  <1> QED BY <1>1, <1>2, <1>3 DEF Next

\* The inductive invariant holds in every reachable state, for every window
\* size, match length and symbol buffer, all levels and strategies, provided
\* level 0 is only used with window_size = 2 * w_size (Narrow).
THEOREM WindowInvariant ==
  ASSUME Narrow
  PROVE  Spec => []WindowInv
  <1>1. Init => WindowInv BY InitHolds
  <1>2. WindowInv /\ [Next]_vars => WindowInv' BY NextKeeps
  <1> QED BY <1>1, <1>2, PTL DEF Spec

\* No unsigned position of the deflate state goes below zero (TypeOK).
THEOREM TypesHold ==
  ASSUME Narrow
  PROVE  Spec => []TypeOK
  <1>1. WindowInv => TypeOK BY DEF WindowInv
  <1> QED BY <1>1, WindowInvariant, PTL

\* fill_window's assertion more >= 2 holds, what it reads ends inside the buffer
\* (ReadsFit), and its memcpy never overlaps (SlideSafe).
THEOREM FillStaysInside ==
  ASSUME Narrow
  PROVE  Spec => [](ReadsFit /\ SlideSafe)
  <1> USE Sizes
  <1>1. WindowInv => ReadsFit /\ SlideSafe
    <2> SUFFICES ASSUME WindowInv, pc = "fill" PROVE ReadsFit /\ SlideSafe
      BY DEF ReadsFit, SlideSafe
    <2>i. TypePos /\ Geometry BY DEF WindowInv, TypeOK
    <2>q. PICK q \in Nat, fe \in Nat : FillPlan(q, fe) BY <2>i, FillFacts
    <2>f. fe + MinLookahead <= WindowSize BY <2>q, GridBounds DEF FillPlan
    <2>1. ReadsFit
      BY <2>i, <2>q, <2>f DEF ReadsFit, ReadLen, FillPlan, TypePos
    <2>2. SlideSafe
      <3>1. strstart + lookahead <= WindowSize
        BY <2>i, GridBounds DEF Geometry, TypePos
      <3> QED BY <3>1, <2>i, <2>q DEF SlideSafe, FillPlan, TypePos
    <2> QED BY <2>1, <2>2
  <1> QED BY <1>1, WindowInvariant, PTL

\* A compressor that searches compares only bytes inside the buffer that have
\* been written (RoomForSearch): the assertions around longest_match.
THEOREM SearchStaysInside ==
  ASSUME Narrow
  PROVE  Spec => []RoomForSearch
  <1> USE Sizes
  <1>1. WindowInv => RoomForSearch
    <2> SUFFICES ASSUME WindowInv, Ready, Method # "huff" PROVE RoomForSearch
      BY DEF RoomForSearch
    <2>i. TypePos /\ Geometry /\ Ahead BY DEF WindowInv, TypeOK
    <2>f. fill_end <= WindowSize - MinLookahead BY <2>i, GridBounds DEF Geometry
    <2>h. /\ pc \in {"loop", "filled"} /\ lookahead > 0
          /\ high_water >= Min2(strstart + lookahead + MaxMatch, WindowSize)
      BY <2>i, ReadyFacts DEF WindowInv, Geometry
    <2>r. Method = "rle" => Need = MaxMatch + 1 BY DEF Need
    <2>l. Method # "rle" => Need = MinLookahead BY DEF Need
    <2>1. Method # "rle" => SearchFits(strstart)
      BY <2>i, <2>f, <2>h, <2>l DEF SearchFits, Ready, Geometry, TypePos
    <2>2. /\ strstart + MaxMatch <= WindowSize
          /\ strstart + MaxMatch <= Max2(high_water, strstart + lookahead)
      BY <2>i, <2>f, <2>h, <2>r, <2>l DEF Ready, Geometry, TypePos
    <2>3. ASSUME NEW cur \in Currents, LooksAhead(cur)
          PROVE  SearchFits(cur.strstart + cur.match_length)
      <3>1. cur.strstart = strstart /\ cur.match_length \in 1..MaxMatch
        BY <2>i, CurrentFacts DEF ValidAt, Matches
      <3>2. strstart + cur.match_length < fill_end /\ lookahead > MinLookahead
        BY <3>1, <2>3 DEF LooksAhead
      <3> QED BY <3>1, <3>2, <2>i, <2>f, <2>h DEF SearchFits, TypePos
    <2> QED BY <2>1, <2>2, <2>3 DEF RoomForSearch
  <1> QED BY <1>1, WindowInvariant, PTL

\* The history matches may use stays in the window (HistoryKept), and no
\* compressor follows hash entries of an old window layout (ChainUsable), over any
\* sequence of deflateParams, dictionaries, slides and flushes.
THEOREM HistoryAndChains ==
  ASSUME Narrow
  PROVE  Spec => [](HistoryKept /\ ChainUsable)
  <1>1. WindowInv => HistoryKept
    BY DEF WindowInv, TypeOK, TypePos, HistoryInv, HistoryKept
  <1>2. WindowInv => ChainUsable BY DEF WindowInv, ChainInv, ChainUsable
  <1> QED BY <1>1, <1>2, WindowInvariant, PTL

\* deflate_slow's deferred match, also after a slide, and the match deflate_medium
\* found ahead are valid when they are emitted (LazyMatchValid).
THEOREM DeferredMatchHolds ==
  ASSUME Narrow
  PROVE  Spec => []LazyMatchValid
  <1>1. WindowInv => LazyMatchValid
    <2> SUFFICES ASSUME WindowInv, Ready PROVE LazyMatchValid BY DEF LazyMatchValid
    <2>i. TypePos /\ Deferred /\ Ahead BY DEF WindowInv, TypeOK
    <2>1. CASE Future.match_length > 0
      <3>1. Future = next_match /\ pc = "loop" BY <2>1 DEF Future, Ready, NoMatch, Match
      <3>2. Method = "fizzle" /\ lookahead >= MinLookahead
        BY <2>1, <3>1, <2>i DEF Ahead, Ready, Need
      <3>3. Future.match_length <= lookahead
        BY <3>1, <3>2, <2>i, Sizes DEF TypePos, Matches
      <3> QED BY <2>1, <3>1, <3>2, <3>3, <2>i DEF LazyMatchValid, Ahead, Deferred
    <2>2. CASE ~(Future.match_length > 0) BY <2>2, <2>i DEF LazyMatchValid, Deferred
    <2> QED BY <2>1, <2>2
  <1> QED BY <1>1, WindowInvariant, PTL

\* A slide keeps the distance of the match deflate_slow has deferred
\* (DistanceKept): only fill_window runs in pc = "fill", and it moves the match
\* and the window together or gives the match up.
THEOREM DeferredDistanceKept ==
  ASSUME Narrow
  PROVE  Spec => DistanceKept
  <1> DEFINE Same == pc = "fill" /\ prev_length' >= MinMatch =>
                       strstart' - match_start' = strstart - match_start
  <1>1. WindowInv /\ [Next]_vars => [Same]_vars
    <2> SUFFICES ASSUME WindowInv, Next, pc = "fill", prev_length' >= MinMatch
                 PROVE  strstart' - match_start' = strstart - match_start
      BY DEF vars
    <2>i. TypePos /\ Geometry BY DEF WindowInv, TypeOK
    <2>1. FillWindow
      <3>1. ~Ready BY DEF Ready
      <3>2. ~Caller
        BY DEF Caller, Deflate, ParamsNow, ParamsFlush, SetDictionary, DeflateReset
      <3> QED BY <3>1, <3>2 DEF Next, Step, CallFill, NeedMore, EndOfInput, EndBlock, HuffStep,
            RleStep, QuickStep, FastStep, MediumStep, LazyEmit, LazyLiteral, LazyDefer,
            StoredCopy, CopyDone, StoredUpdate, StoredFill, ParamsAfter, DictLoop, DictDone
    <2>2. PICK q \in Nat, fe \in Nat : FillPlan(q, fe) BY <2>i, FillFacts
    <2>3. /\ strstart' = strstart - q
          /\ match_start' = (IF match_start >= q THEN match_start - q ELSE 0)
          /\ prev_length' = (IF match_start >= q THEN prev_length ELSE 0)
      BY <2>1, <2>2 DEF FillWindow, FillPlan, MatchStartAt, KeptLength
    <2> QED BY <2>2, <2>3, <2>i, Sizes DEF TypePos
  <1> QED BY <1>1, WindowInvariant, PTL DEF Spec, DistanceKept

\* The parts of the measure of a call are natural numbers.
LEMMA MeasureFacts ==
  ASSUME TypePos
  PROVE  Phase \in Nat /\ Unspent \in Nat /\ Turn \in Nat /\ Rest \in Nat
  <1>1. Rest \in Nat BY Sizes DEF Rest, TypePos, Matches
  <1> QED BY <1>1 DEF Phase, Unspent, Turn, TypePos

\* The output space never grows during a call.
LEMMA SpaceShrinks ==
  ASSUME TypePos, NEW n, NEW end, TallyAndFlush(n, end)
  PROVE  avail_out' <= avail_out
  BY DEF TallyAndFlush, TypePos

\* A compressor that takes n bytes and goes round has less left; otherwise the
\* call returns.
LEMMA TakingAdvances ==
  ASSUME TypePos, Ready, NEW n \in Nat, n > 0, lookahead' = lookahead - n, n <= lookahead,
         TypePos', avail_out' <= avail_out, NextOrOut
  PROVE  pc' = "idle" \/ Advance
  <1>1. Phase = 3 BY DEF Phase, Ready
  <1>2. CASE pc' = "params" BY <1>1, <1>2 DEF Advance, Phase
  <1>3. CASE pc' = "loop"
    <2>1. avail_in' = avail_in BY <1>3 DEF NextOrOut, Return
    <2>2. avail_in \in Nat /\ lookahead \in Nat /\ avail_out \in Nat BY DEF TypePos
    <2>3. PICK x \in Nat, y \in Nat : x = lookahead' /\ y = avail_out'
      BY DEF TypePos
    <2>4. x = lookahead - n /\ y <= avail_out BY <2>3
    <2>5. avail_in + x + y < avail_in + lookahead + avail_out BY <2>4, <2>2
    <2>6. Unspent' < Unspent BY <2>1, <2>3, <2>5 DEF Unspent
    <2>7. Phase' = 3 BY <1>3 DEF Phase
    <2> QED BY <1>1, <2>7, <2>6 DEF Advance
  <1> QED BY <1>2, <1>3 DEF NextOrOut, Return

\* One symbol of deflate_huff, _rle, _quick, _fast or _medium is at least a byte.
LEMMA ConsumeAdvances ==
  ASSUME WindowInv, WindowInv', Ready, NEW n \in 1..MaxMatch, Consume(n)
  PROVE  pc' = "idle" \/ Advance
  <1>1. TypePos /\ TypePos' BY DEF WindowInv, TypeOK
  <1>2. n \in Nat /\ n > 0 /\ n <= lookahead /\ lookahead' = lookahead - n /\ NextOrOut
    BY <1>1, Sizes DEF Consume, TypePos
  <1>3. avail_out' <= avail_out BY <1>1, SpaceShrinks DEF Consume
  <1> QED BY <1>1, <1>2, <1>3, TakingAdvances

\* A round of deflate_medium takes bytes, or makes the match it keeps longer.
LEMMA MediumAdvances ==
  ASSUME Narrow, WindowInv, WindowInv', NEW cur \in Currents, MediumStep(cur)
  PROVE  pc' = "idle" \/ Advance
  <1> USE Sizes
  <1>t. TypePos /\ TypePos' /\ Ahead BY DEF WindowInv, TypeOK
  <1>r. Ready BY DEF MediumStep
  <1>c. ValidAt(cur, strstart) BY <1>t, <1>r, CurrentFacts
  <1>n. cur.match_length \in 1..MaxMatch BY <1>c DEF ValidAt, Matches
  <1>1. ASSUME NEW n \in 1..MaxMatch, NEW m, EmitMatch(n, m)
        PROVE  pc' = "idle" \/ Advance
    BY <1>1, <1>r, ConsumeAdvances DEF EmitMatch
  <1>2. ASSUME LooksAhead(cur), NEW nxt \in BestMatches(cur.strstart + cur.match_length),
               NEW k \in Fizzles(cur, nxt), ~(k < cur.match_length),
               Absorbed(GrownBack(nxt, k))
        PROVE  Advance
    <2>1. strstart + cur.match_length \in Nat /\ cur.strstart = strstart
      BY <1>t, <1>n, <1>c DEF TypePos, ValidAt
    <2>2. ValidAt(nxt, strstart + cur.match_length) BY <1>2, <2>1, <1>t, BestFacts
    <2>3. k \in 1..cur.match_length BY <2>2, <1>2, <1>c, <1>t, FizzleFacts
    <2>4. /\ next_match'.match_length = nxt.match_length + k /\ pc' = "loop"
          /\ UNCHANGED <<lookahead, avail_in, avail_out, paramVars>>
      BY <1>2 DEF Absorbed, GrownBack, Match
    <2>5. nxt.match_length \in Nat /\ nxt.match_length >= 1 BY <2>2 DEF ValidAt, Matches
    <2>6. k = cur.match_length BY <2>3, <1>2, <1>n
    <2>7. Phase = 3 /\ Phase' = 3 /\ Unspent' = Unspent
      BY <2>4, <1>r DEF Phase, Unspent, Ready
    <2>8. Turn' = 1
      <3>1. Method = "fizzle" /\ lookahead > MinLookahead BY <1>2 DEF LooksAhead
      <3>2. Method' = Method BY <2>4 DEF Method, Func
      <3>3. Need' = MinLookahead BY <3>1, <3>2 DEF Need
      <3> QED BY <3>1, <3>3, <2>4, <1>t DEF Turn, TypePos
    <2>9. CASE pc = "filled" BY <2>9, <2>7, <2>8 DEF Advance, Turn
    <2>10. CASE pc = "loop"
      <3>1. Turn = 1 BY <2>10, <1>r, <1>t DEF Turn, Ready, Need, TypePos
      <3>2. next_match.match_length = 0 \/ next_match.match_length = cur.match_length
        BY <2>10, <1>t DEF Currents, Future, TypePos, Matches
      <3>3. Rest' < Rest
        BY <3>2, <2>4, <2>5, <2>6, <2>10, <1>n, <1>t DEF Rest, TypePos, Matches
      <3> QED BY <3>1, <3>3, <2>7, <2>8 DEF Advance
    <2> QED BY <2>9, <2>10, <1>r DEF Ready
  <1>3. 1 \in 1..MaxMatch OBVIOUS
  <1> QED BY <1>1, <1>2, <1>3, <1>n DEF MediumStep

\* The steps of deflate_slow.
LEMMA LazyAdvances ==
  ASSUME WindowInv, WindowInv', NEW m \in (MinMatch - 1)..MaxMatch, NEW d \in 1..MaxDist,
         LazyEmit \/ LazyLiteral(m, d) \/ LazyDefer(m, d)
  PROVE  pc' = "idle" \/ Advance
  <1> USE Sizes
  <1>t. TypePos /\ TypePos' /\ Deferred BY DEF WindowInv, TypeOK
  <1>r. Ready BY DEF LazyEmit, LazyLiteral, LazyDefer
  <1>l. lookahead > 0 BY <1>r, ReadyFacts DEF WindowInv
  <1>1. CASE LazyEmit
    <2>1. /\ prev_length - 1 \in Nat /\ prev_length - 1 > 0 /\ prev_length - 1 <= lookahead
          /\ lookahead' = lookahead - (prev_length - 1) /\ NextOrOut
      BY <1>1, <1>t DEF LazyEmit, Deferred, TypePos
    <2>2. avail_out' <= avail_out BY <1>1, <1>t, SpaceShrinks DEF LazyEmit
    <2> QED BY <2>1, <2>2, <1>t, <1>r, TakingAdvances
  <1>2. CASE LazyLiteral(m, d)
    <2>1. 1 \in Nat /\ 1 > 0 /\ 1 <= lookahead /\ lookahead' = lookahead - 1 /\ NextOrOut
      BY <1>2, <1>t, <1>l DEF LazyLiteral, TypePos
    <2>2. avail_out' <= avail_out BY <1>2, <1>t, SpaceShrinks DEF LazyLiteral
    <2> QED BY <2>1, <2>2, <1>t, <1>r, TakingAdvances
  <1>3. CASE LazyDefer(m, d)
    <2>1. Phase = 3 /\ Phase' = 3 BY <1>3, <1>r DEF Phase, Ready, LazyDefer
    <2>2. Unspent' < Unspent BY <1>3, <1>t DEF Unspent, LazyDefer, TypePos
    <2> QED BY <2>1, <2>2 DEF Advance
  <1> QED BY <1>1, <1>2, <1>3

\* A pass of fill_window fills the window, or has more input to take.
LEMMA FillAdvances ==
  ASSUME WindowInv, FillWindow
  PROVE  Advance
  <1>t. TypePos /\ Geometry /\ pc = "fill" BY DEF WindowInv, TypeOK, FillWindow
  <1>q. PICK q \in Nat, fe \in Nat : FillPlan(q, fe) BY <1>t, FillFacts
  <1>n. More \in Int /\ More >= 2
    BY <1>q, <1>t, Sizes DEF FillPlan, TypePos
  <1>1. ReadLen \in Nat /\ ReadLen <= avail_in /\ (avail_in > 0 => ReadLen > 0)
    BY <1>n, <1>t DEF ReadLen, TypePos
  <1>2. /\ lookahead' = lookahead + ReadLen /\ avail_in' = avail_in - ReadLen
        /\ avail_out' = avail_out
        /\ \/ pc' = "fill" /\ avail_in > ReadLen
           \/ pc' \in {"filled", "dict"}
    BY DEF FillWindow
  <1> HIDE DEF ReadLen
  <1>3. Phase = 3 /\ Phase' = 3 /\ Turn = 3 BY <1>t, <1>2 DEF Phase, Turn
  <1>4. Unspent' = Unspent BY <1>1, <1>2, <1>t DEF Unspent, TypePos
  <1>5. CASE pc' = "fill" /\ avail_in > ReadLen
    <2>1. Turn' = 3 BY <1>5 DEF Turn
    <2>2. Rest' < Rest BY <1>1, <1>2, <1>5, <1>t DEF Rest, TypePos
    <2> QED BY <2>1, <2>2, <1>3, <1>4 DEF Advance
  <1>6. CASE pc' \in {"filled", "dict"}
    <2>1. Turn' = 2 BY <1>6 DEF Turn
    <2> QED BY <2>1, <1>3, <1>4 DEF Advance
  <1> QED BY <1>2, <1>5, <1>6

\* The steps of deflate_stored, deflateParams and deflateSetDictionary, and those
\* that enter or leave a loop.
LEMMA OtherAdvances ==
  ASSUME WindowInv, WindowInv',
         \/ CallFill \/ NeedMore \/ EndOfInput \/ EndBlock \/ StoredCopy \/ CopyDone
         \/ StoredUpdate \/ StoredFill \/ ParamsAfter \/ DictLoop \/ DictDone
  PROVE  pc' = "idle" \/ Advance
  <1> USE DEF Advance
  <1>t. TypePos /\ TypePos' BY DEF WindowInv, TypeOK
  <1>1. CASE CallFill BY <1>1 DEF CallFill, Phase, Unspent, Turn
  <1>2. CASE NeedMore BY <1>2 DEF NeedMore, Return, Phase
  <1>3. CASE EndOfInput BY <1>3 DEF EndOfInput, Phase
  <1>4. CASE EndBlock BY <1>4 DEF EndBlock, BlockDone, Return, Phase
  <1>5. CASE StoredCopy
    <2>1. Phase = 3 BY <1>5 DEF StoredCopy, Phase
    <2>2. CASE pc' = "update" BY <2>1, <2>2 DEF Phase
    <2>3. CASE pc' = "copy"
      <3>1. Left \in Int /\ Hdr \in Nat /\ Hdr >= 1 /\ MaxStored \in Nat
        BY <1>t, BlockAssumption DEF Left, TypePos
      <3>2. DirectLen \in Int /\ DirectLen <= avail_out - Hdr /\ Min2(Left, DirectLen) <= DirectLen
            /\ Min2(Left, DirectLen) \in Int
        BY <3>1, <1>t DEF DirectLen, TypePos
      <3>3. /\ avail_in' = avail_in - (DirectLen - Min2(Left, DirectLen))
            /\ avail_out' = avail_out - Hdr - DirectLen /\ lookahead' = lookahead
        BY <1>5 DEF StoredCopy
      <3>4. DirectLen >= 0
        BY <1>5, <3>1, <1>t, BlockAssumption DEF WindowInv, Geometry, StoredCopy, CopyBreaks,
           DirectLen, Left, TypePos
      <3> HIDE DEF Min2
      <3>5. Unspent' < Unspent BY <3>1, <3>2, <3>3, <3>4, <1>t DEF Unspent, TypePos
      <3>6. Phase' = 3 BY <2>3 DEF Phase
      <3> QED BY <2>1, <3>5, <3>6
    <2> QED BY <2>2, <2>3, <1>5 DEF StoredCopy
  <1>6. CASE CopyDone BY <1>6 DEF CopyDone, Phase
  <1>7. CASE StoredUpdate BY <1>7 DEF StoredUpdate, Return, Phase
  <1>8. CASE StoredFill BY <1>8 DEF StoredFill, Return, Phase
  <1>9. CASE ParamsAfter BY <1>9 DEF ParamsAfter
  <1>10. CASE DictLoop
    <2>1. Phase = 3 /\ Phase' = 3 BY <1>10 DEF DictLoop, Phase
    <2>2. Unspent' < Unspent BY <1>10, <1>t, Sizes DEF DictLoop, Unspent, TypePos
    <2> QED BY <2>1, <2>2
  <1>11. CASE DictDone BY <1>11 DEF DictDone
  <1> QED BY <1>1, <1>2, <1>3, <1>4, <1>5, <1>6, <1>7, <1>8, <1>9, <1>10, <1>11

\* Every step of a call returns or lowers a measure in the natural numbers, for
\* all sizes (CallAdvances): no loop of deflate or deflateSetDictionary spins.
THEOREM CallsAdvance ==
  ASSUME Narrow
  PROVE  Spec => /\ CallAdvances
                 /\ [](Phase \in Nat /\ Unspent \in Nat /\ Turn \in Nat /\ Rest \in Nat)
  <1> DEFINE Gets == pc # "idle" => pc' = "idle" \/ Advance
             Measured == Phase \in Nat /\ Unspent \in Nat /\ Turn \in Nat /\ Rest \in Nat
  <1>1. WindowInv /\ [Next]_vars => [Gets]_vars
    <2> SUFFICES ASSUME WindowInv, Next, pc # "idle" PROVE pc' = "idle" \/ Advance
      BY DEF vars
    <2>i. WindowInv' BY NextKeeps
    <2>s. Step
      BY DEF Next, Caller, Deflate, ParamsNow, ParamsFlush, SetDictionary, DeflateReset
    <2>d. (MinMatch - 1) \in (MinMatch - 1)..MaxMatch /\ 1 \in 1..MaxDist /\ 1 \in 1..MaxMatch
      BY Sizes
    <2>1. CASE HuffStep BY <2>1, <2>i, <2>d, ConsumeAdvances DEF HuffStep
    <2>2. CASE \E n \in 1..MaxMatch : RleStep(n) \/ QuickStep(n) \/ FastStep(n)
      BY <2>2, <2>i, ConsumeAdvances DEF RleStep, QuickStep, FastStep
    <2>3. CASE \E cur \in Currents : MediumStep(cur) BY <2>3, <2>i, MediumAdvances
    <2>4. CASE LazyEmit \/ \E m \in (MinMatch - 1)..MaxMatch, d \in 1..MaxDist :
                             LazyLiteral(m, d) \/ LazyDefer(m, d)
      BY <2>4, <2>i, <2>d, LazyAdvances
    <2>5. CASE FillWindow BY <2>5, FillAdvances
    <2>6. CASE \/ CallFill \/ NeedMore \/ EndOfInput \/ EndBlock \/ StoredCopy \/ CopyDone
               \/ StoredUpdate \/ StoredFill \/ ParamsAfter \/ DictLoop \/ DictDone
      BY <2>6, <2>i, OtherAdvances
    <2> QED BY <2>s, <2>1, <2>2, <2>3, <2>4, <2>5, <2>6 DEF Step
  <1>2. WindowInv => Measured BY MeasureFacts DEF WindowInv, TypeOK
  <1> HIDE DEF Gets, Measured
  <1>3. Spec => [][Gets]_vars /\ []Measured BY <1>1, <1>2, WindowInvariant, PTL DEF Spec
  <1> QED BY <1>3 DEF CallAdvances, Gets, Measured

\* deflate_stored moves and copies inside the window buffer (StoredFits).
THEOREM StoredStaysInside ==
  ASSUME Narrow
  PROVE  Spec => []StoredFits
  <1> USE Sizes
  <1>1. WindowInv => StoredFits
    <2> SUFFICES ASSUME WindowInv PROVE StoredFits OBVIOUS
    <2>i. TypeOK /\ Geometry BY DEF WindowInv
    <2>1. strstart <= WindowSize BY <2>i, GridBounds DEF Geometry, TypeOK, TypePos
    <2>2. ASSUME pc = "update", used > 0
          PROVE  /\ block_start = strstart /\ UpdateStart <= WindowSize
                 /\ used < W /\ StoredSlides => strstart >= W
      BY <2>2, <2>i, <2>1 DEF Geometry, UpdateStart, StoredSlides, TypeOK, TypePos
    <2> QED BY <2>1, <2>2 DEF StoredFits
  <1> QED BY <1>1, WindowInvariant, PTL

\* fill_window, the match searches and deflate_stored access only bytes of the
\* window buffer, the searches only written ones (StaysInside).
THEOREM AccessesStayInside ==
  ASSUME Narrow
  PROVE  Spec => []StaysInside
  <1>1. ReadsFit /\ RoomForSearch /\ StoredFits => StaysInside BY DEF StaysInside
  <1> QED BY <1>1, FillStaysInside, SearchStaysInside, StoredStaysInside, PTL

\* The memcpy of every slide of fill_window is between areas that do not overlap
\* (SlideSafe).
THEOREM SlidesAreSafe ==
  ASSUME Narrow
  PROVE  Spec => []SlideSafe
  BY FillStaysInside, PTL

\* Slides, dictionaries and level changes keep the history matches may use
\* (HistoryKept).
THEOREM HistoryIsKept ==
  ASSUME Narrow
  PROVE  Spec => []HistoryKept
  BY HistoryAndChains, PTL

\* Callers that set dictionaries where zlib-ng.h allows it lose no input byte
\* (NoByteLost), a block means the same stored or coded (SymbolsCoverBlock), and
\* deflate_stored starts with an empty lookahead inside the window (StoredEntry).
THEOREM BytesAccounted ==
  ASSUME Narrow, DictRule = "contract"
  PROVE  Spec => [](NoByteLost /\ SymbolsCoverBlock /\ StoredEntry)
  <1>1. WindowInv => NoByteLost /\ SymbolsCoverBlock BY DEF WindowInv, Account, NoByteLost, SymbolsCoverBlock
  <1>2. WindowInv => StoredEntry BY DEF WindowInv, Account, Control, StoredEntry
  <1> QED BY <1>1, <1>2, WindowInvariant, PTL

\* The symbols tallied for a block stand for exactly the bytes it would store, so
\* zng_tr_flush_block may send it either way (SymbolsCoverBlock).
THEOREM SymbolsCoverTheBlock ==
  ASSUME Narrow, DictRule = "contract"
  PROVE  Spec => []SymbolsCoverBlock
  BY BytesAccounted, PTL
=============================================================================
