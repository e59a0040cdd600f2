-------------------------- MODULE MCDeflateWindow --------------------------
(***************************************************************************)
(* Small windows for TLC.  W = 9, MinMatch = WantMinMatch = 2 and          *)
(* MaxMatch = 4 keep MinLookahead = 7 and MaxDist = 2 in the order of the  *)
(* real sizes, and let a match of two bytes be absorbed by the next one.   *)
(***************************************************************************)
EXTENDS DeflateWindow

Config(l, s) == [level |-> l, strategy |-> s]

\* A level of each compressor, and the two strategies that replace them.
MCConfigs == {Config(0, "default"), Config(1, "default"), Config(2, "default"),
              Config(6, "default"), Config(8, "default"), Config(6, "huff"),
              Config(8, "rle"), Config(9, "default")}

\* deflate_stored and a compressor that fills the window.
MCStored == {Config(0, "default"), Config(6, "default")}

\* Where no match is deferred, match_start keeps a value that nothing reads: every
\* use of it, and of a prev_length below MinMatch, tests prev_length >= MinMatch.
\* States that differ in it alone have the same futures, and count as one.
LiveMatch == IF prev_length >= MinMatch THEN <<match_start, prev_length>> ELSE <<>>
LiveState ==
  <<LiveMatch, match_available, next_match, posVars, paramVars, chainVars, sym_next,
    avail_in, avail_out, flush, used, call, lastcall, finished, pc, owed, tallied, hist>>
=============================================================================
