# A TLA+ verification of zlib-ng

This directory holds TLA+ models of zlib-ng, the TLC configurations that check them on
small instances, and TLAPS proofs of the most important results for all values of the
parameters. `PROJECT.json` relates every definition to the lines of C it stands for, and lists
the components, the runs, the mutants that show each property can fail, the findings, the
hazards and the theorems.

    tlc -workers 2 -config window.cfg MCDeflateWindow     # one run
    tlapm DeflateWindowProofs.tla                         # the proofs of one module

## 1. The system

zlib-ng compresses and decompresses byte streams in caller-supplied pieces. The caller owns the
input and the output buffers; each call of `deflate` or `inflate` takes what input it can, puts
what output fits, and must be resumable at every byte. There are no threads inside the library
(except for the first use of the function table), so what is hard is not parallelism but
*resumption*: a great many local positions and flags must agree with each other although a call
may stop almost anywhere, and the caller may flush, change the level, set a dictionary or reset
between any two calls.

| component | state it keeps | operations | talks to |
|---|---|---|---|
| deflate sliding window (`deflate.c` fill_window, lm_init; `deflate_p.h`; `deflate_*.c`) | `strstart`, `lookahead`, `block_start`, `fill_end`, `insert`, `high_water`, the deferred match of `deflate_slow` | fill_window, the loops of the eight compressors, deflateParams, deflateSetDictionary, deflateReset | hash chains (slid together), block output, the caller's `next_in` |
| deflate stream protocol (`deflate.c` deflate, deflateHeaders) | `status`, `wrap`, `pending`, `last_flush`, `gzindex`, `bi_valid` | deflate, deflateParams, deflateReset, deflateSetHeader | the compressors through `block_state`, the caller's `next_out` |
| static blocks of `deflate_quick` | `block_open` | start, end, flush of a block that stays open between calls | stream protocol |
| hash insertion, match search | `head`, `prev`, `ins_h` | insert, slide_hash, longest_match | window |
| block splitting and Huffman trees (`trees.c`) | frequencies, `sym_buf`, `opt_len`, `static_len` | tally, build_tree, flush_block | bit buffer, window (stored blocks) |
| bit buffer of deflate | `bi_buf`, `bi_valid` | send_bits, flush_bits, bi_windup | pending buffer |
| inflate state machine (`inflate.c`) | `mode`, `hold`, `bits`, `have`, `length`, `offset`, `check`, `total` | inflate, inflateReset, inflateSync, inflateSetDictionary, inflatePrime, inflateCopy | inflate window, code tables |
| inflate window | `window`, `wsize`, `whave`, `wnext` | updatewindow, inflateSetDictionary | state machine, inner loops |
| inflate inner loops | none (locals) | inflate_fast, chunk copies | window, output margins |
| code tables (`inftrees.c`) | none | inflate_table | state machine |
| inflateBack (`infback.c`) | `mode`, the caller's window | in and out callbacks | code tables |
| gzip files: writing, reading, positioning and errors (`gz*.c`) | `x.have`, `x.pos`, `how`, `eof`, `past`, `skip`, `reset`, `err` | gzwrite, gzread, gzseek, gzflush, gzsetparams, gzungetc, gzclose ... | deflate, inflate, the file |
| run-time function table | `functable` members | first-use stubs, init_functable | every thread |
| checksums | none | adler32, crc32, the combine functions | all of the above |
| architecture-specific kernels (`arch/`) | none | adler32, crc32, compare256, slide_hash of each architecture | the function table chooses among them |
| one-call interfaces | none (locals) | compress2, uncompress2 | deflate, inflate |

Left aside: S390 DFLTCC, allocation, the build system (reasons in `PROJECT.json` and in section 7).

What is hard, by component (each item is a hazard of `PROJECT.json`, with its line):

* **window** - unsigned positions near zero and near the end of the buffer, one compressor moving
  positions another one relies on, a match kept across a slide, hash entries of a window layout
  that is gone, parameter changes in the middle of a block;
* **stream** - output space that ends anywhere inside header, block, marker or trailer, the rank
  of flush requests, `Z_BUF_ERROR` against "nothing to do", data that overtakes the pending
  buffer, a static block left open across calls;
* **inflate** - the same from the other side: codes cut by the end of the input, a circular window
  filled in pieces, checksums taken late, margins that let `inflate_fast` read and write ahead;
* **gzip files** - short writes, errors in the middle, truncated, concatenated and growing files,
  seeks that are only remembered, buffers that are not allocated yet;
* **function table** - several threads, on cores that differ, filling it at once;
* **algorithms and kernels** - length limits, sub-tables, deferred modulo, folds and loop bounds at
  every length and alignment.

## 2. Modules

| module | stands for |
|---|---|
| `DeflateWindow`, `MCDeflateWindow`, `DeflateWindowProofs` | the window of deflate under all compressors and all API calls that move it; its instances; its theorems |
| `DeflateFormat` | what a decoder makes of the pieces deflate puts: the grammar of a stream |
| `DeflateStream`, `MCDeflateStream`, `DeflateStreamProofs` | the protocol of deflate(): header, pending buffer, flushes, static and stored blocks, trailer, deflateParams, deflateReset; its instances; its theorems |
| `InflateFast` | the margins and the input accounting of inflate_fast |
| `SyncSearch` | the search of inflateSync for the flush marker |
| `Inflate`, `MCInflate` | inflate(): modes, bits, window, checks, headers and the calls between; its instance |
| `InflateLemmas`, `InflateProofs` | facts about the operators of `Inflate`; its theorems |
| `GzState` | what a gzFile keeps in either direction |
| `GzRead`, `GzWrite` | reading and writing a gzip file |
| `ByteFile` | what a reader is promised: a file of bytes with a position |
| `MCGz` | a gzFile opened in one of the directions, and the files it meets |
| `GzProofs`, `GzWriteProofs`, `GzReadProofs` | its theorems: buffers in both directions, what is written, when Z_BUF_ERROR is set |
| `FuncTable`, `MCFuncTable`, `FuncTableProofs` | the function table, the feature checks and the choice among variants; builds and CPUs; its theorems |
| `Huffman`, `InfTrees`, `Blocks`, `BitBuffer`, `MCCodes` | code construction, decoding tables, whole blocks, the bit buffer, against reference definitions |
| `Adler32`, `Crc32`, `Crc32Fold`, `Crc32Chorba`, `Compare256`, `SlideHash`, `MCKernels` | the kernels of all architectures against the definitions of what they compute |
| `Loops`, `Bits` | loops over bytes and shifts, shared by the last two groups |
| `Batches`, `MCAlgorithms` | the machine that picks a call and returns; the calls of `MCCodes` and `MCKernels` together |

### DeflateWindow

Bytes are not represented; the state is the indices the C code keeps, with the C names.
A call runs from `pc = "idle"` to `"idle"`; each step is one pass of one loop of the C code, so
`FillWindow` is one turn of the `do` loop of `fill_window`, `MediumStep(n)` one turn of
`deflate_medium`'s loop that disposes of `n` bytes, and so on. What a match search finds is a
nondeterministic length and distance. `next_match` is the match deflate_medium found behind the
current one (levels 5 and 6), `LooksAhead` the guards of that second search, and `GrownBack` what
fizzle_matches makes of the pair. Five ghost variables (`owed`, `tallied`, `hist`, `head_ok`,
`prev_ok`) count what the bytes stand for independently of the indices, and the properties compare
the two. `lastcall = "init"` is `last_flush == -2`.

Abstractions: of the output only "space left or not" matters (`avail_out`); the hash table is
reduced to "entries belong to the present layout or not"; strategies other than
`Z_HUFFMAN_ONLY` and `Z_RLE` behave like the default. `DictRule = "contract"` is zlib-ng.h's rule
that a raw stream gets a dictionary at a block boundary only (see section 5).

### DeflateStream

Output bytes are counted; their meaning is decided when they are put, by the ghost `sect`, which is
advanced by `Parse` of `DeflateFormat`. A token out of place makes the stream `"bad"` for good.
The compressors appear as what they do to the stream: `"tally"` (all that collect symbols and put a
whole block), `"static"` (`deflate_quick` under `Z_FIXED`) and `"stored"`. `Enter` is deflate() up
to the header or the compressor; `Head*` is deflateHeaders, resumable at every byte; `Marker` and
`WriteTrailer` are its end. The size of a block, of a marker and the bits left over are
nondeterministic within their bounds. `owed` counts input that no put block stands for, `hput` and
`hcov` header bytes put and covered by the header crc, `marked` that the last thing put is a flush
marker.

The caller is free within `InSizes`, `OutSizes`, `Flushes`. Two constants say how well it behaves:
`FinishRule = "contract"` is zlib-ng.h's rule that after `Z_FINISH` only `Z_FINISH` follows, with the
input that the call before left over and no more (`Allowed`, `LeftOver`), and `ResetRule = "closed"` that deflateReset is not called with a static block open
(finding 2 shows why the second is needed).

### Inflate

`mode` is `inflate_mode`; each action is one pass through one case of inflate()'s switch, one
iteration of `inflate_fast`, or one API call. The input is counted, not represented: `have` and
`bits` are what the code keeps, and the contents are revealed when they are decoded. An element of
known width is chosen once its bits are there, a Huffman code when it is first looked at, because its
length decides how many bytes are pulled (`Need`, `Take`); `sym` keeps it if the call ends in the
middle of it. `Leave` is `inf_leave` with `updatewindow`, the deferred checksum and the totals.

A byte of the history is its index, so `window[i] = k` says that `window[i]` holds the k-th byte
decoded, or given as a dictionary, since the history began; a match that reads any other byte than
the one its distance asks for becomes a fault. `check` is what the checksum covers: the first `n`
bytes of the header or of the output, or something out of order. Ghosts: `req` what the caller asked
for, `hist` the length of the history, `put` the output since the stream began, `hdr` the header
bytes, `valid` whether the stream has to be accepted or refused, `faults` what no execution may do.

What the model takes for granted: inflateValidate is off and inflateGetHeader and inflatePrime are
called before the first inflate(); a raw dictionary is set while blocks are still to come; the chunk
copies of `chunkset_tpl.h` keep their contract. A stream opened with windowBits 0 is reused by
inflateReset2 only, and inflateSync is not called on it after a header that asks for too large a
window was refused (section 5 says why). The caller primes at most 16 bits; beyond that
inflate_fast could hand back bytes it was never given. Between calls dead values are kept at 0, and
inflateResetKeep renumbers the history to what the window holds.

### GzState, GzRead, GzWrite

`gzopen` chooses the direction once; `GzState` has the fields common to both. In both modules a call
runs in steps from `pc = "idle"`, one step per pass of a loop (`Skip`, `FetchStep`, `Decomp`; `Comp`,
`CompWrite`, `CompDeflate`, `ZeroRound`).

A file being read is a sequence of items: magic bytes, compressed data that decodes to given bytes, the
end of a member, damage, plain bytes; it may have grown when the caller clears the end of file. A
byte of content is its position. inflate is taken by its contract, and a read() may fail.
`GzRead` implements `ByteFile`: `Bytes` is the INSTANCE with its refinement mapping, in which the
position between calls is `x.pos` plus the pending seek, and the call that `ByteFile` is asked for is
the one in `loc`: what kind it is and how many bytes it wants. A shorter answer is allowed at the end of
the data, and to gzgets behind a newline, only. One exception is part of the promise (`Stray`): when
gzdirect looks at the file while a seek is pending (gzread.c:572-588), the buffer holds bytes from in
front of the seek, and gzgetc, which sees "no need to check for skip request" (gzread.c:439), delivers one
of them.

A byte being written is its position, `Zero` where the caller seeked, `Junk` for memory nobody wrote.
deflate is taken by its contract (it holds back what it likes unless it flushes, and an output byte
stands for the input byte it completes); write() may be short or fail at every call.

What is taken for granted: after a write error the caller only closes, and calls that find `err` set
only return; gzungetc pushes back the byte just before the position; seeks in a new file wait until a buffer exists (`SeekRule`; finding 3
lifts it); a file grows together with gzclearerr, its header in one piece, and not behind garbage;
`"G"` is used on gzip files only; lseek does not fail.

### FuncTable

`PartsOf` lists for each architecture the macro, the CPU features and the functions of each
`*_functions.h` block in the order of `functable.c`; `HeadMissing` the builds in which no block
assigns `slide_hash_head`; `Select` is what init_functable leaves in its
local table, `NativeSelect` what the `native_` macros of a build without run-time detection choose,
`CheckFeatures` the CPU checks. `Requires` says what the flags a variant is compiled with (CMakeLists.txt) demand. A thread calls through the table or through a pointer it kept
(`s->longest_match`); a stub runs init_functable, which stores member by member while other
threads read, on cores that may report different features (ARM big.LITTLE). Stores are atomic and
of pointer size, as FUNCTABLE_ASSIGN makes them.

### The algorithms

`MCCodes` and `MCKernels` list the calls to make, `Batches` is the machine that picks one and returns, and
`MCAlgorithms` runs both; the properties compare what the operators compute with a definition.
`Huffman` is build_tree, gen_bitlen and gen_codes, `InfTrees`
zng_inflate_table, `Blocks` whole blocks of each type from `zng_tr_flush_block` to the decoder of
infback.c, `BitBuffer` the 64-bit register with send_bits, its merged form, deflatePrime and windup.
`Adler32` has each architecture's order of sums with registers modelled by sums of their lanes, one by
one where lanes are narrow enough to wrap. `Crc32`, `Crc32Fold` and `Crc32Chorba` use the real
polynomial and constants (the tables computed as makecrct.c does and equal to
`crc32_braid_tbl.h`), both byte orders, with what lies beyond the end of the message read as ones and
unwritten buffer words as junk; the carry-less product and the CRC instructions are external.
`Compare256` and `SlideHash` are the loops of each variant.

## 3. Runs

Each run finishes within two or three minutes. Deadlock is checked except in `gz`,
`gz_seek_zero` and `gz_truncated`, where a closed file stops, and in `functable` and `functable_msa`, where
threads stop after `MaxCalls` and an aborted program stops.

| run | what it shows |
|---|---|
| `window` | a 2\*w_size window under all eight compressors, with level and strategy changes, dictionaries, full flushes and resets: slides copy safely, all accesses stay inside the buffer (deflate_medium's search behind the current match too), a match deferred by deflate_slow or found ahead by deflate_medium is valid when it is emitted, history and chains stay usable, symbols cover exactly the block, no byte is dropped, every step of a call brings it nearer to its return |
| `window_wide_stored` | violation: finding 1 |
| `stream` | zlib and gzip streams through all compressors, with level changes, every flush, output that ends anywhere, and a gzip header longer than pending_buf: well-formed output, each header byte once, Z_STREAM_END means the end, complete flushes, no false Z_BUF_ERROR, no overrun of pending_buf, and Z_FINISH repeated with the input it left over reaches Z_STREAM_END |
| `stream_reset_open` | violation: finding 2 |
| `inflate` | zlib, gzip and raw streams, valid or not, cut anywhere, with resets, dictionaries, primed bits, copies and resynchronisation between calls: the window holds the history, matches copy the right bytes, inflate_fast stays inside its margins, valid streams are accepted and invalid ones refused, the caller's gz_header is filled in correctly |
| `gz` | a gzFile read: refines `ByteFile`, and Z_BUF_ERROR means that the file ends inside a member; written: loses nothing without saying so; its buffers are never overrun; every call returns |
| `gz_seek_zero` | violation: finding 3 |
| `gz_truncated` | violation: finding 4 |
| `functable` | two threads, 44 combinations of build and CPU: whatever is stored, kept or run suits the CPU; only builds with native MSA and without the generic functions abort; the compile-time choice is the run-time one; every call that is not aborted returns |
| `functable_msa` | violation: finding 5 |
| `algorithms` | Huffman codes complete, limited and optimal; decoding tables accept exactly the complete sets; blocks as long as counted and decoded to their symbols; no bit lost in the buffer; inflateSync's search independent of how the input is cut; every architecture's checksum, comparison and slide kernels return what the definition says, except for the three cases named in the properties (see below) |
| `slide_msa` | violation: finding 6 |

Three properties of `algorithms` hold with an exception, which is part of the property and is run:
`BitsInOrder`, where deflatePrime is given more bits than it is to insert and the buffer is empty or was just
filled; `ChecksumsAgree`, where the last sum of adler32_rvv wraps because vectors have 256 bytes or more
(`RvvFits`), so that only the low half is required; and `SlidesOnce`, where slide_hash_msa takes
w_size for slide_len (`SlidesByLen`, without the exception, is the run `slide_msa`).

### Bounds and why they are enough

* Window: `W = 9`, `MinMatch = 2`, `MaxMatch = 4` give `MinLookahead = 7` and `MaxDist = 2`, the
  smallest sizes with the order of the real ones (`w_size > MIN_LOOKAHEAD > MAX_MATCH > MIN_MATCH`,
  `MAX_DIST >= 2`) in which a match found ahead can grow backwards until the one before it is gone. The
  window slides after 18 bytes; calls hand over 10, so slides happen
  inside and between calls, and with a match deferred or found ahead. `SymEnd = 2` makes blocks end inside a
  call. The input is unbounded: the state is finite because the window slides, and `owed` and
  `tallied` are bounded by the length of a block (`SymEnd` symbols of at most `MaxMatch` bytes). The run's VIEW
  (`LiveState`) takes states as one that differ only in a `match_start` no match is deferred for: every use of it
  tests `prev_length >= MinMatch` first.
* `Mult = 2` is `windowBits` 14 and 15. Larger factors (the 32 KiB minimum buffer of small windows)
  are covered by the proofs for levels above 0 and by `window_wide_stored` for level 0.
* Stream: `PendBuf = 6` is shorter than a gzip header with fields (8 + 3 + 4 and 9 bytes) and than
  two blocks of 5; output of 1 byte ends inside every piece, 7 leaves room for a whole block or marker, so
  each branch on a full output is taken both ways; a direct stored copy fits only for 7. `MaxStored = 3` is
  less than the 4 bytes that may be left over and handed in together, so that the cap on a stored block bites. The caller never asks for
  Z_BLOCK itself; deflateParams does. `Margin = 2` and
  `HdrLow = 2` keep the order of the real sizes. `LeftCap` bounds `strstart - block_start`, which
  deflate_quick never resets while its block is open: only its being zero is tested.
* Inflate: windows of 2 and 4 bytes and a history of 5 (`MaxHist`) fill, wrap and overtake the window;
  calls of 1 and 17 input bytes and 1 and 6 output bytes end inside everything and also enter
  `inflate_fast`; the code lengths are chosen so that codes with their extra bits come near the 48 bits
  an iteration may use up; offsets reach the near and the far end of the window and beyond it;
  a primed 16 bits are what inflate_fast may have to give back.
* Gz: buffers of 3 bytes (`MINSIZE` stands for 8), reads of 2 and 7, writes of 2 and 3, at most 6
  bytes and one ended member: buffers fill, empty and are bypassed; the files have one or two members,
  trailing garbage, a cut, damage, nothing at all, a lone first magic byte, and growth; gzread asks for 2 and 7
  bytes of files of 1 to 7, and one byte is a newline for gzgets; of the two that are cut
  one ends where a call's output space does (finding 4), the other does not.
* FuncTable: CPUs by generation, with those where one feature of a group is missing; MIPS builds with
  native MSA, with and without the constructor and the generic functions; two threads are
  enough for each order of a store and a read, `MaxCalls = 1` for the first use, which is where stubs are.
* Codes (`algorithms`): all frequencies from {0, 1, 2, 3, 5} for 5 symbols with limits 3 and 4 (both bite), all
  lengths 0..4 for 5 symbols with a root of 2 bits (sub-tables occur); blocks chosen for runs of 138 and
  139 equal lengths, every length and distance code and each block type; the bit buffer at each of its 64
  fill levels with sends of up to 48 bits, and for deflatePrime of 0 to 32 bits of values that are wider,
  negative ones included (more than 32 bits it refuses unless `LIT_MEM` is defined, deflate.c:608-613).
* Kernels (`algorithms`): the smallest widths at which deferred sums come close to their limits (words of 24 bits, base
  4093, bytes up to 7, NMAX 1680; vectors of 16, 32 and 64 bytes for adler32_rvv, of which the last
  stand to these widths as 256 to the real ones, and a length for which their sum does wrap); dense short and sparse long messages at the lengths and addresses
  around each loop bound; compare256 with all surrounding bytes different; slide tables of 64 and 128
  entries, moved by one and by two windows.
* No run uses symmetry: positions are numbers and the tags are not interchangeable.

### Fairness

`WF_vars(Step)` in the stream module: the code of a call just runs. `SF_vars(FinishCall)`
in `DeflateStream`: the caller, whatever else it tries, keeps calling `deflate(Z_FINISH)` with the input
left over and with output space, as zlib-ng.h requires until `Z_STREAM_END`. It has to be strong because the calls
that intervene disable it while they run. Nothing else is assumed of the caller: it may stop
handing over input, flush without end or call without output space. `WF_vars(Running)` in `MCGz` and
weak fairness of each thread inside the table and of the constructor in `FuncTable` say the same: a
call, once made, is carried on. The window module needs none: `CallAdvances` is an action property, that every
step of a call lowers a measure in the natural numbers or returns, and a call without a next step would be a
deadlock.

## 4. Proofs

| module | theorems (the property of a run it states) |
|---|---|
| `DeflateWindowProofs` | WindowInvariant, TypesHold (TypeOK), FillStaysInside, SearchStaysInside, StoredStaysInside, AccessesStayInside (StaysInside), SlidesAreSafe (SlideSafe), HistoryIsKept (HistoryKept), HistoryAndChains (ChainUsable), DeferredMatchHolds (LazyMatchValid), DeferredDistanceKept (DistanceKept), SymbolsCoverTheBlock (SymbolsCoverBlock), BytesAccounted (NoByteLost), CallsAdvance (CallAdvances) |
| `DeflateStreamProofs` | StreamInvariant, StreamTypes (TypeOK), StreamWellFormed (WellFormed), EndIsComplete (EndComplete), FlushIsComplete (FlushComplete), StallIsHonest (NoFalseStall), PendingSuffices (PendingRoom), HeaderIsExact (HeaderExact) |
| `InflateProofs` | InflateInvariant, MarginsSuffice (FastMargins), WindowHoldsHistory (HistoryInWindow), CopiesAreRight (CopiesRight), VerdictIsRight (Verdict), HeaderIsSaved (HeaderSaved) |
| `GzProofs` | BuffersStayWithin (BuffersFit) |
| `GzWriteProofs` | NothingLost (NoSilentLoss) |
| `GzReadProofs` | BufErrorIsExact (BufErrorExact) |
| `FuncTableProofs` | TableInvariant, RunsEverywhere (RunsHere), OnlyHeadlessAborts (AbortsOnlyHeadless), ChoicesAreTheSame (NativeAgrees) |

Every invariant and action property that a passing run checks is stated by one of these theorems, except those
of `algorithms`.

Each module proves one inductive invariant (the three of gzip files share `IInv` and two of them add to it),
with one lemma per action and in it one step per conjunct the action can disturb, and draws the properties
from it. Apart from `NativeAgrees` none of the properties is inductive as it stands.

### The window

For every size, level set and strategy set under the named assumptions,
`WindowInvariant` is `Narrow => (Spec => []WindowInv)`.
`Narrow` is "level 0 is not used, or the buffer is 2\*w_size": finding 1 shows it cannot be
dropped. The strengthening is

* `Geometry`: `fill_end` takes only the positions `(j + 2) * W - MinLookahead`
  (`OnGrid`), and data ends at most `MinLookahead` past it. With that, lemma `SlideAtEnd` shows that
  a slide happens only with `fill_end` one step past its last position, where the distance computed
  from `strstart - MAX_DIST` rounded to whole windows is positive and no larger than the history
  allows; lemma `FillFacts` turns this into `more >= 2`;
* `Control`: which code may be running in which state (`pc`, `call`, `lastcall`, `level`);
* `Deferred`: what a match waiting in deflate_slow, or found ahead by deflate_medium, satisfies between two
  steps. That deflate_medium forgets a match found ahead when it has to refill the lookahead
  (deflate_medium_tpl.h:196) is never decisive in the run and rests on this proof;
* `Account`: `owed` and `tallied` against the positions, needed only for callers that keep
  zlib-ng.h's rule on dictionaries;
* `ChainInv`, `HistoryInv`: chains and history while deflate_stored's bytes are not in the window yet.

### The stream

`StreamInvariant` is `Disciplined => (Spec => []StreamInv)`.
`Disciplined` is "deflate_quick's static blocks are not used, or the caller keeps the rules on
Z_FINISH and deflateReset". `StreamInv` adds to the types

* `PlaceInv`: which `status`, `flush` and `pending` go with each place of the code (a compressor, a
  marker and a trailer start with an empty pending buffer);
* `SectInv`: the decoder's view `sect` as a function of `status`, `block_open` and the sign of `wrap`;
* `AccountInv`: `owed` against `lookahead` and `left`;
* `FlushInv`: `last_flush` names a flush only when that flush is complete. This is what makes
  Z_BUF_ERROR honest: the rank test compares with a flush that is known to be done. Its hardest
  case is deflate_stored leaving by `need_more` during a flush: the proof (`StoredFillKeeps`) shows
  that it then always put a block and filled the output, so that `last_flush` becomes -1;
* `HeadInv`: header bytes put and covered by the crc at every point where the header can stop.

In these proofs the result of flush_pending is named first (`DrainPick`), because the values of
`pending` and `avail_out` after it decide everything else.

### Inflate

`InflateInvariant` is `Spec => []IInv`, for every window size, all sets of requests, headers, code
lengths, match lengths, distances, dictionaries and calls that satisfy `InflateAssumption` and
`FastAssumption`. What these demand beyond types: codes of at most 15 bits with at most 5 and 13 extra
bits; and, of a caller that primes more than 11 bits, that the first code is long enough to use up what exceeds a
byte (the fixed codes are; a dynamic block's description uses it up before any code). `IInv` is

* `Types` (`TypeOK` and the ranges of lengths and counts) and `Calling`: which locals are live in which
  `pc`, and that input, output and totals of a call add up;
* `Buffered` (`HeldInHeader`, `HeldInBlock`, `HeldInCode`): how many bits the accumulator holds in each
  mode, in particular that a code never leaves more than a byte's worth beyond what it needs. Without it
  inflate_fast's last step, giving back `bits >> 3` bytes, cannot be shown to return bytes of this call only;
* `Margins` and `NoBitFaults`: at the top of inflate_fast's loop what is loaded never exceeds the
  input by a byte or more. Lemma `LoadDrops` shows that an iteration conserves input plus loaded bits, `FastTopKeeps`,
  `FastLenFits` and `FastStepIs` that the bits loaded at the top suffice for a literal pair or a length
  and a distance with extra bits and one refill in between;
* `Shape`: the window's sizes and indices (`wnext = whave` until it is full), and `Content`: while the
  stream can still refer back, the window `Holds` the last `whave` bytes of the history before the
  call. Lemmas `UpdateShape` and `UpdateHolds` follow updatewindow through its copy in one or two
  pieces, `MatchReads` and `FastReads` the pieces in which a match reads window and output;
* `Counted`, `Sums`: output and totals, and what the checksum covers when it is taken at once, late, or
  while copying;
* `Judged`: the verdict so far against the bytes known to be reachable by a distance, and `Saved`: what of
  the gzip header has reached the caller's structure.

`InflateLemmas` has the facts about operators; two need induction on a number (`WindowSizes`, that window
sizes grow with windowBits, and `SyncRange`), done by the least counterexample.

### Gzip files

**Buffers.** `BuffersStayWithin` is `Spec => []BuffersFit`, for every file, all buffer sizes and all sets of
lengths and targets. `IInv` adds to the types

* `Placed`: which places of the code belong to which direction;
* `ReadInv`: what a fetch is for and how much of the space it was given is still free (`Fetching`:
  in gz_decomp `room` and what was decoded add up to the whole space), and how `how`, `direct` and the descriptor
  go together (`Behind`: in a file that is copied, the position, the output and the input add up to no more than
  the descriptor's position, so that gzseek's shortcut never moves before the start of the file);
* `WriteInv`: `WriteControl`, which call may be where with which error and how much of a seek is left, and
  `Buffered`, that what waits between calls lies at the front of its buffer and fills at most half of it. Without
  it, that gzvprintf finds half a buffer free does not follow.

**Writing.** `NothingLost` is `ASSUME SeekRule = "buffered" PROVE Spec => []NoSilentLoss`, from
`IInv /\ LossInv`. Finding 3 shows that the hypothesis cannot be dropped. `LossInv` says that as long as no call
has reported an error, `Kept` holds:

* `Accounted`: what is in the file, in the output buffer, held by deflate, in the input buffer and
  still in a caller's hands is, in this order, all that was written, framing aside;
* `Seeking`: the positions that must be zeros lie before the end of the pending seek, and all those gz_zero
  still owes are among them; while it works, it has cleared at least as much of the buffer as it will hand over;
* `Calls`: which call is behind each way through gz_comp, and with which flush;
* `Framing`: a header exactly at the start and after each trailer, and what deflate's state, a
  pending `reset` and a flush that is under way say about how the stream ends;
* `Complete`: after a flush or a close nothing is left over, and a closed file ends in a trailer.

That the data of two pieces is the data of one and then of the other (`ContentJoin`), and that a framed
piece adds to a well-framed stream, need induction along a sequence, done by the least counterexample.

**Reading.** `BufErrorIsExact` is `Spec => []BufErrorExact`: Z_BUF_ERROR is set only for a file that
ends inside a member, and gz_decomp leaves output space unused only at the end of a member or with that error.
`SyncInv` relates the decoder to the file: unless the file is copied, the input buffer holds
the items just in front of the descriptor, the end of file is seen only at the end, and what inflate
expects next (`Within`) agrees with the items it has taken. `FilesAssumption` says what files there are: one that
ends inside a member (`Cut`) is not whole, and a file grows only at its end.

The converse, that a cut file is always reported, was first checked on files for which it happens
to hold. Its proof failed at the step where the last input is used up together with the output space, and
that is finding 4; the run's files now include one that shows it.

### The function table

`TableInvariant` is `Spec => []IInv` for every set of builds, CPUs, threads and calls
under the assumptions of `FuncTable`: a CPU has what its build takes for granted, newer x86
extensions come with older ones. Nothing is assumed of what is compiled in.
`IInv` says of the table and of every thread's record that what is stored, kept or has run needs only what the CPU
has (`TableOK`, `ThreadOK`), that a thread stands inside the list of stores and that a stub waits for its own
member. Lemma `ChosenRuns`, by architecture, shows that whatever init_functable chooses on any core
needs no more than the CPU has although the checks are made in groups; `ChosenFull` that every member has a
function whatever is compiled in or left out, unless `HeadMissing`, which with the invariant gives
`OnlyHeadlessAborts`: native MSA without the generic functions is the only way to abort (finding 5 is that it
does).

`ChoicesAreTheSame` needs `NativesAssumption`, what the `*_natives.h` headers (and, for AVX512VNNI and the
dot product, the build options and the instruction sets) make of the compiler's macros; without it a build could, for
example, have a native vpclmulqdq on vectors that are not native, which init_functable would take for AVX-512.
`X86Takes` and `X86Macros` spell out which parts and which macros apply on a CPU that has just what is native,
`X86Agrees` compares the last of each member by member; on the other architectures parts and macros come
in one order (`ListsAgree`).

### Only model-checked

* `CallReturns` (gz), `Finishes`, `CallsReturn`: liveness under fairness is out of the prover's reach.
* The properties of `algorithms`: they are about what recursive operators compute for given
  data, which would need induction over the data.
* The refinement `ReadsBytes`: it says that the bytes handed out are those the file's items decode to, which is
  a recursion over the items; its steps rest on what that recursion computes for every file.
* The violation runs are counterexamples and need no proof.

## 5. Findings

With a run:

1. `window_wide_stored` - with windowBits <= 13, switching from level 0 to a hashing level can leave
   `strstart` more than one w_size beyond `fill_end`; fill_window advances `fill_end` by one w_size
   only and its assertion `more >= 2` fails.
2. `stream_reset_open` - `block_open` is cleared by deflateInit2 only. After deflateReset with a
   static block open the next stream has no block header; zlib-ng.h calls deflateReset equivalent to
   deflateEnd followed by deflateInit.
3. `gz_seek_zero` - gzseek before the first write, then a call that does not allocate the buffers first:
   gz_zero clears 0 bytes and compresses what malloc left; zlib-ng.h promises zeros.
4. `gz_truncated` - a file that is cut inside a member, with the last of its input used up just when the output
   space is: gz_decomp returns without an error, the next gzread takes the end of the input for the end
   of the data, and gzread, gzerror and gzclose report success; zlib-ng.h promises Z_BUF_ERROR.
5. `functable_msa` - a MIPS build with native MSA assigns no slide_hash_head, so init_functable always
   fails: with the constructor every program aborts when it is loaded, although deflateInit and inflateInit
   are to report the failure (functable.c:41-43). Without it the first of them does report it; but
   force_init is stored before the check (functable.c:482), so that the second succeeds and the first call of
   slide_hash_head aborts.
6. `slide_msa` - slide_hash_msa moves the hash entries by w_size. fill_window slides by slide_len, which is
   a larger multiple of w_size when windowBits <= 13 (deflate.c:1277, 1293-1297), and the entries then
   point into other text.

Met while modelling, without a run of their own:

* deflateSetDictionary on a raw stream that is not at a block boundary is accepted when `lookahead` is
  0, and the bytes of the open block are dropped; zlib-ng.h says Z_STREAM_ERROR is returned
  (`DictRule = "unchecked"` shows it).
* inflateInit2 with windowBits 0: a zlib header that asks for more than MAX_WBITS is refused but
  leaves `state->wbits` at that size (inflate.c:541-543); a later inflateSync or inflateReset goes on
  with a `wsize` larger than the window (inflate.c:159, 335).
* inflatePrime accepts up to 32 bits; with more than 16 held and short codes inflate_fast may return bytes that
  were not the caller's.
* gztell after a seek beyond the end of a file being read still reports the requested position.
* gzsetparams ignores deflateParams' result, so that the level may differ from what was asked for.
* deflatePrime with a bit buffer that is empty, or just filled, keeps the whole value without masking it, where
  zlib-ng.h.in:806-808 says that `bits` low bits are inserted (the exception in `BitsInOrder`).
* adler32_rvv's horizontal sum wraps for vectors of 256 bytes or more (VLEN >= 2048): 5888 bytes of 0xff give
  a wrong checksum there. Up to 128 bytes it cannot (the exception in `ChecksumsAgree`).
* gzdirect with a seek pending and then gzgetc: the byte is one from in front of the seek (`Stray`).
* crc32_braid's `Assert(comb <= UINT32_MAX)` is false on 64-bit big-endian debug builds although the
  result is right; build_tree's comment "node is 0 or 1" does not hold; crc32_combine_op with operand 0
  does not end (outside its contract).

## 6. What is left

* The refinement of `ByteFile` as a theorem: every step of a call stutters until the one that returns. It
  needs the content of a file to be stated without recursion over its items, as `SyncInv` does for the
  position of the decoder.
* Lemmas about the bit buffer (send_bits loses no bit at any fill level), once its operators no longer
  share a module with the loops over symbols.

## 7. Not modelled

* Hash insertion and match search with their data (what a search finds is nondeterministic in
  `DeflateWindow`); compression quality.
* compress2 and uncompress2: loops around deflate and inflate with local state only.
* S390 DFLTCC: it depends on a hardware instruction the repository does not describe. The POWER8 CRC (generated
  folding code), the chunk copies of `chunkset_tpl.h`.
* Allocation and its failure, deflateTune, deflateCopy, deflatePending; the preset
  dictionary in the stream module (only as a longer zlib header); inflateBack's callbacks; calls that
  only read a field.
* In what is modelled: build_tree's radix passes over the leaves (trees.c:137-144, 217-234) are a sort; deflate, inside a gzFile,
  is its contract; `NoSilentLoss` compares what a written file decodes to, so that a member without data that was
  not asked for would go unnoticed.
* The build system, tests and tools.
