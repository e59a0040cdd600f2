------------------------------ MODULE GzWrite ------------------------------
(***************************************************************************)
(* Writing a gzip file: gzwrite, gzputc, gzprintf, gzflush, gzsetparams,   *)
(* gzseek and gzclose_w over gz_write, gz_zero and gz_comp.                *)
(*                                                                         *)
(* A byte of the uncompressed data is its position, Zero for a byte that   *)
(* gzseek skipped and Junk for memory nobody wrote.  deflate is taken by   *)
(* its contract (see DeflateStream): it consumes all input unless the      *)
(* output is full, holds back what it likes unless it flushes, and frames  *)
(* a member by Header and Trailer.  An output byte stands for the input byte it *)
(* completes.  write() may fail or be short at every call.                 *)
(***************************************************************************)
EXTENDS GzState, FiniteSets

CONSTANTS
  Lens,              \* lengths of gzwrite and gzprintf
  MaxPos,            \* bound on the bytes of the file
  MaxMembers,        \* bound on the members gzflush(Z_FINISH) ends
  SeekRule           \* "buffered": zeros are first asked for by a call that has
                     \* the buffers allocated; "any": by every call

Zero == -1
Junk == -2
Header == -3
Trailer == -4
Flushes == {"none", "sync", "finish"}

ASSUME WriteAssumption ==
  /\ Lens \subseteq Nat /\ MaxPos \in Nat /\ MaxMembers \in Nat /\ SeekRule \in {"buffered", "any"}

VARIABLES
  inp, noff, rest,   \* strm.next_in: the bytes there, their offset in the input buffer
                     \* (-1: the caller's buffer); what gzprintf left behind them
  outp, nout,        \* bytes x.next .. strm.next_out, and next_out - out
  reset,             \* state->reset
  member, hold,      \* deflate: "new", "busy" or "done", bytes it holds
  op, left, flush,   \* the call, its bytes still to go, its flush
  after, ended,      \* where gz_comp returns to; deflate said Z_STREAM_END
  zclear, zn,        \* gz_zero: bytes cleared (-1: none yet), bytes of this round
  file,              \* what write() put into the file
  zeros, told        \* positions skipped by gzseek; some call reported an error

bufVars  == <<inp, noff, rest, outp, nout>>
defVars  == <<reset, member, hold>>
callVars == <<op, left, flush, after, ended, zclear, zn>>
seenVars == <<file, zeros, told>>
writeVars == <<bufVars, defVars, callVars, seenVars>>

WriteInit ==
  /\ inp = <<>> /\ noff = 0 /\ rest = <<>> /\ outp = <<>> /\ nout = 0
  /\ reset = FALSE /\ member = "new" /\ hold = <<>>
  /\ op = "none" /\ left = 0 /\ flush = "none" /\ after = "idle" /\ ended = FALSE
  /\ zclear = -1 /\ zn = 0
  /\ file = <<>> /\ zeros = {} /\ told = FALSE

Data(p, n) == [i \in 1..n |-> p + i - 1]

(* The return of -1: gzclose_w goes on to its last flush and then gives    *)
(* everything up, any other call ends and reports the error.               *)
Fail ==
  /\ err' = "fatal" /\ told' = TRUE
  /\ pc' = (CASE op = "close" /\ after # "closed" -> "body"
              [] op = "close" /\ after = "closed" -> "closed"
              [] OTHER -> "idle")
  /\ after' = "idle"

(* gz_write_init, whenever the buffers are missing.                        *)
WriteAlloc == \E ok \in BOOLEAN :
  /\ Alloc(ok)
  /\ IF ok THEN UNCHANGED <<told, pc, after>> ELSE Fail

--------------------------------------------------------------------------------
(* The calls.  One that finds err set only returns, so after an error the  *)
(* caller closes the file.                                                 *)
Start(o, n, f) ==
  /\ pc = "idle" /\ mode = "write"
  /\ err = "ok" \/ o = "close"
  /\ SeekRule = "any" \/ size > 0 \/ skip = 0 \/ o \in {"write", "printf"}
  /\ n = 0 \/ pos + skip + n <= MaxPos
  /\ op' = o /\ left' = n /\ flush' = f /\ pc' = "begin" /\ after' = "idle"
  /\ zeros' = zeros \cup pos..(pos + skip - 1)
  /\ zclear' = -1 /\ zn' = 0
  /\ UNCHANGED <<mode, size, want, direct, pos, skip, err, bufVars, defVars, ended, file, told>>

gzwrite   == \E n \in Lens \ {0} : Start("write", n, "none")
gzputc    == Start("putc", 1, "none")
gzprintf  == \E n \in Lens \ {0} : Start("printf", n, "none")
gzflush   == \E f \in Flushes :
  /\ f # "none" => Cardinality({i \in 1..Len(file) : file[i] = Trailer}) < MaxMembers
  /\ Start("flush", 0, f)
gzclose_w == Start("close", 0, "finish")

(* gzsetparams asks for other parameters than the present ones.            *)
gzsetparams == direct = 0 /\ Start("params", 0, "block")

(* gzseek while writing: forward only, as zeros that the next call writes. *)
(* SEEK_CUR drops the pending seek before the new one is checked.          *)
WriteSeek ==
  /\ pc = "idle" /\ mode = "write" /\ err = "ok"
  /\ \E t \in Targets, cur \in BOOLEAN :
       /\ t <= MaxPos
       /\ skip' = (IF t >= pos THEN t - pos ELSE IF cur THEN 0 ELSE skip)
       /\ skip' # skip
  /\ UNCHANGED <<mode, size, want, direct, pos, err, pc, writeVars>>

--------------------------------------------------------------------------------
(* What comes before the body of a call: gz_write_init where the call asks *)
(* for it, and gz_zero for a pending seek.                                 *)
Begin ==
  /\ pc = "begin"
  /\ IF op \in {"write", "printf"} /\ size = 0
     THEN WriteAlloc
     ELSE /\ pc' = (IF skip = 0 THEN "body" ELSE IF inp # <<>> THEN "comp" ELSE "zero")
          /\ after' = (IF skip = 0 THEN after ELSE "zero")
          /\ UNCHANGED <<size, err, told>>
  /\ UNCHANGED <<mode, want, direct, pos, skip, bufVars, defVars,
                 op, left, flush, ended, zclear, zn, file, zeros>>

(* One round of gz_zero.  Only the first round clears the buffer, and only *)
(* as far as that round uses it.                                           *)
ZeroRound ==
  /\ pc = "zero"
  /\ LET n == Lesser(size, skip)
         cleared == IF zclear = -1 THEN n ELSE zclear IN
     /\ zclear' = cleared /\ zn' = n
     /\ inp' = [i \in 1..n |-> IF i <= cleared THEN Zero ELSE Junk]
     /\ noff' = 0 /\ pos' = pos + n
  /\ pc' = "comp" /\ after' = "zeroed"
  /\ UNCHANGED <<mode, size, want, direct, skip, err, rest, outp, nout, defVars,
                 op, left, flush, ended, seenVars>>

ZeroDone ==
  /\ pc = "zeroed"
  /\ skip' = skip - zn
  /\ IF skip' > 0 THEN pc' = "zero" /\ UNCHANGED zclear ELSE pc' = "body" /\ zclear' = -1
  /\ zn' = 0
  /\ UNCHANGED <<mode, size, want, direct, pos, err, bufVars, defVars,
                 op, left, flush, after, ended, seenVars>>

--------------------------------------------------------------------------------
(* The bodies.  CallComp runs gz_comp and goes on at place a.              *)
CallComp(a) == pc' = "comp" /\ after' = a
Return == pc' = "idle" /\ UNCHANGED after

(* Where the next byte goes in the input buffer.                           *)
FillAt == IF inp = <<>> THEN 0 ELSE noff + Len(inp)
RoomWholeBuffer == 2 * size - FillAt
Room == size - FillAt
Fill(n) ==
  /\ inp' = inp \o Data(pos, n) /\ noff' = (IF inp = <<>> THEN 0 ELSE noff)
  /\ pos' = pos + n

(* gz_write for less than a buffer: copy, compress when it is full.        *)
WriteSmall ==
  /\ op = "write" /\ left < size
  /\ LET copy == Lesser(Room, left) IN
     /\ Fill(copy) /\ left' = left - copy
     /\ IF left' > 0 THEN CallComp("body") ELSE Return
  /\ UNCHANGED <<rest, op>>

(* gz_write otherwise: empty the buffer, compress from the caller's.       *)
WriteLarge ==
  /\ op = "write" /\ left >= size
  /\ IF inp # <<>>
     THEN CallComp("body") /\ UNCHANGED <<inp, noff, pos, left>>
     ELSE /\ inp' = Data(pos, left) /\ noff' = -1 /\ pos' = pos + left /\ left' = 0
          /\ CallComp("idle")
  /\ UNCHANGED <<rest, op>>

PutcBody ==
  /\ op = "putc"
  /\ IF size > 0 /\ FillAt < size
     THEN Fill(1) /\ Return /\ left' = 0 /\ UNCHANGED op
     ELSE /\ op' = "write" /\ left' = 1 /\ pc' = "begin"
          /\ UNCHANGED <<inp, noff, pos, after>>
  /\ UNCHANGED <<rest>>

(* gzvprintf formats behind the buffered bytes, into the second half of    *)
(* the double-sized buffer if need be, compresses the first half and moves *)
(* down what lies from in + size on.                                       *)
PrintfBody ==
  /\ op = "printf"
  /\ LET all == inp \o Data(pos, left)
         at  == IF inp = <<>> THEN 0 ELSE noff
         mem == [i \in 1..at |-> Junk] \o all
         more == Len(all) - size IN
     CASE left >= size -> Return /\ UNCHANGED <<inp, noff, pos, rest>>
       [] left < size /\ more < 0 -> Fill(left) /\ Return /\ UNCHANGED rest
       [] OTHER -> /\ inp' = SubSeq(all, 1, size) /\ noff' = at /\ pos' = pos + left
                   /\ rest' = SubSeq(mem, size + 1, size + more)
                   /\ CallComp("moved")
  /\ left' = 0 /\ UNCHANGED op

FlushBody ==
  /\ op \in {"flush", "close"}
  /\ CallComp(IF op = "close" THEN "closed" ELSE "flushed")
  /\ UNCHANGED <<inp, noff, pos, left, rest, op>>

(* gzsetparams: flush with the old parameters, then deflateParams.         *)
ParamsBody ==
  /\ op = "params"
  /\ IF size > 0 /\ inp # <<>> THEN CallComp("params") ELSE pc' = "params" /\ UNCHANGED after
  /\ UNCHANGED <<inp, noff, pos, left, rest, op>>

Body ==
  /\ pc = "body"
  /\ WriteSmall \/ WriteLarge \/ PutcBody \/ PrintfBody \/ FlushBody \/ ParamsBody
  /\ UNCHANGED <<mode, size, want, direct, skip, err, outp, nout, reset, member, hold,
                 flush, ended, zclear, zn, seenVars>>

Moved ==
  /\ pc = "moved"
  /\ inp' = rest /\ noff' = 0 /\ rest' = <<>> /\ pc' = "idle"
  /\ UNCHANGED <<mode, size, want, direct, pos, skip, err, outp, nout, defVars, callVars, seenVars>>

(* deflateParams flushes a block into the room there is; what it returns   *)
(* is dropped.  It changes nothing on a finished stream, and nothing while *)
(* input remains uncompressed.                                             *)
Params ==
  /\ pc = "params" /\ pc' = "idle"
  /\ \E e \in 0..Len(hold) :
       /\ IF size > 0 /\ member = "busy" THEN e <= size - nout ELSE e = 0
       /\ e < Lesser(Len(hold), size - nout) => e + 1 = Len(hold)
       /\ outp' = outp \o SubSeq(hold, 1, e) /\ nout' = nout + e
       /\ hold' = SubSeq(hold, e + 1, Len(hold))
  /\ UNCHANGED <<mode, size, want, direct, pos, skip, err, inp, noff, rest, reset, member,
                 callVars, seenVars>>

--------------------------------------------------------------------------------
(* gz_comp.  Only the bodies of gzflush, gzclose_w and gzsetparams flush.  *)
CompFlush == IF after \in {"flushed", "closed", "params"} THEN flush ELSE "none"
CompReturn == pc' = (IF after = "flushed" THEN "idle" ELSE after) /\ after' = "idle"

Direct(got) ==
  /\ file' = file \o SubSeq(inp, 1, got)
  /\ IF got < Len(inp) THEN Fail /\ UNCHANGED inp
     ELSE inp' = <<>> /\ CompReturn /\ UNCHANGED <<err, told>>

Comp ==
  /\ pc = "comp"
  /\ ended' = FALSE
  /\ CASE size = 0 ->
            WriteAlloc /\ UNCHANGED <<inp, reset, member, hold, file>>
       [] size > 0 /\ direct = 1 ->
            /\ \E got \in 0..Len(inp) : Direct(got)
            /\ UNCHANGED <<size, reset, member, hold>>
       [] size > 0 /\ direct = 0 /\ reset /\ inp = <<>> /\ CompFlush = "none" ->
            CompReturn /\ UNCHANGED <<size, err, told, inp, reset, member, hold, file>>
       [] OTHER ->
            /\ reset' = FALSE
            /\ member' = (IF reset THEN "new" ELSE member)
            /\ hold' = (IF reset THEN <<>> ELSE hold)
            /\ pc' = "write" /\ UNCHANGED <<size, err, told, inp, file, after>>
  /\ UNCHANGED <<mode, want, direct, pos, skip, noff, rest, outp, nout,
                 op, left, flush, zclear, zn, zeros>>

(* Write the output buffer when it is full, or to flush; a finish waits    *)
(* for the end of the stream.                                              *)
WriteOut == nout = size \/ CompFlush \in {"sync", "block"} \/ (CompFlush = "finish" /\ ended)

IncompleteOnError(got, n) == got = 0 /\ n > 0
Incomplete(got, n) == got < n

CompWrite ==
  /\ pc = "write"
  /\ IF ~WriteOut
     THEN pc' = "deflate" /\ UNCHANGED <<outp, nout, file, err, told, after>>
     ELSE \E got \in 0..Len(outp) :
            /\ file' = file \o SubSeq(outp, 1, got)
            /\ IF Incomplete(got, Len(outp))
               THEN Fail /\ UNCHANGED <<outp, nout>>
               ELSE /\ outp' = <<>> /\ nout' = (IF nout = size THEN 0 ELSE nout)
                    /\ pc' = "deflate" /\ UNCHANGED <<err, told, after>>
  /\ UNCHANGED <<mode, size, want, direct, pos, skip, inp, noff, rest, defVars,
                 op, left, flush, ended, zclear, zn, zeros>>

(* The contract of deflate (its code is DeflateStream's subject): what it   *)
(* could output after consuming c bytes of input.                          *)
Pool(c) ==
  (IF member = "new" THEN <<Header>> ELSE <<>>) \o hold \o SubSeq(inp, 1, c)
    \o (IF CompFlush = "finish" /\ c = Len(inp) /\ \A i \in 1..Len(hold) : hold[i] # Trailer
        THEN <<Trailer>> ELSE <<>>)

(* deflate consumes c bytes and outputs e.                                 *)
Deflate(c, e) ==
  LET room == size - nout
      pool == IF member = "done" THEN <<>> ELSE Pool(c)
      most == Lesser(room, Len(pool)) IN
  /\ e <= most /\ (c = Len(inp) \/ e = room)
  /\ CASE CompFlush = "none" -> e \in {0, most}
       [] CompFlush = "block" -> e >= Lesser(room, Len(pool) - 1)
       [] OTHER -> e = most
  /\ inp' = SubSeq(inp, c + 1, Len(inp))
  /\ noff' = (IF noff = -1 THEN -1 ELSE noff + c)
  /\ outp' = outp \o SubSeq(pool, 1, e) /\ nout' = nout + e
  /\ hold' = SubSeq(pool, e + 1, Len(pool))
  /\ member' = (IF member = "done" \/ \E i \in 1..e : pool[i] = Trailer THEN "done" ELSE "busy")

CompDeflate ==
  /\ pc = "deflate"
  /\ \E c \in 0..Len(inp), e \in 0..size :
       /\ Deflate(c, e)
       /\ IF e > 0 THEN pc' = "write" /\ UNCHANGED <<reset, after>>
          ELSE CompReturn /\ reset' = (CompFlush = "finish")
       /\ ended' = (e > 0 /\ member' = "done")
  /\ UNCHANGED <<mode, size, want, direct, pos, skip, err, rest,
                 op, left, flush, zclear, zn, seenVars>>

(* The end of gzclose_w: the buffers go, close() itself may fail.          *)
Closed ==
  /\ pc = "closed"
  /\ mode' = "closed" /\ pc' = "idle"
  /\ told' \in {told, TRUE}
  /\ UNCHANGED <<size, want, direct, pos, skip, err, bufVars, defVars, callVars, file, zeros>>

WriteNext ==
  \/ gzwrite \/ gzputc \/ gzprintf \/ gzflush \/ gzsetparams \/ gzclose_w \/ WriteSeek
  \/ Begin \/ ZeroRound \/ ZeroDone \/ Body \/ Moved \/ Params
  \/ Comp \/ CompWrite \/ CompDeflate \/ Closed

--------------------------------------------------------------------------------
Frames == {Header, Trailer}

(* The data bytes among the first n of f.                                  *)
DataUpTo(f) ==
  LET upTo[n \in 0..Len(f)] ==
        IF n = 0 THEN <<>> ELSE IF f[n] \in Frames THEN upTo[n - 1] ELSE Append(upTo[n - 1], f[n])
  IN  upTo
Content(f) == DataUpTo(f)[Len(f)]

(* What the caller wrote: its bytes, and zeros where it seeked.            *)
Written == [i \in 1..pos |-> IF i - 1 \in zeros THEN Zero ELSE i - 1]

(* Complete members, one after the other.                                  *)
Framed(f) ==
  /\ f # <<>> /\ f[1] = Header /\ f[Len(f)] = Trailer
  /\ \A i \in 1..(Len(f) - 1) : f[i + 1] = Header <=> f[i] = Trailer

WriteTypeOK ==
  /\ inp \in Seq(Int) /\ noff \in -1..(2 * size) /\ rest \in Seq(Int)
  /\ outp \in Seq(Int) /\ nout \in 0..size /\ Len(outp) <= nout
  /\ reset \in BOOLEAN /\ member \in {"new", "busy", "done"}
  /\ hold \in Seq(Int) /\ left \in Nat /\ flush \in Flushes \cup {"block"}
  /\ ended \in BOOLEAN /\ zclear \in -1..size /\ zn \in 0..size
  /\ file \in Seq(Int) /\ zeros \subseteq Nat /\ told \in BOOLEAN

(* gzwrite, gzputc, gzprintf, gzflush, gzclose: when no call reported an   *)
(* error, the closed file, and the file after a gzflush, holds all bytes   *)
(* written, in order, zeros where the caller seeked, at the end in         *)
(* complete gzip members (short writes, buffers that fill anywhere,        *)
(* members ended by gzflush in between).                                   *)
NoSilentLoss ==
  ~told =>
    /\ mode = "closed" /\ op = "close" =>
         Content(file) = Written /\ (direct = 0 => Framed(file))
    /\ pc = "idle" /\ op = "flush" /\ flush # "none" => Content(file) = Written

(* gzvprintf relies on state->size free bytes behind the buffered input,   *)
(* and on that input starting at the start of the buffer; no call leaves   *)
(* input in the caller's buffer behind.                                    *)
InputRoom ==
  pc = "idle" /\ mode = "write" /\ err = "ok" /\ inp # <<>> => noff = 0 /\ Len(inp) <= size

(* gzseek in a file being written "compresses a sequence of zeroes".       *)
SeekZeros ==
  mode = "closed" /\ op = "close" /\ ~told =>
    \A p \in zeros : Content(file)[p + 1] = Zero
=============================================================================
