------------------------------ MODULE GzProofs ------------------------------
(***************************************************************************)
(* Gzip files: the buffers of a gzFile are never overrun, whatever file it *)
(* reads and whatever calls its caller makes (BuffersFit of MCGz).         *)
(*                                                                         *)
(* Places and types come first, then lemmas on what a step of reading and  *)
(* one of writing leave alone, then one lemma per action.                  *)
(***************************************************************************)
EXTENDS MCGz, NaturalsInduction, WellFoundedInduction, SequenceTheorems, TLAPS

ReadPlaces  == {"peek", "push", "skip", "read", "gets", "line", "fetch", "decomp", "decomped"}
WritePlaces == {"begin", "zero", "zeroed", "body", "moved", "params", "comp", "write", "deflate",
                "closed"}
Locals == [call : {"none", "read", "gets", "push", "force", "direct"}, togo : Nat, acc : Seq(Nat),
           from : Nat, back : {"none", "skip", "read", "line"}, room : Nat, dout : Seq(Nat),
           dest : {"out", "user"}]

\* A place belongs to a direction.
Placed ==
  /\ pc \in {"idle"} \cup ReadPlaces \cup WritePlaces
  /\ pc \in ReadPlaces => mode = "read"
  /\ pc \in WritePlaces => mode = "write"

-----------------------------------------------------------------------------
(* Reading.                                                                *)

ReadTypes ==
  /\ story \in Stories /\ inb \in Seq(Items) /\ outb \in Seq(Nat) /\ held \in Seq(Nat)
  /\ loc \in Locals /\ got \in Seq(Nat)

(* Where gz_fetch and gz_decomp go on, and what gz_decomp has output so far *)
(* of the room it was given.                                                *)
Fetching ==
  /\ pc = "fetch" => loc.back # "none"
  /\ pc \notin {"decomp", "decomped"} => loc.dout = <<>>
  /\ pc \in {"decomp", "decomped"} =>
       /\ how = "gzip"
       /\ loc.dest = "out" => loc.back # "none" /\ loc.room + Len(loc.dout) = 2 * size
       /\ loc.dest = "user" => loc.room + Len(loc.dout) = loc.togo
  /\ pc \in ReadPlaces \ {"peek"} => loc.call \in {"read", "gets", "push", "force"}
  /\ pc = "peek" => loc.call \in {"direct", "push", "force"}

(* In a plain file the position is behind the descriptor by what is        *)
(* buffered, so that gzseek of a file that is copied never goes below 0.   *)
Behind ==
  mode = "read" =>
    /\ how = "gzip" => direct = 0
    /\ how = "copy" => direct = 1
    /\ direct = 1 => pos + Len(outb) + Len(inb) <= fpos

ReadInv == ReadTypeOK /\ ReadTypes /\ Fetching /\ Behind

-----------------------------------------------------------------------------
(* Writing.                                                                *)

WriteControl ==
  /\ after \in {"idle", "body", "zero", "zeroed", "moved", "params", "flushed", "closed"}
  /\ op \in {"none", "write", "putc", "printf", "flush", "params", "close"}
  /\ err # "buf"
  /\ pc \in WritePlaces /\ err = "fatal" => op = "close"
  /\ pc \in WritePlaces => zn <= skip
  /\ pc \in {"write", "deflate"} => size > 0
  /\ op \in {"write", "printf"} /\ pc \in WritePlaces \ {"begin"} => size > 0

(* Between calls and outside gz_comp the buffered input starts at the      *)
(* start of the buffer and leaves half of it free for gzvprintf.           *)
Buffered ==
  /\ noff = -1 \/ noff + Len(inp) <= 2 * size
  /\ err = "ok" /\ pc \in {"idle", "begin", "body", "params"} /\ inp # <<>> => noff = 0 /\ Len(inp) <= size
  /\ pc \in {"zero", "zeroed"} => inp = <<>>
  /\ pc = "moved" \/ (pc \in {"comp", "write", "deflate"} /\ after = "moved") => Len(rest) <= size
  /\ pc = "deflate" => nout < size

WriteInv == WriteTypeOK /\ (mode = "write" => WriteControl /\ Buffered)

IInv == GzTypeOK /\ Placed /\ ReadInv /\ WriteInv

-----------------------------------------------------------------------------
(* Sequences.                                                              *)

\* Every nonempty set of naturals has a least element.
LEMMA LeastNat ==
    ASSUME NEW T \in SUBSET Nat, T # {}
    PROVE  \E x \in T : \A y \in T : x <= y
  <1> DEFINE R == {ss \in Nat \X Nat : ss[1] < ss[2]}
  <1>0. IsWellFoundedOn(R, Nat)
    BY NatLessThanWellFounded, Zenon DEF OpToRel
  <1>1. \A x, y \in Nat : x < y => <<x, y>> \in R
    OBVIOUS
  <1> HIDE DEF R
  <1>2. PICK x \in T : \A y \in T : ~(<<y, x>> \in R)
    BY <1>0, WFMin
  <1>3. ASSUME NEW y \in T PROVE x <= y
    <2>1. x \in Nat /\ y \in Nat
      OBVIOUS
    <2>2. ~(y < x)
      BY <1>1, <1>2, <2>1
    <2>3. QED
      BY <2>1, <2>2
  <1>4. QED
    BY <1>3

\* A part of a sequence
LEMMA PartIs ==
    ASSUME NEW S, NEW s \in Seq(S), NEW a \in Nat, NEW b \in Nat, a <= b, b <= Len(s)
    PROVE  SubSeq(s, a + 1, b) \in Seq(S) /\ Len(SubSeq(s, a + 1, b)) = b - a
  <1>1. \A i \in (a + 1)..b : s[i] \in S
    OBVIOUS
  <1>2. QED
    BY <1>1, SubSeqProperties

\* Plain: one byte for each item.
LEMMA PlainIs ==
    ASSUME NEW b \in Seq(Items)
    PROVE  Plain(b) \in Seq(Nat) /\ Len(Plain(b)) = Len(b)
  <1>1. \A i \in 1..Len(b) : b[i].v[1] \in Nat
    <2>1. ASSUME NEW i \in 1..Len(b) PROVE b[i].v[1] \in Nat
      <3>1. b[i].v \in Seq(Nat) /\ b[i].v # <<>>
        <4>1. b[i] \in Items
          BY ElementOfSeq
        <4>2. QED
          BY <4>1 DEF Items
      <3>2. Len(b[i].v) # 0
        BY <3>1, EmptySeq
      <3>3. QED
        BY <3>1, <3>2, ElementOfSeq
    <2>2. QED
      BY <2>1
  <1>2. QED
    BY <1>1 DEF Plain

\* Data: consecutive positions
LEMMA DataIs ==
    ASSUME NEW p \in Nat, NEW n \in Nat
    PROVE  Data(p, n) \in Seq(Nat) /\ Data(p, n) \in Seq(Int) /\ Len(Data(p, n)) = n
  BY DEF Data

\* The stage of the file that is read
LEMMA RawIs ==
    ASSUME ReadTypeOK, ReadTypes
    PROVE  raw \in Seq(Items) /\ story \in Seq(Stages) /\ stage \in 1..Len(story)
  <1>1. story \in Seq(Stages) /\ stage \in 1..Len(story)
    BY ReadAssumption DEF ReadTypeOK, ReadTypes
  <1>2. story[stage] \in Stages
    BY <1>1
  <1>3. QED
    BY <1>1, <1>2 DEF raw, Stages

\* gz_load returns what it was asked for or less.
LEMMA LoadIs ==
    ASSUME ReadTypeOK, ReadTypes, NEW n \in Nat
    PROVE  Loads(n) \in 0..n /\ Loaded(n) \in Seq(Items) /\ Len(Loaded(n)) = Loads(n)
  <1>1. raw \in Seq(Items) /\ fpos \in Nat
    BY RawIs DEF ReadTypeOK
  <1>2. Loads(n) \in 0..n /\ (fpos + Loads(n) <= Len(raw) \/ Loads(n) = 0)
    BY <1>1 DEF Loads, Lesser
  <1>3. CASE fpos + Loads(n) <= Len(raw)
    BY <1>1, <1>2, <1>3, PartIs DEF Loaded
  <1>4. CASE Loads(n) = 0
    <2>1. Loaded(n) = <<>>
      BY <1>1, <1>4, SubSeqEmpty DEF Loaded
    <2>2. QED
      BY <1>2, <1>4, <2>1
  <1>5. QED
    BY <1>2, <1>3, <1>4

\* gz_avail: the buffer of sz bytes is not overrun.
LEMMA AvailIs ==
    ASSUME ReadTypeOK, ReadTypes, NEW sz \in Nat, Len(inb) <= sz
    PROVE  /\ Avail(sz) \in Seq(Items) /\ Len(Avail(sz)) <= sz
           /\ Len(Avail(sz)) = Len(inb) + (IF eof THEN 0 ELSE Loads(sz - Len(inb)))
  <1>1. sz - Len(inb) \in Nat /\ inb \in Seq(Items)
    BY DEF ReadTypes
  <1>2. Loads(sz - Len(inb)) \in 0..(sz - Len(inb)) /\ Loaded(sz - Len(inb)) \in Seq(Items)
        /\ Len(Loaded(sz - Len(inb))) = Loads(sz - Len(inb))
    BY <1>1, LoadIs
  <1>3. QED
    BY <1>1, <1>2 DEF Avail, ReadTypeOK

\* What lies behind the first n
LEMMA RestIs ==
    ASSUME NEW S, NEW s \in Seq(S), NEW n \in 0..Len(s)
    PROVE  SubSeq(s, n + 1, Len(s)) \in Seq(S) /\ Len(SubSeq(s, n + 1, Len(s))) = Len(s) - n
  <1>1. n \in Nat /\ Len(s) \in Nat /\ n <= Len(s)
    OBVIOUS
  <1>2. QED
    BY <1>1, PartIs

\* The first n
LEMMA FrontIs ==
    ASSUME NEW S, NEW s \in Seq(S), NEW n \in 0..Len(s)
    PROVE  SubSeq(s, 1, n) \in Seq(S) /\ Len(SubSeq(s, 1, n)) = n
  <1>1. n \in Nat /\ n <= Len(s) /\ 0 \in Nat /\ 0 + 1 = 1 /\ n - 0 = n /\ 0 <= n
    OBVIOUS
  <1>2. QED
    BY <1>1, PartIs

\* One after the other
LEMMA JoinIs ==
    ASSUME NEW S, NEW s \in Seq(S), NEW t \in Seq(S)
    PROVE  s \o t \in Seq(S) /\ Len(s \o t) = Len(s) + Len(t)
  BY ConcatProperties

LEMMA LesserIs ==
    ASSUME NEW a \in Int, NEW b \in Int
    PROVE  Lesser(a, b) \in {a, b} /\ Lesser(a, b) <= a /\ Lesser(a, b) <= b
  BY DEF Lesser

-----------------------------------------------------------------------------
(* A step of one direction leaves the other alone.                         *)

ReadSide == GzTypeOK /\ Placed /\ ReadInv

\* Reading changes the buffer size at most, from 0.
LEMMA ReadLeavesWriting ==
    ASSUME IInv, mode = "read", mode' \in {"read", "closed"},
           size' = size \/ (size = 0 /\ size' = want), UNCHANGED writeVars
    PROVE  WriteInv'
  <1>1. WriteTypeOK /\ size \in Nat /\ want \in Nat
    BY GzAssumption DEF IInv, GzTypeOK, WriteInv
  <1>2. /\ UNCHANGED <<inp, noff, rest, outp, nout, reset, member, hold, left, flush>>
        /\ UNCHANGED <<ended, zclear, zn, file, zeros, told>>
    BY DEF writeVars, bufVars, defVars, callVars, seenVars
  <1>3. noff' \in -1..(2 * size') /\ nout' \in 0..size' /\ zclear' \in -1..size' /\ zn' \in 0..size'
    <2>1. noff \in -1..(2 * size) /\ nout \in 0..size /\ zclear \in -1..size /\ zn \in 0..size
      BY <1>1 DEF WriteTypeOK
    <2>2. CASE size' = size
      BY <1>1, <1>2, <2>1, <2>2
    <2>3. CASE size = 0 /\ size' = want
      BY <1>1, <1>2, <2>1, <2>3
    <2>4. QED
      BY <2>2, <2>3
  <1>4. WriteTypeOK'
    BY <1>1, <1>2, <1>3 DEF WriteTypeOK
  <1>5. QED
    BY <1>4 DEF WriteInv

\* So does writing.
LEMMA WriteLeavesReading ==
    ASSUME IInv, mode = "write", mode' \in {"write", "closed"},
           size' = size \/ (size = 0 /\ size' = want), 
           pc \in {"idle"} \cup WritePlaces, pc' \in {"idle"} \cup WritePlaces, UNCHANGED readVars
    PROVE  ReadInv'
  <1>1. ReadTypeOK' /\ ReadTypes'
    <2>1. ReadTypeOK /\ ReadTypes /\ size \in Nat /\ want \in Nat
      BY GzAssumption DEF IInv, GzTypeOK, ReadInv
    <2>2. UNCHANGED <<story, stage, inb, how, eof, past, outb, xoff, ist, held, fpos, loc, got>>
      BY DEF readVars, fileVars, streamVars
    <2>3. inb \in Seq(Items) /\ outb \in Seq(Nat) /\ Len(inb) \in Nat /\ Len(outb) \in Nat
      BY <2>1 DEF ReadTypes
    <2>4. xoff \in Nat /\ Len(inb) <= size /\ xoff + Len(outb) <= 2 * size
      BY <2>1 DEF ReadTypeOK
    <2>5. Len(inb') <= size' /\ xoff' + Len(outb') <= 2 * size'
      <3>1. CASE size' = size
        BY <2>2, <2>4, <3>1
      <3>2. CASE size = 0 /\ size' = want
        BY <2>1, <2>2, <2>3, <2>4, <3>2
      <3>3. QED
        BY <3>1, <3>2
    <2>6. ReadTypeOK'
      BY <2>1, <2>2, <2>5 DEF ReadTypeOK
    <2>7. ReadTypes'
      BY <2>1, <2>2 DEF ReadTypes
    <2>8. QED
      BY <2>6, <2>7
  <1>2. loc' = loc /\ loc.dout = <<>>
    BY DEF IInv, ReadInv, Fetching, WritePlaces, readVars
  <1>3. pc' \notin ReadPlaces
    BY DEF ReadPlaces, WritePlaces
  <1>4. Fetching'
    BY <1>2, <1>3 DEF Fetching, ReadPlaces
  <1>5. Behind'
    BY DEF Behind
  <1>6. QED
    BY <1>1, <1>4, <1>5 DEF ReadInv

-----------------------------------------------------------------------------
(* What a step of reading starts from, and what is to be shown of it, in    *)
(* terms of the values it leaves.                                           *)

\* The input and output buffers of size sz and 2 * sz hold b and, from x on, o.
BuffersAre(sz, b, o, x) ==
  b \in Seq(Items) /\ o \in Seq(Nat) /\ x \in Nat /\ Len(b) <= sz /\ x + Len(o) <= 2 * sz

\* A file that is copied: the position is behind the descriptor by what is buffered.
BehindIs(d, h, p, o, b, f) ==
  /\ h = "gzip" => d = 0
  /\ h = "copy" => d = 1
  /\ d = 1 => p + Len(o) + Len(b) <= f

Values(d, p, s, f, e, h, i, he, g) ==
  /\ d \in {-1, 0, 1} /\ p \in Nat /\ s \in Nat /\ f \in Nat /\ e \in {"ok", "buf", "fatal"}
  /\ h \in {"look", "copy", "gzip"}
  /\ i \in {"m1", "m2", "body", "done"} /\ he \in Seq(Nat) /\ g \in Seq(Nat)

ReadResult ==
  /\ mode' = "read" /\ want' = want /\ (size' = size \/ (size = 0 /\ size' = want))
  /\ Values(direct', pos', skip', fpos', err', how', ist', held', got')
  /\ eof' \in BOOLEAN /\ past' \in BOOLEAN
  /\ pc' \in {"idle"} \cup ReadPlaces /\ loc' \in Locals /\ Fetching'
  /\ story' = story /\ stage' \in 1..Len(story)
  /\ BuffersAre(size', inb', outb', xoff') /\ BehindIs(direct', how', pos', outb', inb', fpos')

LEMMA ReadNow ==
    ASSUME IInv, mode = "read"
    PROVE  /\ Values(direct, pos, skip, fpos, err, how, ist, held, got)
           /\ eof \in BOOLEAN /\ past \in BOOLEAN
           /\ loc \in Locals /\ Fetching /\ stage \in 1..Len(story)
           /\ BuffersAre(size, inb, outb, xoff) /\ BehindIs(direct, how, pos, outb, inb, fpos)
  BY DEF IInv, GzTypeOK, ReadInv, ReadTypeOK, ReadTypes, Behind, Values, BuffersAre, BehindIs

LEMMA ReadResultIs ==
    ASSUME IInv, UNCHANGED writeVars, mode = "read", ReadResult
    PROVE  IInv'
  <1>1. WriteInv'
    BY ReadLeavesWriting DEF ReadResult
  <1>2. GzTypeOK'
    BY DEF IInv, GzTypeOK, ReadResult, Values
  <1>3. Placed'
    BY DEF ReadResult, Placed, ReadPlaces, WritePlaces
  <1>4. ReadTypeOK'
    <2>1. loc'.room \in Nat
      BY DEF ReadResult, Locals
    <2>2. stage' \in 1..Len(story')
      BY Zenon DEF ReadResult
    <2>3. QED
      BY <2>1, <2>2, Zenon DEF ReadTypeOK, ReadResult, Values, BuffersAre
  <1>7. ReadTypes'
    BY Zenon DEF IInv, ReadInv, ReadTypes, ReadResult, Values, BuffersAre
  <1>5. Fetching' /\ Behind'
    BY DEF ReadResult, Behind, BehindIs
  <1>6. QED
    BY <1>1, <1>2, <1>3, <1>4, <1>5, <1>7 DEF IInv, ReadInv

\* The numbers a step starts from
LEMMA Numbers ==
    ASSUME IInv
    PROVE  /\ size \in Nat /\ want \in Nat /\ want >= 2 /\ size \in {0, want} /\ pos \in Nat
           /\ skip \in Nat /\ xoff \in Nat /\ fpos \in Nat /\ Len(inb) \in Nat /\ Len(outb) \in Nat
           /\ Len(inb) <= size /\ xoff + Len(outb) <= 2 * size
  <1>1. Len(inb) \in Nat /\ Len(outb) \in Nat
    BY DEF IInv, ReadInv, ReadTypes
  <1>2. Len(inb) <= size /\ xoff + Len(outb) <= 2 * size /\ xoff \in Nat /\ fpos \in Nat
    BY DEF IInv, ReadInv, ReadTypeOK
  <1>3. size \in Nat /\ want \in Nat /\ want >= 2 /\ size \in {0, want} /\ pos \in Nat /\ skip \in Nat
    BY GzAssumption DEF IInv, GzTypeOK
  <1>4. QED
    BY <1>1, <1>2, <1>3

\* The sequences a step of reading starts from
LEMMA ReadFacts ==
    ASSUME IInv
    PROVE  /\ inb \in Seq(Items) /\ outb \in Seq(Nat) /\ held \in Seq(Nat) /\ loc \in Locals
           /\ got \in Seq(Nat) /\ story \in Stories
  BY DEF IInv, ReadInv, ReadTypes

\* Bytes taken from the front of the output buffer
LEMMA TakenIs ==
    ASSUME IInv, mode = "read", NEW n \in 0..Len(outb)
    PROVE  /\ BuffersAre(size, inb, SubSeq(outb, n + 1, Len(outb)), xoff + n)
           /\ BehindIs(direct, how, pos + n, SubSeq(outb, n + 1, Len(outb)), inb, fpos)
           /\ SubSeq(outb, 1, n) \in Seq(Nat) /\ Len(SubSeq(outb, 1, n)) = n
           /\ pos + n \in Nat
  <1>1. outb \in Seq(Nat) /\ n \in Nat /\ n <= Len(outb)
    BY ReadFacts, Numbers
  <1>2. SubSeq(outb, n + 1, Len(outb)) \in Seq(Nat) /\ Len(SubSeq(outb, n + 1, Len(outb))) = Len(outb) - n
    BY <1>1, RestIs
  <1>3. SubSeq(outb, 1, n) \in Seq(Nat) /\ Len(SubSeq(outb, 1, n)) = n
    BY <1>1, FrontIs
  <1> DEFINE o == SubSeq(outb, n + 1, Len(outb))
  <1> HIDE DEF o
  <1>4. o \in Seq(Nat) /\ Len(o) = Len(outb) - n
    BY <1>2 DEF o
  <1>5. BuffersAre(size, inb, outb, xoff) /\ BehindIs(direct, how, pos, outb, inb, fpos)
    BY ReadNow
  <1>6. BuffersAre(size, inb, o, xoff + n)
    BY <1>1, <1>4, <1>5, Numbers DEF BuffersAre
  <1>7. BehindIs(direct, how, pos + n, o, inb, fpos)
    BY <1>1, <1>4, <1>5, Numbers DEF BehindIs
  <1>8. pos + n \in Nat
    BY <1>1, Numbers, SMTT(30)
  <1>9. QED
    BY <1>3, <1>6, <1>7, <1>8 DEF o

\* Empty buffers
LEMMA EmptiedIs ==
    ASSUME IInv, mode = "read"
    PROVE  /\ BuffersAre(size, inb, <<>>, xoff) /\ BuffersAre(size, <<>>, <<>>, xoff)
           /\ BehindIs(direct, how, pos, <<>>, inb, fpos)
  <1>1. BuffersAre(size, inb, outb, xoff) /\ BehindIs(direct, how, pos, outb, inb, fpos)
    BY ReadNow
  <1>2. Len(<<>>) = 0 /\ <<>> \in Seq(Nat) /\ <<>> \in Seq(Items)
    OBVIOUS
  <1>3. xoff \in Nat /\ xoff <= 2 * size /\ size \in Nat /\ inb \in Seq(Items) /\ Len(inb) <= size
    BY Numbers, ReadFacts
  <1>4. BuffersAre(size, inb, <<>>, xoff) /\ BuffersAre(size, <<>>, <<>>, xoff)
    BY <1>2, <1>3 DEF BuffersAre
  <1>5. BehindIs(direct, how, pos, <<>>, inb, fpos)
    BY <1>1, <1>2, Numbers DEF BehindIs
  <1>6. QED
    BY <1>4, <1>5

LEMMA NoCallIs == NoCall \in Locals /\ NoCall.dout = <<>> /\ NoCall.call = "none"
  BY DEF NoCall, Locals

-----------------------------------------------------------------------------
(* Calls that read, and the ones that are carried out at once.             *)

\* A call that is begun only takes its arguments.
LEMMA BeginReadStep ==
    ASSUME IInv, UNCHANGED writeVars,
           NEW c \in {"read", "gets", "push", "force", "direct"}, NEW n \in Nat,
           NEW place \in {"peek", "skip", "read", "gets", "push"},
           place = "peek" => c \in {"direct", "push", "force"}, place # "peek" => c # "direct",
           BeginRead(c, n, place)
    PROVE  IInv'
  <1>1. mode = "read"
    BY DEF BeginRead
  <1>2. loc' \in Locals /\ loc'.call = c /\ loc'.dout = <<>>
    <2>1. loc' = [NoCall EXCEPT !.call = c, !.togo = n, !.from = pos + skip]
      BY DEF BeginRead
    <2>2. loc' = [call |-> c, togo |-> n, acc |-> <<>>, from |-> pos + skip, back |-> "none",
                  room |-> 0, dout |-> <<>>, dest |-> "out"]
      BY <2>1 DEF NoCall
    <2>3. pos + skip \in Nat /\ <<>> \in Seq(Nat)
      BY Numbers
    <2>4. QED
      BY <2>2, <2>3 DEF Locals
  <1>3. Fetching'
    BY <1>2 DEF BeginRead, Fetching, ReadPlaces
  <1>4. /\ UNCHANGED <<mode, size, want, direct, pos, skip, err, story, stage, got>>
        /\ UNCHANGED <<inb, how, eof, past, outb, xoff, ist, held, fpos>>
        /\ pc' \in {"idle"} \cup ReadPlaces
    BY DEF BeginRead, fileVars, streamVars, ReadPlaces
  <1>5. Values(direct', pos', skip', fpos', err', how', ist', held', got')
    BY <1>1, <1>4, ReadNow
  <1>6. BuffersAre(size', inb', outb', xoff') /\ BehindIs(direct', how', pos', outb', inb', fpos')
    BY <1>1, <1>4, ReadNow
  <1>7. eof' \in BOOLEAN /\ past' \in BOOLEAN /\ stage' \in 1..Len(story)
    BY <1>1, <1>4, ReadNow, Zenon
  <1>10. mode' = "read" /\ want' = want /\ size' = size /\ story' = story
    BY <1>1, <1>4
  <1>8. ReadResult
    BY <1>2, <1>3, <1>4, <1>5, <1>6, <1>7, <1>10, Zenon DEF ReadResult
  <1>9. QED
    BY <1>1, <1>8, ReadResultIs

LEMMA BeginsStep ==
    ASSUME IInv, UNCHANGED writeVars, gzread \/ gzgets \/ gzgetcSlow \/ gzungetc \/ gzdirect
    PROVE  IInv'
  <1>1. CASE gzread
    <2>1. PICK n \in ReadLens \ {0} : BeginRead("read", n, SkipFirst("read"))
      BY <1>1 DEF gzread
    <2>2. n \in Nat /\ SkipFirst("read") \in {"skip", "read"}
      BY ReadAssumption DEF SkipFirst
    <2>3. QED
      BY <2>1, <2>2, BeginReadStep
  <1>2. CASE gzgets
    <2>1. PICK n \in ReadLens \ {0, 1} : BeginRead("gets", n - 1, SkipFirst("gets"))
      BY <1>2 DEF gzgets
    <2>2. n - 1 \in Nat /\ SkipFirst("gets") \in {"skip", "gets"}
      BY ReadAssumption DEF SkipFirst
    <2>3. QED
      BY <2>1, <2>2, BeginReadStep
  <1>3. CASE gzgetcSlow
    <2>1. BeginRead("read", 1, SkipFirst("read"))
      BY <1>3 DEF gzgetcSlow
    <2>2. 1 \in Nat /\ SkipFirst("read") \in {"skip", "read"}
      BY DEF SkipFirst
    <2>3. QED
      BY <2>1, <2>2, BeginReadStep
  <1>4. CASE gzungetc
    <2>1. PICK c \in {"push", "force"} :
            BeginRead(c, 0, IF how = "look" /\ outb = <<>> THEN "peek" ELSE SkipFirst("push"))
      BY <1>4 DEF gzungetc
    <2>2. (IF how = "look" /\ outb = <<>> THEN "peek" ELSE SkipFirst("push")) \in {"peek", "skip", "push"}
      BY DEF SkipFirst
    <2>3. QED
      BY <2>1, <2>2, BeginReadStep
  <1>5. CASE gzdirect
    <2>1. BeginRead("direct", 0, "peek")
      BY <1>5 DEF gzdirect
    <2>2. QED
      BY <2>1, BeginReadStep
  <1>6. QED
    BY <1>1, <1>2, <1>3, <1>4, <1>5

\* Between calls nothing is under way: the numbers and the buffers remain.
LEMMA QuietIs ==
    ASSUME IInv, mode = "read", pc = "idle",
           UNCHANGED <<mode, size, want, pc, story, stage, loc>>,
           eof' \in BOOLEAN, past' \in BOOLEAN,
           Values(direct', pos', skip', fpos', err', how', ist', held', got'),
           BuffersAre(size', inb', outb', xoff'), BehindIs(direct', how', pos', outb', inb', fpos')
    PROVE  ReadResult
  <1>1. Fetching' /\ loc' \in Locals /\ pc' \in {"idle"} \cup ReadPlaces
    BY ReadNow DEF Fetching, ReadPlaces
  <1>2. stage' \in 1..Len(story) /\ story' = story
    BY ReadNow, Zenon
  <1>3. mode' = "read" /\ want' = want /\ size' = size
    OBVIOUS
  <1>4. QED
    BY <1>1, <1>2, <1>3, Zenon DEF ReadResult

LEMMA GetcStep ==
    ASSUME IInv, UNCHANGED writeVars, gzgetc
    PROVE  IInv'
  <1>1. mode = "read"
    BY DEF gzgetc
  <1>2. Len(outb) # 0 /\ outb \in Seq(Nat)
    BY ReadFacts, EmptySeq DEF gzgetc
  <1>3. 1 \in 0..Len(outb) /\ 1 \in 1..Len(outb) /\ 1 + 1 = 2
    BY <1>2, Numbers
  <1>4. outb[1] \in Nat
    BY <1>2, <1>3, ElementOfSeq
  <1>5. /\ BuffersAre(size, inb, SubSeq(outb, 1 + 1, Len(outb)), xoff + 1)
        /\ BehindIs(direct, how, pos + 1, SubSeq(outb, 1 + 1, Len(outb)), inb, fpos) /\ pos + 1 \in Nat
    BY <1>1, <1>3, TakenIs
  <1>6. got' \in Seq(Nat)
    BY <1>4 DEF gzgetc
  <1>7. BuffersAre(size', inb', outb', xoff') /\ BehindIs(direct', how', pos', outb', inb', fpos')
    BY <1>3, <1>5 DEF gzgetc
  <1>8. Values(direct', pos', skip', fpos', err', how', ist', held', got')
    BY <1>1, <1>5, <1>6, ReadNow DEF gzgetc, Values
  <1>9. /\ UNCHANGED <<mode, size, want, pc, story, stage, loc>> /\ pc = "idle"
        /\ eof' = eof /\ past' = past
    BY DEF gzgetc, fileVars
  <1>12. eof' \in BOOLEAN /\ past' \in BOOLEAN
    BY <1>1, <1>9, ReadNow, Zenon
  <1>10. ReadResult
    BY <1>1, <1>7, <1>8, <1>9, <1>12, QuietIs
  <1>11. QED
    BY <1>1, <1>10, ReadResultIs

\* gz_reset leaves nothing buffered.
LEMMA ResetIs ==
    ASSUME IInv, mode = "read", Reset, direct' = direct, pos' = 0, xoff' = xoff, size' = size
    PROVE  BuffersAre(size', inb', outb', xoff') /\ BehindIs(direct', how', pos', outb', inb', fpos')
  <1>1. BuffersAre(size', inb', outb', xoff')
    BY EmptiedIs DEF Reset
  <1>2. BehindIs(direct', how', pos', outb', inb', fpos')
    BY DEF Reset, BehindIs
  <1>3. QED
    BY <1>1, <1>2

LEMMA RewindStep ==
    ASSUME IInv, UNCHANGED writeVars, gzrewind
    PROVE  IInv'
  <1>1. mode = "read"
    BY DEF gzrewind
  <1>2. BuffersAre(size', inb', outb', xoff') /\ BehindIs(direct', how', pos', outb', inb', fpos')
    BY <1>1, ResetIs DEF gzrewind
  <1>3. Values(direct', pos', skip', fpos', err', how', ist', held', got')
    BY <1>1, ReadNow DEF gzrewind, Reset, Values
  <1>4. UNCHANGED <<mode, size, want, pc, story, stage, loc>> /\ pc = "idle"
    BY DEF gzrewind, fileVars
  <1>5. eof' \in BOOLEAN /\ past' \in BOOLEAN
    BY Zenon DEF gzrewind, Reset
  <1>6. ReadResult
    BY <1>1, <1>2, <1>3, <1>4, <1>5, QuietIs
  <1>7. QED
    BY <1>1, <1>6, ReadResultIs

LEMMA ClearerrStep ==
    ASSUME IInv, UNCHANGED writeVars, gzclearerr
    PROVE  IInv'
  <1>1. mode = "read"
    BY DEF gzclearerr
  <1>2. stage' \in 1..Len(story)
    <2>1. stage \in 1..Len(story) /\ story \in Seq(Stages)
      BY RawIs DEF IInv, ReadInv
    <2>2. stage' \in {stage} \cup (IF stage < Len(story) THEN {stage + 1} ELSE {})
      BY DEF gzclearerr
    <2>3. CASE stage' = stage
      BY <2>1, <2>3
    <2>4. CASE stage' = stage + 1 /\ stage < Len(story)
      BY <2>1, <2>4
    <2>5. QED
      BY <2>2, <2>3, <2>4
  <1>3. BuffersAre(size', inb', outb', xoff') /\ BehindIs(direct', how', pos', outb', inb', fpos')
    BY <1>1, ReadNow DEF gzclearerr
  <1>4. Values(direct', pos', skip', fpos', err', how', ist', held', got')
    BY <1>1, ReadNow DEF gzclearerr, Values
  <1>5. eof' \in BOOLEAN /\ past' \in BOOLEAN
    BY Zenon DEF gzclearerr
  <1>6. Fetching' /\ loc' \in Locals /\ pc' \in {"idle"} \cup ReadPlaces
    BY <1>1, ReadNow DEF gzclearerr, Fetching, ReadPlaces
  <1>7. mode' = "read" /\ want' = want /\ size' = size /\ story' = story
    BY <1>1 DEF gzclearerr
  <1>8. ReadResult
    BY <1>2, <1>3, <1>4, <1>5, <1>6, <1>7, Zenon DEF ReadResult
  <1>9. QED
    BY <1>1, <1>8, ReadResultIs

LEMMA CloseReadStep ==
    ASSUME IInv, UNCHANGED writeVars, gzclose_r
    PROVE  IInv'
  <1>1. mode = "read" /\ mode' = "closed" /\ size' = size
    BY DEF gzclose_r
  <1>2. WriteInv'
    <2>1. size' = size \/ (size = 0 /\ size' = want)
      BY <1>1, Zenon
    <2>2. mode' \in {"read", "closed"}
      BY <1>1
    <2>3. QED
      BY <1>1, <2>1, <2>2, ReadLeavesWriting, Zenon
  <1>3. GzTypeOK' /\ Placed'
    BY DEF gzclose_r, IInv, GzTypeOK, Placed, ReadPlaces, WritePlaces
  <1>4. ReadTypeOK' /\ ReadTypes'
    BY DEF gzclose_r, IInv, ReadInv, ReadTypeOK, ReadTypes, readVars, fileVars, streamVars, raw
  <1>5. Fetching'
    BY DEF gzclose_r, IInv, ReadInv, Fetching, ReadPlaces, readVars, streamVars
  <1>6. Behind'
    BY DEF gzclose_r, Behind
  <1>7. QED
    BY <1>2, <1>3, <1>4, <1>5, <1>6 DEF IInv, ReadInv

(* gzseek: a file that is copied is never asked to seek below 0.           *)
LEMMA ReadSeekStep ==
    ASSUME IInv, UNCHANGED writeVars, ReadSeek
    PROVE  IInv'
  <1>1. mode = "read"
    BY DEF ReadSeek
  <1>2. PICK t \in Targets, cur \in BOOLEAN :
          CASE t < 0 ->
                 /\ skip' = (IF cur THEN 0 ELSE skip)
                 /\ UNCHANGED <<pos, err, inb, how, eof, past, outb, xoff, fpos>>
            [] t >= 0 /\ how = "copy" ->
                 /\ fpos' = CopySeek(t)
                 /\ outb' = <<>> /\ inb' = <<>> /\ eof' = FALSE /\ past' = FALSE
                 /\ skip' = 0 /\ err' = "ok" /\ pos' = t /\ UNCHANGED <<how, xoff>>
            [] t >= 0 /\ how # "copy" /\ t < pos ->
                 Reset /\ pos' = 0 /\ skip' = t /\ UNCHANGED xoff
            [] OTHER ->
                 LET n == Lesser(Len(outb), t - pos) IN
                 /\ outb' = SubSeq(outb, n + 1, Len(outb)) /\ xoff' = xoff + n
                 /\ pos' = pos + n /\ skip' = t - pos - n
                 /\ UNCHANGED <<err, inb, how, eof, past, fpos>>
    BY DEF ReadSeek
  <1>3. t \in Int /\ pos \in Nat
    BY GzAssumption, Numbers
  <1>4. /\ UNCHANGED <<size, want, direct, pc, story, stage, ist, held, loc>> /\ got' = <<>>
        /\ mode' = "read" /\ pc = "idle"
    BY DEF ReadSeek, fileVars
  <1> DEFINE Same == /\ BuffersAre(size', inb', outb', xoff')
                     /\ BehindIs(direct', how', pos', outb', inb', fpos')
                     /\ Values(direct', pos', skip', fpos', err', how', ist', held', got')
                     /\ eof' \in BOOLEAN /\ past' \in BOOLEAN
  <1>5. ASSUME t < 0 PROVE Same
    <2>1. skip' = (IF cur THEN 0 ELSE skip) /\ UNCHANGED <<pos, err, inb, how, eof, past, outb, xoff, fpos>>
      BY <1>2, <1>3, <1>5
    <2>2. skip' \in Nat
      BY <2>1, Numbers
    <2>3. Values(direct', pos', skip', fpos', err', how', ist', held', got')
      BY <1>1, <1>4, <2>1, <2>2, ReadNow DEF Values
    <2>4. BuffersAre(size', inb', outb', xoff') /\ BehindIs(direct', how', pos', outb', inb', fpos')
      BY <1>1, <1>4, <2>1, ReadNow
    <2>5. eof' \in BOOLEAN /\ past' \in BOOLEAN
      BY <1>1, <2>1, ReadNow, Zenon
    <2>6. QED
      BY <2>3, <2>4, <2>5, Zenon
  <1>6. ASSUME t >= 0 /\ how = "copy" PROVE Same
    <2>1. /\ fpos' = CopySeek(t) /\ outb' = <<>> /\ inb' = <<>> /\ eof' = FALSE /\ past' = FALSE
          /\ skip' = 0 /\ err' = "ok" /\ pos' = t /\ how' = how /\ xoff' = xoff
      BY <1>2, <1>3, <1>6
    <2>2. direct = 1 /\ pos + Len(outb) + Len(inb) <= fpos
      BY <1>1, <1>6, ReadNow DEF BehindIs
    <2>3. CopySeek(t) \in Nat /\ t \in Nat /\ t <= CopySeek(t)
      BY <1>3, <1>6, <2>2, Numbers DEF CopySeek
    <2>4. BehindIs(direct, how, t, <<>>, <<>>, CopySeek(t))
      BY <1>6, <2>2, <2>3 DEF BehindIs
    <2>5. Values(direct', pos', skip', fpos', err', how', ist', held', got')
      BY <1>1, <1>4, <2>1, <2>3, ReadNow DEF Values
    <2>6. BuffersAre(size', inb', outb', xoff')
      BY <1>1, <1>4, <2>1, EmptiedIs
    <2>7. BehindIs(direct', how', pos', outb', inb', fpos')
      BY <1>4, <2>1, <2>4
    <2>8. eof' \in BOOLEAN /\ past' \in BOOLEAN
      BY <2>1, Zenon
    <2>9. QED
      BY <2>5, <2>6, <2>7, <2>8, Zenon
  <1>7. ASSUME t >= 0 /\ how # "copy" /\ t < pos PROVE Same
    <2>1. Reset /\ pos' = 0 /\ skip' = t /\ xoff' = xoff
      BY <1>2, <1>3, <1>7
    <2>2. t \in Nat
      BY <1>3, <1>7
    <2>3. Values(direct', pos', skip', fpos', err', how', ist', held', got')
      BY <1>1, <1>4, <2>1, <2>2, ReadNow DEF Values, Reset
    <2>4. BuffersAre(size', inb', outb', xoff') /\ BehindIs(direct', how', pos', outb', inb', fpos')
      BY <1>1, <1>4, <2>1, ResetIs
    <2>5. eof' \in BOOLEAN /\ past' \in BOOLEAN
      BY <2>1, Zenon DEF Reset
    <2>6. QED
      BY <2>3, <2>4, <2>5, Zenon
  <1>8. ASSUME t >= 0 /\ how # "copy" /\ ~(t < pos) PROVE Same
    <2> DEFINE n == Lesser(Len(outb), t - pos)
    <2>1. n \in 0..Len(outb) /\ t - pos - n \in Nat
      BY <1>3, <1>8, Numbers DEF Lesser
    <2>2. /\ outb' = SubSeq(outb, n + 1, Len(outb)) /\ xoff' = xoff + n
          /\ pos' = pos + n /\ skip' = t - pos - n
          /\ UNCHANGED <<err, inb, how, eof, past, fpos>>
      BY <1>2, <1>3, <1>8
    <2> HIDE DEF n
    <2>3. /\ BuffersAre(size, inb, SubSeq(outb, n + 1, Len(outb)), xoff + n)
          /\ BehindIs(direct, how, pos + n, SubSeq(outb, n + 1, Len(outb)), inb, fpos)
          /\ pos + n \in Nat
      BY <1>1, <2>1, TakenIs
    <2>4. Values(direct', pos', skip', fpos', err', how', ist', held', got')
      BY <1>1, <1>4, <2>1, <2>2, <2>3, ReadNow DEF Values
    <2>5. BuffersAre(size', inb', outb', xoff') /\ BehindIs(direct', how', pos', outb', inb', fpos')
      BY <1>4, <2>2, <2>3
    <2>6. eof' \in BOOLEAN /\ past' \in BOOLEAN
      BY <1>1, <2>2, ReadNow, Zenon
    <2>7. QED
      BY <2>4, <2>5, <2>6, Zenon
  <1>9. Same
    <2>1. t < 0 \/ t >= 0
      BY <1>3
    <2>2. QED
      BY <1>5, <1>6, <1>7, <1>8, <2>1, Zenon
  <1>10. ReadResult
    <2>1. UNCHANGED <<mode, size, want, pc, story, stage, loc>>
      BY <1>1, <1>4
    <2>2. QED
      BY <1>1, <1>4, <1>9, <2>1, QuietIs, Zenon
  <1>11. QED
    BY <1>1, <1>10, ReadResultIs

-----------------------------------------------------------------------------
(* gz_look and the calls that look at the file first.                      *)

\* What gz_avail leaves in the input buffer, and the descriptor
LEMMA LookedIs ==
    ASSUME IInv, mode = "read", NEW b, NEW f,
           b = (IF Len(inb) < 2 THEN Avail(want) ELSE inb),
           f = (IF Len(inb) < 2 /\ ~eof THEN fpos + Loads(want - Len(inb)) ELSE fpos)
    PROVE  /\ b \in Seq(Items) /\ Len(b) <= want /\ f \in Nat /\ fpos <= f
           /\ Len(b) + fpos <= Len(inb) + f
  <1>1. ReadTypeOK /\ ReadTypes /\ inb \in Seq(Items)
    BY DEF IInv, ReadInv, ReadTypes
  <1>2. CASE ~(Len(inb) < 2)
    <2>1. b = inb /\ f = fpos
      BY <1>2
    <2>2. QED
      BY <1>1, <1>2, <2>1, Numbers
  <1>3. CASE Len(inb) < 2
    <2>1. Len(inb) <= want /\ want \in Nat /\ want - Len(inb) \in Nat
      BY <1>3, Numbers
    <2>2. Loads(want - Len(inb)) \in 0..(want - Len(inb))
      BY <1>1, <2>1, LoadIs
    <2>3. /\ Avail(want) \in Seq(Items) /\ Len(Avail(want)) <= want
          /\ Len(Avail(want)) = Len(inb) + (IF eof THEN 0 ELSE Loads(want - Len(inb)))
      BY <1>1, <2>1, AvailIs
    <2>4. CASE eof
      <3>1. b = Avail(want) /\ f = fpos /\ Len(Avail(want)) = Len(inb)
        BY <1>3, <2>3, <2>4, Numbers
      <3>2. QED
        BY <2>3, <3>1, Numbers
    <2>5. CASE ~eof
      <3>1. /\ b = Avail(want) /\ f = fpos + Loads(want - Len(inb))
            /\ Len(Avail(want)) = Len(inb) + Loads(want - Len(inb))
        BY <1>3, <2>3, <2>5
      <3> DEFINE k == Loads(want - Len(inb))
      <3>2. k \in Nat /\ f = fpos + k /\ Len(b) = Len(inb) + k /\ Len(b) <= want /\ b \in Seq(Items)
        BY <2>1, <2>2, <2>3, <3>1
      <3> HIDE DEF k
      <3>3. f \in Nat
        BY <3>2, Numbers, SMTT(30)
      <3>4. fpos <= f
        BY <3>2, Numbers, SMTT(30)
      <3>5. Len(b) + fpos <= Len(inb) + f
        <4>1. (Len(inb) + k) + fpos <= Len(inb) + (fpos + k)
          <5>1. Len(inb) \in Nat /\ fpos \in Nat /\ k \in Nat
            BY <3>2, Numbers
          <5>2. QED
            BY <5>1
        <4>2. QED
          BY <3>2, <4>1, Zenon
      <3>6. QED
        BY <3>2, <3>3, <3>4, <3>5, Zenon
    <2>6. QED
      BY <2>4, <2>5
  <1>4. QED
    BY <1>2, <1>3

\* gz_look fills the input buffer, or finds plain bytes for the output buffer.
LEMMA LookIs ==
    ASSUME IInv, mode = "read", Look, pos' = pos
    PROVE  /\ size' = size \/ (size = 0 /\ size' = want)
           /\ BuffersAre(size', inb', outb', xoff') /\ BehindIs(direct', how', pos', outb', inb', fpos')
           /\ direct' \in {-1, 0, 1} /\ fpos' \in Nat /\ how' \in {"look", "copy", "gzip"}
           /\ ist' \in {"m1", "m2", "body", "done"} /\ held' \in Seq(Nat) /\ eof' \in BOOLEAN
  <1> DEFINE Size == size' = size \/ (size = 0 /\ size' = want)
             Bufs == BuffersAre(size', inb', outb', xoff') /\ BehindIs(direct', how', pos', outb', inb', fpos')
             Vals == /\ direct' \in {-1, 0, 1} /\ fpos' \in Nat /\ how' \in {"look", "copy", "gzip"}
                     /\ ist' \in {"m1", "m2", "body", "done"} /\ held' \in Seq(Nat)
  <1>1. size' = want
    BY DEF Look
  <1>2. Size
    BY <1>1, Numbers
  <1>3. /\ direct \in {-1, 0, 1} /\ fpos \in Nat /\ how \in {"look", "copy", "gzip"}
        /\ ist \in {"m1", "m2", "body", "done"} /\ held \in Seq(Nat)
    BY ReadNow DEF Values
  <1>4. inb \in Seq(Items) /\ outb \in Seq(Nat) /\ <<>> \in Seq(Items) /\ <<>> \in Seq(Nat) /\ Len(<<>>) = 0
    BY ReadFacts
  <1>5. /\ xoff \in Nat /\ Len(inb) \in Nat /\ Len(outb) \in Nat /\ Len(inb) <= want
        /\ xoff + Len(outb) <= 2 * want /\ want \in Nat
    BY Numbers
  <1>6. BehindIs(direct, how, pos, outb, inb, fpos)
    BY ReadNow
  <1>7. ASSUME direct = -1 PROVE Bufs /\ Vals /\ eof' \in BOOLEAN
    <2>1. inb' = inb /\ Inflating /\ fpos' = fpos /\ eof' = eof
      BY <1>7 DEF Look
    <2>2. how' = "gzip" /\ direct' = 0 /\ ist' = "m1" /\ held' = <<>> /\ outb' = outb /\ xoff' = xoff
      BY <2>1 DEF Inflating
    <2>3. BuffersAre(want, inb, outb, xoff) /\ BehindIs(0, "gzip", pos, outb, inb, fpos)
      BY <1>4, <1>5 DEF BuffersAre, BehindIs
    <2>4. Bufs
      BY <1>1, <2>1, <2>2, <2>3
    <2>5. Vals
      BY <1>3, <1>4, <2>1, <2>2
    <2>6. eof' \in BOOLEAN
      BY <2>1, ReadNow, Zenon
    <2>7. QED
      BY <2>4, <2>5, <2>6, Zenon
  <1>8. ASSUME direct # -1 PROVE Bufs /\ Vals /\ eof' \in BOOLEAN
    <2> DEFINE b == IF Len(inb) < 2 THEN Avail(want) ELSE inb
               f == IF Len(inb) < 2 /\ ~eof THEN fpos + Loads(want - Len(inb)) ELSE fpos
    <2>1. LookAt(b) /\ fpos' = f
      BY <1>8 DEF Look
    <2>2. eof' \in BOOLEAN
      <3>1. eof' = \/ eof \/ Garbage(b)
                   \/ Len(inb) < 2 /\ Loads(want - Len(inb)) < want - Len(inb)
        BY <1>8, Zenon DEF Look
      <3>2. QED
        BY <3>1
    <2>3. /\ b \in Seq(Items) /\ Len(b) <= want /\ f \in Nat /\ fpos <= f
          /\ Len(b) + fpos <= Len(inb) + f
      BY LookedIs
    <2> HIDE DEF b, f
    <2>4. Len(b) \in Nat /\ pos \in Nat
      BY <2>3, Numbers
    <2>5. ASSUME b = <<>> PROVE Bufs /\ Vals
      <3>0. inb' = b /\ UNCHANGED <<how, direct, outb, xoff, ist, held>>
        <4>1. ~IsMagic(b)
          <5>1. Len(b) = 0
            BY <2>5
          <5>2. QED
            BY <5>1 DEF IsMagic
        <4>2. QED
          BY <2>1, <2>5, <4>1 DEF LookAt
      <3>1. /\ inb' = <<>> /\ how' = how /\ direct' = direct /\ outb' = outb /\ xoff' = xoff
            /\ ist' = ist /\ held' = held
        BY <2>5, <3>0
      <3>2. BuffersAre(want, <<>>, outb, xoff)
        BY <1>4, <1>5 DEF BuffersAre
      <3>3. BehindIs(direct, how, pos, outb, <<>>, f)
        BY <1>3, <1>4, <1>5, <1>6, <2>3, <2>4 DEF BehindIs
      <3>4. Bufs
        BY <1>1, <2>1, <3>1, <3>2, <3>3
      <3>5. Vals
        BY <1>3, <2>1, <2>3, <3>1
      <3>6. QED
        BY <3>4, <3>5
    <2>6. ASSUME b # <<>>, IsMagic(b) PROVE Bufs /\ Vals
      <3>1. inb' = b /\ Inflating
        BY <2>1, <2>6 DEF LookAt
      <3>2. how' = "gzip" /\ direct' = 0 /\ ist' = "m1" /\ held' = <<>> /\ outb' = outb /\ xoff' = xoff
        BY <3>1 DEF Inflating
      <3>3. BuffersAre(want, b, outb, xoff) /\ BehindIs(0, "gzip", pos, outb, b, f)
        BY <1>4, <1>5, <2>3 DEF BuffersAre, BehindIs
      <3>4. Bufs
        BY <1>1, <2>1, <3>1, <3>2, <3>3
      <3>5. Vals
        BY <1>3, <1>4, <2>1, <2>3, <3>2
      <3>6. QED
        BY <3>4, <3>5
    <2>7. ASSUME b # <<>>, ~IsMagic(b), direct = 0 PROVE Bufs /\ Vals
      <3>1. /\ inb' = <<>> /\ how' = how /\ direct' = direct /\ outb' = <<>> /\ xoff' = xoff
            /\ ist' = ist /\ held' = held
        BY <2>1, <2>7 DEF LookAt
      <3>2. BuffersAre(want, <<>>, <<>>, xoff)
        BY <1>4, <1>5 DEF BuffersAre
      <3>3. BehindIs(direct, how, pos, <<>>, <<>>, f)
        BY <1>6, <2>7 DEF BehindIs
      <3>4. Bufs
        BY <1>1, <2>1, <3>1, <3>2, <3>3
      <3>5. Vals
        BY <1>3, <2>1, <2>3, <3>1
      <3>6. QED
        BY <3>4, <3>5
    <2>8. ASSUME b # <<>>, ~IsMagic(b), direct # 0 PROVE Bufs /\ Vals
      <3>1. /\ inb' = <<>> /\ outb' = Plain(b) /\ xoff' = 0 /\ how' = "copy" /\ direct' = 1
            /\ ist' = ist /\ held' = held
        BY <2>1, <2>8 DEF LookAt
      <3>2. Plain(b) \in Seq(Nat) /\ Len(Plain(b)) = Len(b)
        BY <2>3, PlainIs
      <3>3. direct = 1 /\ pos + Len(outb) + Len(inb) <= fpos
        BY <1>3, <1>6, <1>8, <2>8 DEF BehindIs
      <3>4. BuffersAre(want, <<>>, Plain(b), 0)
        BY <1>4, <1>5, <2>3, <2>4, <3>2 DEF BuffersAre
      <3>5. BehindIs(1, "copy", pos, Plain(b), <<>>, f)
        BY <1>3, <1>4, <1>5, <2>3, <2>4, <3>2, <3>3 DEF BehindIs
      <3>6. Bufs
        BY <1>1, <2>1, <3>1, <3>4, <3>5
      <3>7. Vals
        BY <1>3, <2>1, <2>3, <3>1
      <3>8. QED
        BY <3>6, <3>7
    <2>9. QED
      BY <2>2, <2>5, <2>6, <2>7, <2>8
  <1>9. QED
    BY <1>2, <1>7, <1>8

\* A read that broke: the call ends with nothing buffered.
LEMMA BrokenIs ==
    ASSUME IInv, UNCHANGED writeVars, mode = "read", Broken,
           UNCHANGED <<mode, size, want, direct, pos, skip, story, stage, how, ist, held, fpos, xoff>>,
           inb' = inb, eof' \in BOOLEAN, past' \in BOOLEAN
    PROVE  IInv'
  <1>1. err' = "fatal" /\ outb' = <<>> /\ got' = <<>> /\ loc' = NoCall /\ pc' = "idle"
    BY DEF Broken, Give
  <1>2. BuffersAre(size', inb', outb', xoff') /\ BehindIs(direct', how', pos', outb', inb', fpos')
    BY <1>1, EmptiedIs
  <1>3. Values(direct', pos', skip', fpos', err', how', ist', held', got')
    BY <1>1, ReadNow DEF Values
  <1>4. Fetching' /\ loc' \in Locals /\ pc' \in {"idle"} \cup ReadPlaces
    BY <1>1, NoCallIs DEF Fetching, ReadPlaces
  <1>5. stage' \in 1..Len(story) /\ story' = story
    BY ReadNow, Zenon
  <1>6. mode' = "read" /\ want' = want /\ size' = size
    OBVIOUS
  <1>7. ReadResult
    BY <1>2, <1>3, <1>4, <1>5, <1>6, Zenon DEF ReadResult
  <1>8. QED
    BY <1>7, ReadResultIs

LEMMA PeekStep ==
    ASSUME IInv, UNCHANGED writeVars, Peek
    PROVE  IInv'
  <1>1. mode = "read" /\ pc = "peek" /\ mode' = mode /\ want' = want /\ pos' = pos /\ skip' = skip
        /\ story' = story /\ stage' = stage /\ past' = past
    BY DEF Peek, fileVars, IInv, Placed, ReadPlaces
  <1>2. past' \in BOOLEAN /\ stage' \in 1..Len(story)
    BY <1>1, ReadNow, Zenon
  <1>3. loc.call \in {"direct", "push", "force"} /\ loc \in Locals /\ loc.dout = <<>>
    BY <1>1, ReadNow DEF Fetching
  <1>4. CASE Look /\ err' = err
                  /\ IF loc.call = "direct" THEN Give(<<>>) ELSE pc' = SkipFirst("push") /\ UNCHANGED <<got, loc>>
    <2>1. /\ size' = size \/ (size = 0 /\ size' = want)
          /\ BuffersAre(size', inb', outb', xoff') /\ BehindIs(direct', how', pos', outb', inb', fpos')
          /\ direct' \in {-1, 0, 1} /\ fpos' \in Nat /\ how' \in {"look", "copy", "gzip"}
          /\ ist' \in {"m1", "m2", "body", "done"} /\ held' \in Seq(Nat) /\ eof' \in BOOLEAN
      BY <1>1, <1>4, LookIs
    <2>2. \/ got' = <<>> /\ loc' = NoCall /\ pc' = "idle"
          \/ got' = got /\ loc' = loc /\ pc' \in {"skip", "push"} /\ loc.call \in {"push", "force"}
      BY <1>3, <1>4 DEF Give, SkipFirst
    <2>3. pos' \in Nat /\ skip' \in Nat /\ err' \in {"ok", "buf", "fatal"} /\ got' \in Seq(Nat)
      <3>1. Values(direct, pos, skip, fpos, err, how, ist, held, got) /\ <<>> \in Seq(Nat)
        BY <1>1, ReadNow
      <3>2. pos' \in Nat /\ skip' \in Nat /\ err' \in {"ok", "buf", "fatal"}
        BY <1>1, <1>4, <3>1, Zenon DEF Values
      <3>3. got' \in Seq(Nat)
        BY <2>2, <3>1, Zenon DEF Values
      <3>4. QED
        BY <3>2, <3>3
    <2>4. Values(direct', pos', skip', fpos', err', how', ist', held', got')
      BY <2>1, <2>3, Zenon DEF Values
    <2>5. Fetching' /\ loc' \in Locals /\ pc' \in {"idle"} \cup ReadPlaces
      BY <1>3, <2>2, NoCallIs DEF Fetching, ReadPlaces
    <2>6. ReadResult
      BY <1>1, <1>2, <2>1, <2>4, <2>5, Zenon DEF ReadResult
    <2>7. QED
      BY <1>1, <2>6, ReadResultIs
  <1>5. CASE Broken /\ UNCHANGED <<size, direct, inb, how, eof, xoff, ist, held, fpos>>
    <2>1. UNCHANGED <<mode, size, want, direct, pos, skip, story, stage, how, ist, held, fpos, xoff>>
          /\ inb' = inb /\ eof' = eof
      BY <1>1, <1>5
    <2>2. eof' \in BOOLEAN
      BY <1>1, <2>1, ReadNow, Zenon
    <2>3. QED
      BY <1>1, <1>2, <1>5, <2>1, <2>2, BrokenIs
  <1>6. QED
    BY <1>4, <1>5 DEF Peek

-----------------------------------------------------------------------------
(* The locals of a call.                                                   *)

\* gz_fetch is called, and will return to place p.
LEMMA FetchIs ==
    ASSUME IInv, mode = "read", pc \in {"skip", "read", "gets"}, NEW p \in {"skip", "read", "line"}, Fetch(p)
    PROVE  Fetching' /\ loc' \in Locals /\ pc' \in {"idle"} \cup ReadPlaces
  <1>1. loc \in Locals /\ loc.dout = <<>> /\ loc.call \in {"read", "gets", "push", "force"}
    BY ReadNow DEF Fetching, ReadPlaces
  <1>2. loc' = [loc EXCEPT !.back = p] /\ pc' = "fetch"
    BY DEF Fetch
  <1>3. loc' \in Locals /\ loc'.dout = <<>> /\ loc'.call = loc.call /\ loc'.back = p
    BY <1>1, <1>2 DEF Locals
  <1>4. QED
    BY <1>1, <1>2, <1>3 DEF Fetching, ReadPlaces

LEMMA GiveIs ==
    ASSUME NEW bytes \in Seq(Nat), Give(bytes)
    PROVE  Fetching' /\ loc' \in Locals /\ pc' \in {"idle"} \cup ReadPlaces /\ got' \in Seq(Nat)
  BY NoCallIs DEF Give, Fetching, ReadPlaces

\* Some of the bytes that are wanted
LEMMA SomeIs ==
    ASSUME NEW l \in Locals, NEW bytes \in Seq(Nat), Len(bytes) <= l.togo
    PROVE  LET m == [l EXCEPT !.acc = @ \o bytes, !.togo = @ - Len(bytes), !.dout = <<>>]
               k == [l EXCEPT !.acc = @ \o bytes, !.togo = @ - Len(bytes)] IN
           /\ m \in Locals /\ m.dout = <<>> /\ m.call = l.call
           /\ k \in Locals /\ k.dout = l.dout /\ k.call = l.call
           /\ l.acc \o bytes \in Seq(Nat)
  <1>1. l.acc \in Seq(Nat) /\ l.togo \in Nat
    BY DEF Locals
  <1>2. l.acc \o bytes \in Seq(Nat)
    BY <1>1, JoinIs
  <1>3. l.togo - Len(bytes) \in Nat /\ <<>> \in Seq(Nat)
    BY <1>1
  <1> DEFINE a == l.acc \o bytes
             t == l.togo - Len(bytes)
  <1>4. a \in Seq(Nat) /\ t \in Nat
    BY <1>2, <1>3
  <1> HIDE DEF a, t
  <1>5. [l EXCEPT !.acc = a, !.togo = t, !.dout = <<>>] \in Locals
        /\ [l EXCEPT !.acc = a, !.togo = t, !.dout = <<>>].dout = <<>>
        /\ [l EXCEPT !.acc = a, !.togo = t, !.dout = <<>>].call = l.call
    BY <1>3, <1>4 DEF Locals
  <1>6. [l EXCEPT !.acc = a, !.togo = t] \in Locals
        /\ [l EXCEPT !.acc = a, !.togo = t].dout = l.dout
        /\ [l EXCEPT !.acc = a, !.togo = t].call = l.call
    BY <1>4 DEF Locals
  <1>7. QED
    BY <1>2, <1>5, <1>6 DEF a, t

\* The bytes go to the caller.
LEMMA TookIs ==
    ASSUME IInv, mode = "read", pc \in {"read", "decomped"}, NEW bytes \in Seq(Nat),
           Len(bytes) <= loc.togo, Took(bytes)
    PROVE  /\ pos' = pos + Len(bytes) /\ pos' \in Nat /\ got' \in Seq(Nat)
           /\ Fetching' /\ loc' \in Locals /\ pc' \in {"idle"} \cup ReadPlaces
  <1>1. loc \in Locals /\ loc.call \in {"read", "gets", "push", "force"}
    BY ReadNow DEF Fetching, ReadPlaces
  <1>2. pos' = pos + Len(bytes) /\ pos' \in Nat
    <2>1. pos' = pos + Len(bytes)
      BY DEF Took
    <2>2. pos + Len(bytes) \in Nat
      BY Numbers
    <2>3. QED
      BY <2>1, <2>2, Zenon
  <1>3. CASE Give(loc.acc \o bytes)
    <2>1. loc.acc \o bytes \in Seq(Nat)
      BY <1>1, SomeIs
    <2>2. QED
      BY <1>2, <1>3, <2>1, GiveIs, Zenon
  <1>4. CASE /\ loc' = [loc EXCEPT !.acc = @ \o bytes, !.togo = @ - Len(bytes), !.dout = <<>>]
             /\ pc' = "read" /\ UNCHANGED got
    <2>1. loc' \in Locals /\ loc'.dout = <<>> /\ loc'.call = loc.call
      BY <1>1, <1>4, SomeIs
    <2>2. Fetching' /\ pc' \in {"idle"} \cup ReadPlaces
      BY <1>1, <1>4, <2>1 DEF Fetching, ReadPlaces
    <2>3. got' \in Seq(Nat)
      BY <1>4, ReadFacts
    <2>4. QED
      BY <1>2, <2>1, <2>2, <2>3
  <1>5. QED
    BY <1>3, <1>4 DEF Took

-----------------------------------------------------------------------------
(* Steps of reading that leave the stream as it is.                        *)

LEMMA MovesIs ==
    ASSUME IInv, UNCHANGED writeVars, mode = "read",
           UNCHANGED <<mode, size, want, direct, story, stage, how, ist, held>>,
           pos' \in Nat, skip' \in Nat, fpos' \in Nat, err' \in {"ok", "buf", "fatal"}, got' \in Seq(Nat),
           eof' \in BOOLEAN, past' \in BOOLEAN,
           BuffersAre(size, inb', outb', xoff'), BehindIs(direct, how, pos', outb', inb', fpos'),
           Fetching', loc' \in Locals, pc' \in {"idle"} \cup ReadPlaces
    PROVE  IInv'
  <1>1. direct' \in {-1, 0, 1} /\ how' \in {"look", "copy", "gzip"}
        /\ ist' \in {"m1", "m2", "body", "done"} /\ held' \in Seq(Nat)
    BY ReadNow DEF Values
  <1>2. Values(direct', pos', skip', fpos', err', how', ist', held', got')
    BY <1>1, Zenon DEF Values
  <1>3. BuffersAre(size', inb', outb', xoff') /\ BehindIs(direct', how', pos', outb', inb', fpos')
    <2>1. size' = size /\ direct' = direct /\ how' = how
      OBVIOUS
    <2>2. QED
      BY <2>1, Zenon
  <1>4. stage' \in 1..Len(story) /\ story' = story
    BY ReadNow, Zenon
  <1>5. mode' = "read" /\ want' = want /\ size' = size
    OBVIOUS
  <1>6. ReadResult
    BY <1>2, <1>3, <1>4, <1>5, Zenon DEF ReadResult
  <1>7. QED
    BY <1>6, ReadResultIs

\* What a step that moves bytes leaves of the rest
LEMMA KeptIs ==
    ASSUME IInv, mode = "read"
    PROVE  /\ eof \in BOOLEAN /\ past \in BOOLEAN /\ pos \in Nat /\ skip \in Nat /\ fpos \in Nat
           /\ err \in {"ok", "buf", "fatal"} /\ got \in Seq(Nat)
           /\ BuffersAre(size, inb, outb, xoff) /\ BehindIs(direct, how, pos, outb, inb, fpos)
  BY ReadNow, Zenon DEF Values

LEMMA PushStep ==
    ASSUME IInv, UNCHANGED writeVars, Push
    PROVE  IInv'
  <1>1. mode = "read" /\ pc = "push"
    BY DEF Push, IInv, Placed, ReadPlaces
  <1>2. UNCHANGED <<mode, size, want, direct, skip, story, stage, inb, how, eof, ist, held, fpos>>
    BY DEF Push, fileVars
  <1>3. eof' \in BOOLEAN /\ skip' \in Nat /\ fpos' \in Nat
    <2>1. eof' = eof /\ skip' = skip /\ fpos' = fpos
      BY <1>2
    <2>2. QED
      BY <1>1, <2>1, KeptIs, Zenon
  <1>4. <<>> \in Seq(Nat)
    OBVIOUS
  <1>5. CASE ~Pushes
    <2>1. Give(<<>>) /\ UNCHANGED <<outb, xoff, pos, past, err>>
      BY <1>5 DEF Push
    <2>2. Fetching' /\ loc' \in Locals /\ pc' \in {"idle"} \cup ReadPlaces /\ got' \in Seq(Nat)
      BY <1>4, <2>1, GiveIs
    <2>3. past' = past /\ pos' = pos /\ err' = err /\ outb' = outb /\ xoff' = xoff /\ inb' = inb /\ fpos' = fpos
      BY <1>2, <2>1
    <2>4. /\ past' \in BOOLEAN /\ pos' \in Nat /\ err' \in {"ok", "buf", "fatal"}
          /\ BuffersAre(size, inb', outb', xoff') /\ BehindIs(direct, how, pos', outb', inb', fpos')
      BY <1>1, <2>3, KeptIs, Zenon
    <2>5. QED
      BY <1>1, <1>2, <1>3, <2>2, <2>4, MovesIs
  <1>6. CASE Pushes /\ Len(outb) = 2 * size
    <2>1. Broken /\ xoff' = xoff /\ pos' = pos /\ past' = past
      BY <1>6 DEF Push
    <2>2. past' \in BOOLEAN
      BY <1>1, <2>1, KeptIs, Zenon
    <2>3. UNCHANGED <<mode, size, want, direct, pos, skip, story, stage, how, ist, held, fpos, xoff>>
          /\ inb' = inb
      BY <1>2, <2>1
    <2>4. QED
      BY <1>1, <1>3, <2>1, <2>2, <2>3, BrokenIs
  <1>7. CASE Pushes /\ Len(outb) # 2 * size
    <2>1. /\ outb' = <<pos - 1>> \o outb /\ xoff' = PushOff - 1 /\ pos' = pos - 1 /\ past' = FALSE
          /\ Give(<<>>) /\ err' = err
      BY <1>7 DEF Push
    <2>2. pos - 1 \in Nat
      BY <1>7, Numbers DEF Pushes
    <2>3. <<pos - 1>> \in Seq(Nat) /\ Len(<<pos - 1>>) = 1 /\ outb \in Seq(Nat)
      BY <2>2, ReadFacts
    <2> DEFINE o == <<pos - 1>> \o outb
    <2>4. o \in Seq(Nat) /\ Len(o) = Len(outb) + 1
      BY <2>3, JoinIs, Numbers
    <2> HIDE DEF o
    <2> DEFINE x == PushOff
    <2>5. x \in Nat /\ x - 1 \in Nat /\ x + Len(outb) <= 2 * size
      <3>1. Len(outb) < 2 * size /\ 2 * size \in Nat
        BY <1>7, Numbers
      <3>2. CASE xoff = 0 \/ outb = <<>>
        <4>1. x = 2 * size - Len(outb)
          BY <3>2 DEF PushOff
        <4>2. QED
          BY <3>1, <4>1, Numbers, SMTT(30)
      <3>3. CASE xoff # 0 /\ outb # <<>>
        <4>1. x = xoff
          BY <3>3 DEF PushOff
        <4>2. QED
          BY <3>3, <4>1, Numbers
      <3>4. QED
        BY <3>2, <3>3
    <2> HIDE DEF x
    <2>6. BuffersAre(size, inb, o, x - 1)
      <3>1. (x - 1) + (Len(outb) + 1) <= 2 * size
        BY <2>5, Numbers
      <3>2. (x - 1) + Len(o) <= 2 * size
        BY <2>4, <3>1, Zenon
      <3>3. QED
        BY <2>4, <2>5, <3>2, Numbers, ReadFacts, Zenon DEF BuffersAre
    <2>7. BehindIs(direct, how, pos - 1, o, inb, fpos)
      BY <1>1, <2>4, KeptIs, Numbers DEF BehindIs
    <2>8. Fetching' /\ loc' \in Locals /\ pc' \in {"idle"} \cup ReadPlaces /\ got' \in Seq(Nat)
      BY <1>4, <2>1, GiveIs
    <2>9. past' \in BOOLEAN
      BY <2>1, Zenon
    <2>10. inb' = inb /\ fpos' = fpos
      BY <1>2
    <2>11. pos' \in Nat /\ err' \in {"ok", "buf", "fatal"}
      BY <1>1, <2>1, <2>2, KeptIs, Zenon
    <2>12. BuffersAre(size, inb', outb', xoff') /\ BehindIs(direct, how, pos', outb', inb', fpos')
      BY <2>1, <2>6, <2>7, <2>10, Zenon DEF o, x
    <2>13. QED
      BY <1>1, <1>2, <1>3, <2>8, <2>9, <2>11, <2>12, MovesIs
  <1>8. QED
    BY <1>5, <1>6, <1>7

LEMMA SkipStep ==
    ASSUME IInv, UNCHANGED writeVars, Skip
    PROVE  IInv'
  <1>1. mode = "read" /\ pc = "skip"
    BY DEF Skip, IInv, Placed, ReadPlaces
  <1>2. UNCHANGED <<mode, size, want, direct, story, stage, how, ist, held>>
        /\ err' = err /\ inb' = inb /\ eof' = eof /\ past' = past /\ fpos' = fpos /\ got' = got
    BY DEF Skip, fileVars
  <1>3. /\ eof' \in BOOLEAN /\ past' \in BOOLEAN /\ fpos' \in Nat /\ err' \in {"ok", "buf", "fatal"}
        /\ got' \in Seq(Nat)
    BY <1>1, <1>2, KeptIs, Zenon
  <1>4. /\ loc \in Locals /\ loc.dout = <<>> /\ loc.call \in {"read", "gets", "push", "force"}
        /\ ReadBody \in {"read", "gets", "push"}
    BY <1>1, ReadNow DEF Fetching, ReadPlaces, ReadBody
  <1>5. CASE outb # <<>>
    <2> DEFINE n == Lesser(Len(outb), skip)
    <2>1. /\ outb' = SubSeq(outb, n + 1, Len(outb)) /\ xoff' = xoff + n
          /\ pos' = pos + n /\ skip' = skip - n /\ loc' = loc /\ pc' \in {ReadBody, pc}
      BY <1>5 DEF Skip
    <2>2. n \in 0..Len(outb) /\ skip - n \in Nat
      BY Numbers DEF Lesser
    <2> HIDE DEF n
    <2>3. /\ BuffersAre(size, inb, SubSeq(outb, n + 1, Len(outb)), xoff + n)
          /\ BehindIs(direct, how, pos + n, SubSeq(outb, n + 1, Len(outb)), inb, fpos)
          /\ pos + n \in Nat
      BY <1>1, <2>2, TakenIs
    <2>4. /\ BuffersAre(size, inb', outb', xoff') /\ BehindIs(direct, how, pos', outb', inb', fpos')
          /\ pos' \in Nat /\ skip' \in Nat
      BY <1>2, <2>1, <2>2, <2>3, Zenon
    <2>5. Fetching' /\ loc' \in Locals /\ pc' \in {"idle"} \cup ReadPlaces
      BY <1>1, <1>4, <2>1 DEF Fetching, ReadPlaces
    <2>6. QED
      BY <1>1, <1>2, <1>3, <2>4, <2>5, MovesIs
  <1>6. CASE outb = <<>>
    <2>1. /\ outb' = outb /\ xoff' = xoff /\ pos' = pos /\ skip' = skip
          /\ \/ pc' = ReadBody /\ loc' = loc
             \/ Fetch("skip")
      BY <1>6 DEF Skip
    <2>2. /\ BuffersAre(size, inb', outb', xoff') /\ BehindIs(direct, how, pos', outb', inb', fpos')
          /\ pos' \in Nat /\ skip' \in Nat
      BY <1>1, <1>2, <2>1, KeptIs, Zenon
    <2>3. Fetching' /\ loc' \in Locals /\ pc' \in {"idle"} \cup ReadPlaces
      <3>1. CASE pc' = ReadBody /\ loc' = loc
        BY <1>1, <1>4, <3>1 DEF Fetching, ReadPlaces
      <3>2. CASE Fetch("skip")
        BY <1>1, <3>2, FetchIs
      <3>3. QED
        BY <2>1, <3>1, <3>2
    <2>4. QED
      BY <1>1, <1>2, <1>3, <2>2, <2>3, MovesIs
  <1>7. QED
    BY <1>5, <1>6

-----------------------------------------------------------------------------
(* gz_read and gzgets.                                                     *)

\* What gz_read and gzgets leave alone
LEMMA ReadKeeps ==
    ASSUME IInv, Read
    PROVE  /\ mode = "read" /\ pc = "read" /\ loc \in Locals /\ loc.dout = <<>>
           /\ loc.call \in {"read", "gets", "push", "force"}
           /\ UNCHANGED <<mode, size, want, direct, story, stage, how, ist, held>>
           /\ skip' = skip /\ inb' = inb /\ skip' \in Nat
           /\ ReadBuffered \/ ReadPast \/ ReadFetch \/ ReadCopy \/ ReadDecomp
  <1>1. mode = "read" /\ pc = "read"
    BY DEF Read, IInv, Placed, ReadPlaces
  <1>2. loc \in Locals /\ loc.dout = <<>> /\ loc.call \in {"read", "gets", "push", "force"}
    BY <1>1, ReadNow DEF Fetching, ReadPlaces
  <1>3. UNCHANGED <<mode, size, want, direct, story, stage, how, ist, held>> /\ skip' = skip /\ inb' = inb
        /\ (ReadBuffered \/ ReadPast \/ ReadFetch \/ ReadCopy \/ ReadDecomp)
    BY DEF Read, fileVars
  <1>4. skip' \in Nat
    BY <1>1, <1>3, KeptIs, Zenon
  <1>5. QED
    BY <1>1, <1>2, <1>3, <1>4

LEMMA ReadBufferedStep ==
    ASSUME IInv, UNCHANGED writeVars, Read, ReadBuffered
    PROVE  IInv'
  <1> DEFINE n == Lesser(Len(outb), loc.togo)
  <1>1. /\ Took(SubSeq(outb, 1, n)) /\ outb' = SubSeq(outb, n + 1, Len(outb)) /\ xoff' = xoff + n
        /\ past' = past /\ eof' = eof /\ fpos' = fpos /\ err' = err
    BY DEF ReadBuffered
  <1>2. loc.togo \in Nat
    BY ReadKeeps DEF Locals
  <1>3. n \in 0..Len(outb) /\ n <= loc.togo
    BY <1>2, Numbers DEF Lesser
  <1> HIDE DEF n
  <1>4. /\ BuffersAre(size, inb, SubSeq(outb, n + 1, Len(outb)), xoff + n)
        /\ BehindIs(direct, how, pos + n, SubSeq(outb, n + 1, Len(outb)), inb, fpos)
        /\ SubSeq(outb, 1, n) \in Seq(Nat) /\ Len(SubSeq(outb, 1, n)) = n
    BY <1>3, ReadKeeps, TakenIs
  <1>5. /\ pos' = pos + n /\ pos' \in Nat /\ got' \in Seq(Nat)
        /\ Fetching' /\ loc' \in Locals /\ pc' \in {"idle"} \cup ReadPlaces
    <2>1. Len(SubSeq(outb, 1, n)) <= loc.togo
      BY <1>3, <1>4
    <2>2. QED
      BY <1>1, <1>4, <2>1, ReadKeeps, TookIs
  <1>6. BuffersAre(size, inb', outb', xoff') /\ BehindIs(direct, how, pos', outb', inb', fpos')
    BY <1>1, <1>4, <1>5, ReadKeeps, Zenon
  <1>7. eof' \in BOOLEAN /\ past' \in BOOLEAN /\ fpos' \in Nat /\ err' \in {"ok", "buf", "fatal"}
    BY <1>1, ReadKeeps, KeptIs, Zenon
  <1>8. QED
    BY <1>5, <1>6, <1>7, ReadKeeps, MovesIs

LEMMA ReadPastStep ==
    ASSUME IInv, UNCHANGED writeVars, Read, ReadPast
    PROVE  IInv'
  <1>1. /\ past' = TRUE /\ Give(loc.acc)
        /\ pos' = pos /\ outb' = outb /\ xoff' = xoff /\ eof' = eof /\ fpos' = fpos /\ err' = err
    BY DEF ReadPast
  <1>2. loc.acc \in Seq(Nat)
    BY ReadKeeps DEF Locals
  <1>3. Fetching' /\ loc' \in Locals /\ pc' \in {"idle"} \cup ReadPlaces /\ got' \in Seq(Nat)
    BY <1>1, <1>2, GiveIs
  <1>4. BuffersAre(size, inb', outb', xoff') /\ BehindIs(direct, how, pos', outb', inb', fpos')
    BY <1>1, ReadKeeps, KeptIs, Zenon
  <1>5. /\ eof' \in BOOLEAN /\ past' \in BOOLEAN /\ fpos' \in Nat /\ err' \in {"ok", "buf", "fatal"}
        /\ pos' \in Nat
    BY <1>1, ReadKeeps, KeptIs, Zenon
  <1>6. QED
    BY <1>3, <1>4, <1>5, ReadKeeps, MovesIs

LEMMA ReadFetchStep ==
    ASSUME IInv, UNCHANGED writeVars, Read, ReadFetch \/ ReadDecomp
    PROVE  IInv'
  <1>1. /\ pos' = pos /\ got' = got /\ outb' = outb /\ xoff' = xoff /\ past' = past /\ eof' = eof
        /\ fpos' = fpos /\ err' = err
    BY DEF ReadFetch, ReadDecomp
  <1>2. Fetching' /\ loc' \in Locals /\ pc' \in {"idle"} \cup ReadPlaces
    <2>1. CASE ReadFetch
      BY <2>1, ReadKeeps, FetchIs DEF ReadFetch
    <2>2. CASE ReadDecomp
      <3>1. how' = "gzip" /\ pc' = "decomp" /\ loc' = [loc EXCEPT !.room = loc.togo, !.dest = "user"]
        BY <2>2, ReadKeeps DEF ReadDecomp
      <3>2. /\ loc' \in Locals /\ loc'.dest = "user" /\ loc'.dout = <<>> /\ loc'.call = loc.call
            /\ loc'.room = loc.togo /\ loc'.togo = loc.togo /\ loc.togo \in Nat
        BY <3>1, ReadKeeps DEF Locals
      <3>3. loc'.room + Len(loc'.dout) = loc'.togo
        <4>1. loc.togo + 0 = loc.togo /\ Len(<<>>) = 0
          BY <3>2
        <4>2. QED
          BY <3>2, <4>1, Zenon
      <3>4. QED
        BY <3>1, <3>2, <3>3, ReadKeeps DEF Fetching, ReadPlaces
    <2>3. QED
      BY <2>1, <2>2
  <1>3. BuffersAre(size, inb', outb', xoff') /\ BehindIs(direct, how, pos', outb', inb', fpos')
    BY <1>1, ReadKeeps, KeptIs, Zenon
  <1>4. /\ eof' \in BOOLEAN /\ past' \in BOOLEAN /\ fpos' \in Nat /\ err' \in {"ok", "buf", "fatal"}
        /\ pos' \in Nat /\ got' \in Seq(Nat)
    BY <1>1, ReadKeeps, KeptIs, Zenon
  <1>5. QED
    BY <1>2, <1>3, <1>4, ReadKeeps, MovesIs

\* A large request of a plain file is read straight into the caller's buffer.
LEMMA ReadCopyStep ==
    ASSUME IInv, UNCHANGED writeVars, Read, ReadCopy
    PROVE  IInv'
  <1>1. outb = <<>> /\ how = "copy" /\ xoff' = xoff /\ past' = past
    BY DEF ReadCopy, NeedsMore
  <1>2. past' \in BOOLEAN
    BY <1>1, ReadKeeps, KeptIs, Zenon
  <1>3. CASE Took(Plain(Loaded(loc.togo))) /\ Load(loc.togo) /\ UNCHANGED <<outb, err>>
    <2> DEFINE k == Loads(loc.togo)
               bytes == Plain(Loaded(loc.togo))
    <2>1. loc.togo \in Nat
      BY ReadKeeps DEF Locals
    <2>2. ReadTypeOK /\ ReadTypes
      BY DEF IInv, ReadInv
    <2>3. k \in 0..loc.togo /\ Loaded(loc.togo) \in Seq(Items) /\ Len(Loaded(loc.togo)) = k
      BY <2>1, <2>2, LoadIs
    <2>4. bytes \in Seq(Nat) /\ Len(bytes) = k
      BY <2>3, PlainIs
    <2>5. Took(bytes) /\ fpos' = fpos + k /\ eof' = (eof \/ k < loc.togo) /\ outb' = outb /\ err' = err
      BY <1>3 DEF Load
    <2> HIDE DEF k, bytes
    <2>6. k \in Nat /\ k <= loc.togo
      BY <2>1, <2>3
    <2>7. /\ pos' = pos + k /\ pos' \in Nat /\ got' \in Seq(Nat)
          /\ Fetching' /\ loc' \in Locals /\ pc' \in {"idle"} \cup ReadPlaces
      <3>1. Len(bytes) <= loc.togo
        BY <2>4, <2>6
      <3>2. QED
        BY <2>4, <2>5, <3>1, ReadKeeps, TookIs
    <2>8. BehindIs(direct, how, pos + k, outb, inb, fpos + k) /\ fpos + k \in Nat
      <3>1. BehindIs(direct, how, pos, outb, inb, fpos)
        BY ReadKeeps, KeptIs, Zenon
      <3>2. QED
        BY <2>6, <3>1, Numbers, SMTT(30) DEF BehindIs
    <2>9. BuffersAre(size, inb', outb', xoff') /\ BehindIs(direct, how, pos', outb', inb', fpos')
      BY <1>1, <2>5, <2>7, <2>8, ReadKeeps, KeptIs, Zenon
    <2>10. eof' \in BOOLEAN
      BY <2>5
    <2>11. fpos' \in Nat /\ err' \in {"ok", "buf", "fatal"}
      BY <2>5, <2>8, ReadKeeps, KeptIs, Zenon
    <2>12. QED
      BY <1>2, <2>7, <2>9, <2>10, <2>11, ReadKeeps, MovesIs
  <1>4. CASE Broken /\ UNCHANGED <<pos, fpos, eof>>
    <2>1. eof' = eof /\ fpos' = fpos /\ pos' = pos
      BY <1>4
    <2>2. eof' \in BOOLEAN
      BY <2>1, ReadKeeps, KeptIs, Zenon
    <2>3. UNCHANGED <<mode, size, want, direct, pos, skip, story, stage, how, ist, held, fpos, xoff>>
          /\ inb' = inb
      BY <1>1, <2>1, ReadKeeps
    <2>4. QED
      BY <1>2, <1>4, <2>2, <2>3, ReadKeeps, BrokenIs
  <1>5. QED
    BY <1>3, <1>4 DEF ReadCopy

LEMMA ReadStep ==
    ASSUME IInv, UNCHANGED writeVars, Read
    PROVE  IInv'
  BY ReadKeeps, ReadBufferedStep, ReadPastStep, ReadFetchStep, ReadCopyStep

(* gzgets: one line, or what there is of it.                               *)
LEMMA GetsStep ==
    ASSUME IInv, UNCHANGED writeVars, Gets
    PROVE  IInv'
  <1>1. mode = "read" /\ pc \in {"gets", "line"}
    BY DEF Gets, IInv, Placed, ReadPlaces
  <1>2. UNCHANGED <<mode, size, want, direct, story, stage, how, ist, held>>
        /\ skip' = skip /\ err' = err /\ inb' = inb /\ eof' = eof /\ fpos' = fpos
    BY DEF Gets, fileVars
  <1>3. eof' \in BOOLEAN /\ fpos' \in Nat /\ err' \in {"ok", "buf", "fatal"} /\ skip' \in Nat
    BY <1>1, <1>2, KeptIs, Zenon
  <1>4. loc \in Locals /\ loc.dout = <<>> /\ loc.call \in {"read", "gets", "push", "force"}
    BY <1>1, ReadNow DEF Fetching, ReadPlaces
  <1>5. loc.togo \in Nat /\ loc.acc \in Seq(Nat)
    BY <1>4 DEF Locals
  <1>6. CASE outb = <<>> /\ pc = "gets"
    <2>1. Fetch("line") /\ past' = past /\ pos' = pos /\ got' = got /\ outb' = outb /\ xoff' = xoff
      BY <1>6 DEF Gets
    <2>2. Fetching' /\ loc' \in Locals /\ pc' \in {"idle"} \cup ReadPlaces
      BY <1>1, <1>6, <2>1, FetchIs
    <2>3. /\ BuffersAre(size, inb', outb', xoff') /\ BehindIs(direct, how, pos', outb', inb', fpos')
          /\ past' \in BOOLEAN /\ pos' \in Nat /\ got' \in Seq(Nat)
      BY <1>1, <1>2, <2>1, KeptIs, Zenon
    <2>4. QED
      BY <1>1, <1>2, <1>3, <2>2, <2>3, MovesIs
  <1>7. CASE outb = <<>> /\ pc = "line"
    <2>1. past' = TRUE /\ Give(loc.acc) /\ pos' = pos /\ outb' = outb /\ xoff' = xoff
      BY <1>7 DEF Gets
    <2>2. Fetching' /\ loc' \in Locals /\ pc' \in {"idle"} \cup ReadPlaces /\ got' \in Seq(Nat)
      BY <1>5, <2>1, GiveIs
    <2>3. /\ BuffersAre(size, inb', outb', xoff') /\ BehindIs(direct, how, pos', outb', inb', fpos')
          /\ past' \in BOOLEAN /\ pos' \in Nat
      BY <1>1, <1>2, <2>1, KeptIs, Zenon
    <2>4. QED
      BY <1>1, <1>2, <1>3, <2>2, <2>3, MovesIs
  <1>8. CASE outb # <<>>
    <2> DEFINE most == Lesser(Len(outb), loc.togo)
               eols == {i \in 1..most : outb[i] \in Newlines}
               n    == IF eols = {} THEN most ELSE CHOOSE i \in eols : \A j \in eols : i <= j
    <2>1. /\ pos' = pos + n /\ outb' = SubSeq(outb, n + 1, Len(outb)) /\ xoff' = xoff + n
          /\ IF n = loc.togo \/ eols # {}
             THEN Give(loc.acc \o SubSeq(outb, 1, n))
             ELSE /\ loc' = [loc EXCEPT !.acc = @ \o SubSeq(outb, 1, n), !.togo = @ - n]
                  /\ pc' = "gets" /\ UNCHANGED got
          /\ past' = past
      BY <1>8 DEF Gets
    <2>2. most \in Nat /\ most <= Len(outb) /\ most <= loc.togo
      BY <1>5, Numbers DEF Lesser
    <2> HIDE DEF most
    <2>3. n \in Nat /\ n <= most
      <3>1. CASE eols = {}
        BY <2>2, <3>1
      <3>2. CASE eols # {}
        <4>1. eols \in SUBSET Nat
          BY <2>2
        <4>2. \E i \in eols : \A j \in eols : i <= j
          BY <3>2, <4>1, LeastNat
        <4>3. (CHOOSE i \in eols : \A j \in eols : i <= j) \in eols
          BY <4>2
        <4>4. n \in eols
          BY <3>2, <4>3
        <4>5. QED
          BY <2>2, <4>4
      <3>3. QED
        BY <3>1, <3>2
    <2> HIDE DEF eols, n
    <2>4. n \in 0..Len(outb) /\ n <= loc.togo
      BY <1>5, <2>2, <2>3, Numbers, SMTT(30)
    <2>5. /\ BuffersAre(size, inb, SubSeq(outb, n + 1, Len(outb)), xoff + n)
          /\ BehindIs(direct, how, pos + n, SubSeq(outb, n + 1, Len(outb)), inb, fpos)
          /\ SubSeq(outb, 1, n) \in Seq(Nat) /\ Len(SubSeq(outb, 1, n)) = n /\ pos + n \in Nat
      BY <1>1, <2>4, TakenIs
    <2>6. Fetching' /\ loc' \in Locals /\ pc' \in {"idle"} \cup ReadPlaces /\ got' \in Seq(Nat)
      <3> DEFINE bytes == SubSeq(outb, 1, n)
      <3>1. bytes \in Seq(Nat) /\ Len(bytes) = n /\ Len(bytes) <= loc.togo
        BY <2>4, <2>5
      <3> HIDE DEF bytes
      <3>2. CASE Give(loc.acc \o bytes)
        <4>1. loc.acc \o bytes \in Seq(Nat)
          BY <1>5, <3>1, JoinIs
        <4>2. QED
          BY <3>2, <4>1, GiveIs
      <3>3. CASE /\ loc' = [loc EXCEPT !.acc = @ \o bytes, !.togo = @ - Len(bytes)]
                 /\ pc' = "gets" /\ got' = got
        <4>1. loc' \in Locals /\ loc'.dout = loc.dout /\ loc'.call = loc.call
          BY <1>4, <3>1, <3>3, SomeIs
        <4>2. Fetching' /\ pc' \in {"idle"} \cup ReadPlaces
          BY <1>4, <3>3, <4>1 DEF Fetching, ReadPlaces
        <4>3. got' \in Seq(Nat)
          BY <3>3, ReadFacts
        <4>4. QED
          BY <4>1, <4>2, <4>3
      <3>4. \/ Give(loc.acc \o bytes)
            \/ /\ loc' = [loc EXCEPT !.acc = @ \o bytes, !.togo = @ - Len(bytes)]
               /\ pc' = "gets" /\ got' = got
        BY <2>1, <3>1 DEF bytes
      <3>5. QED
        BY <3>2, <3>3, <3>4
    <2>7. /\ BuffersAre(size, inb', outb', xoff') /\ BehindIs(direct, how, pos', outb', inb', fpos')
          /\ past' \in BOOLEAN /\ pos' \in Nat
      BY <1>1, <1>2, <2>1, <2>5, KeptIs, Zenon
    <2>8. QED
      BY <1>1, <1>2, <1>3, <2>6, <2>7, MovesIs
  <1>9. QED
    BY <1>1, <1>6, <1>7, <1>8

-----------------------------------------------------------------------------
(* gz_fetch and gz_decomp.                                                 *)

LEMMA FetchLookStep ==
    ASSUME IInv, UNCHANGED writeVars, FetchStep, FetchLook
    PROVE  IInv'
  <1>1. mode = "read" /\ pc = "fetch" /\ mode' = mode /\ want' = want /\ pos' = pos /\ skip' = skip
        /\ story' = story /\ stage' = stage /\ past' = past
    BY DEF FetchStep, fileVars, IInv, Placed, ReadPlaces
  <1>2. past' \in BOOLEAN /\ stage' \in 1..Len(story)
    BY <1>1, ReadNow, Zenon
  <1>3. /\ loc \in Locals /\ loc.dout = <<>> /\ loc.call \in {"read", "gets", "push", "force"}
        /\ loc.back \in {"skip", "read", "line"}
    BY <1>1, ReadNow DEF Fetching, ReadPlaces, Locals
  <1>4. CASE /\ Look
             /\ IF how' = "look" THEN pc' = loc.back ELSE FetchOn(outb', eof', inb')
             /\ UNCHANGED <<err, got, loc>>
    <2>1. /\ size' = size \/ (size = 0 /\ size' = want)
          /\ BuffersAre(size', inb', outb', xoff') /\ BehindIs(direct', how', pos', outb', inb', fpos')
          /\ direct' \in {-1, 0, 1} /\ fpos' \in Nat /\ how' \in {"look", "copy", "gzip"}
          /\ ist' \in {"m1", "m2", "body", "done"} /\ held' \in Seq(Nat) /\ eof' \in BOOLEAN
      BY <1>1, <1>4, LookIs
    <2>2. pc' \in {"fetch", loc.back} /\ loc' = loc /\ err' = err /\ got' = got
      BY <1>4 DEF FetchOn
    <2>3. pos' \in Nat /\ skip' \in Nat /\ err' \in {"ok", "buf", "fatal"} /\ got' \in Seq(Nat)
      BY <1>1, <2>2, KeptIs, Zenon
    <2>4. Values(direct', pos', skip', fpos', err', how', ist', held', got')
      BY <2>1, <2>3, Zenon DEF Values
    <2>5. Fetching' /\ loc' \in Locals /\ pc' \in {"idle"} \cup ReadPlaces
      BY <1>3, <2>2 DEF Fetching, ReadPlaces
    <2>6. ReadResult
      BY <1>1, <1>2, <2>1, <2>4, <2>5, Zenon DEF ReadResult
    <2>7. QED
      BY <1>1, <2>6, ReadResultIs
  <1>5. CASE Broken /\ UNCHANGED <<size, direct, inb, how, eof, xoff, ist, held, fpos>>
    <2>1. UNCHANGED <<mode, size, want, direct, pos, skip, story, stage, how, ist, held, fpos, xoff>>
          /\ inb' = inb /\ eof' = eof
      BY <1>1, <1>5
    <2>2. eof' \in BOOLEAN
      BY <1>1, <2>1, KeptIs, Zenon
    <2>3. QED
      BY <1>1, <1>2, <1>5, <2>1, <2>2, BrokenIs
  <1>6. QED
    BY <1>4, <1>5 DEF FetchLook

\* A plain file fills the whole output buffer.
LEMMA FetchCopyStep ==
    ASSUME IInv, UNCHANGED writeVars, FetchStep, FetchCopy
    PROVE  IInv'
  <1>1. mode = "read" /\ pc = "fetch" /\ how = "copy"
        /\ UNCHANGED <<mode, size, want, direct, story, stage, how, ist, held>>
        /\ pos' = pos /\ skip' = skip /\ past' = past /\ inb' = inb
    BY DEF FetchStep, FetchCopy, fileVars, IInv, Placed, ReadPlaces
  <1>2. past' \in BOOLEAN /\ pos' \in Nat /\ skip' \in Nat
    BY <1>1, KeptIs, Zenon
  <1>3. /\ loc \in Locals /\ loc.dout = <<>> /\ loc.call \in {"read", "gets", "push", "force"}
        /\ loc.back \in {"skip", "read", "line"}
    BY <1>1, ReadNow DEF Fetching, ReadPlaces, Locals
  <1>4. CASE /\ outb' = Plain(Loaded(2 * size)) /\ xoff' = 0 /\ Load(2 * size)
             /\ pc' = loc.back /\ UNCHANGED <<err, got, loc>>
    <2> DEFINE m == 2 * size
               k == Loads(m)
               o == Plain(Loaded(m))
    <2>1. m \in Nat /\ ReadTypeOK /\ ReadTypes
      BY Numbers DEF IInv, ReadInv
    <2> HIDE DEF m
    <2>2. k \in 0..m /\ Loaded(m) \in Seq(Items) /\ Len(Loaded(m)) = k
      BY <2>1, LoadIs
    <2>3. o \in Seq(Nat) /\ Len(o) = k
      BY <2>2, PlainIs
    <2>4. outb' = o /\ xoff' = 0 /\ fpos' = fpos + k /\ eof' = (eof \/ k < m)
          /\ pc' = loc.back /\ err' = err /\ got' = got /\ loc' = loc
      BY <1>4 DEF Load, m
    <2> HIDE DEF k, o
    <2>5. k \in Nat /\ k <= m
      BY <2>1, <2>2
    <2>6. BuffersAre(size, inb, o, 0)
      <3>1. 0 + Len(o) <= 2 * size
        BY <2>3, <2>5, Numbers DEF m
      <3>2. QED
        BY <2>3, <3>1, Numbers, ReadFacts, Zenon DEF BuffersAre
    <2>7. BehindIs(direct, how, pos, o, inb, fpos + k)
      <3>1. BehindIs(direct, how, pos, outb, inb, fpos)
        BY <1>1, KeptIs, Zenon
      <3>2. QED
        BY <2>3, <2>5, <3>1, Numbers, SMTT(30) DEF BehindIs
    <2>8. BuffersAre(size, inb', outb', xoff') /\ BehindIs(direct, how, pos', outb', inb', fpos')
      BY <1>1, <2>4, <2>6, <2>7, Zenon
    <2>9. eof' \in BOOLEAN
      BY <2>4
    <2>10. fpos + k \in Nat
      BY <2>5, Numbers
    <2>11. fpos' \in Nat /\ err' \in {"ok", "buf", "fatal"} /\ got' \in Seq(Nat)
      BY <1>1, <2>4, <2>10, KeptIs, Zenon
    <2>12. Fetching' /\ loc' \in Locals /\ pc' \in {"idle"} \cup ReadPlaces
      BY <1>3, <2>4 DEF Fetching, ReadPlaces
    <2>13. QED
      BY <1>1, <1>2, <2>8, <2>9, <2>11, <2>12, MovesIs
  <1>5. CASE Broken /\ UNCHANGED <<xoff, eof, fpos>>
    <2>1. UNCHANGED <<mode, size, want, direct, pos, skip, story, stage, how, ist, held, fpos, xoff>>
          /\ inb' = inb /\ eof' = eof
      BY <1>1, <1>5
    <2>2. eof' \in BOOLEAN
      BY <1>1, <2>1, KeptIs, Zenon
    <2>3. QED
      BY <1>1, <1>2, <1>5, <2>1, <2>2, BrokenIs
  <1>6. QED
    BY <1>4, <1>5 DEF FetchCopy

LEMMA FetchGzipStep ==
    ASSUME IInv, UNCHANGED writeVars, FetchStep, FetchGzip
    PROVE  IInv'
  <1>1. mode = "read" /\ pc = "fetch" /\ how = "gzip"
        /\ UNCHANGED <<mode, size, want, direct, story, stage, how, ist, held>>
        /\ pos' = pos /\ skip' = skip /\ past' = past /\ inb' = inb
        /\ err' = err /\ eof' = eof /\ outb' = outb /\ xoff' = xoff /\ fpos' = fpos /\ got' = got
        /\ pc' = "decomp" /\ loc' = [loc EXCEPT !.room = 2 * size, !.dest = "out"]
    BY DEF FetchStep, FetchGzip, fileVars, IInv, Placed, ReadPlaces
  <1>2. /\ past' \in BOOLEAN /\ pos' \in Nat /\ skip' \in Nat /\ eof' \in BOOLEAN /\ fpos' \in Nat
        /\ err' \in {"ok", "buf", "fatal"} /\ got' \in Seq(Nat)
        /\ BuffersAre(size, inb', outb', xoff') /\ BehindIs(direct, how, pos', outb', inb', fpos')
    BY <1>1, KeptIs, Zenon
  <1>3. /\ loc \in Locals /\ loc.dout = <<>> /\ loc.call \in {"read", "gets", "push", "force"}
        /\ loc.back # "none"
    BY <1>1, ReadNow DEF Fetching, ReadPlaces
  <1>4. Fetching' /\ loc' \in Locals /\ pc' \in {"idle"} \cup ReadPlaces
    <2> DEFINE m == 2 * size
    <2>1. m \in Nat /\ m + 0 = m /\ Len(<<>>) = 0
      BY Numbers
    <2> HIDE DEF m
    <2>2. /\ loc' \in Locals /\ loc'.dest = "out" /\ loc'.dout = <<>> /\ loc'.call = loc.call
          /\ loc'.room = m /\ loc'.back = loc.back
      BY <1>1, <1>3, <2>1 DEF Locals, m
    <2>3. loc'.room + Len(loc'.dout) = 2 * size'
      <3>1. loc'.room + Len(loc'.dout) = m
        BY <2>1, <2>2, Zenon
      <3>2. size' = size
        BY <1>1
      <3>3. QED
        BY <3>1, <3>2, Zenon DEF m
    <2>4. QED
      BY <1>1, <1>3, <2>2, <2>3 DEF Fetching, ReadPlaces
  <1>5. QED
    BY <1>1, <1>2, <1>4, MovesIs

LEMMA FetchStepStep ==
    ASSUME IInv, UNCHANGED writeVars, FetchStep
    PROVE  IInv'
  BY FetchLookStep, FetchCopyStep, FetchGzipStep DEF FetchStep

\* gz_decomp at work: what is kept while inflate takes items
LEMMA DecompKeeps ==
    ASSUME IInv, Decomp
    PROVE  /\ mode = "read" /\ pc = "decomp" /\ how = "gzip" /\ direct = 0
           /\ UNCHANGED <<mode, size, want, direct, story, stage, how>>
           /\ pos' = pos /\ skip' = skip /\ past' = past /\ xoff' = xoff
           /\ pos' \in Nat /\ skip' \in Nat /\ past' \in BOOLEAN
           /\ loc \in Locals /\ loc.call \in {"read", "gets", "push", "force"}
           /\ loc.dest = "out" => loc.back # "none" /\ loc.room + Len(loc.dout) = 2 * size
           /\ loc.dest = "user" => loc.room + Len(loc.dout) = loc.togo
  <1>1. mode = "read" /\ pc = "decomp"
    BY DEF Decomp, IInv, Placed, ReadPlaces
  <1>2. UNCHANGED <<mode, size, want, direct, story, stage, how>>
        /\ pos' = pos /\ skip' = skip /\ past' = past /\ xoff' = xoff
    BY DEF Decomp, fileVars
  <1>3. pos' \in Nat /\ skip' \in Nat /\ past' \in BOOLEAN
    BY <1>1, <1>2, KeptIs, Zenon
  <1>4. /\ loc \in Locals /\ loc.call \in {"read", "gets", "push", "force"} /\ how = "gzip"
        /\ loc.dest = "out" => loc.back # "none" /\ loc.room + Len(loc.dout) = 2 * size
        /\ loc.dest = "user" => loc.room + Len(loc.dout) = loc.togo
    BY <1>1, ReadNow DEF Fetching, ReadPlaces
  <1>5. direct = 0
    BY <1>1, <1>4, KeptIs DEF BehindIs
  <1>6. QED
    BY <1>1, <1>2, <1>3, <1>4, <1>5, Zenon

\* Nothing but the input changed.
LEMMA DecompGoesOn ==
    ASSUME IInv, Decomp, loc' = loc, pc' \in {"decomp", "decomped"}
    PROVE  Fetching' /\ loc' \in Locals /\ pc' \in {"idle"} \cup ReadPlaces
  <1>1. how' = "gzip" /\ size' = size /\ loc \in Locals
    BY DecompKeeps
  <1>2. loc'.call \in {"read", "gets", "push", "force"}
    BY DecompKeeps
  <1>3. loc'.dest = "out" => loc'.back # "none" /\ loc'.room + Len(loc'.dout) = 2 * size'
    BY <1>1, DecompKeeps, Zenon
  <1>4. loc'.dest = "user" => loc'.room + Len(loc'.dout) = loc'.togo
    BY DecompKeeps, Zenon
  <1>5. Fetching'
    BY <1>1, <1>2, <1>3, <1>4, Zenon DEF Fetching, ReadPlaces
  <1>6. QED
    BY <1>1, <1>5 DEF ReadPlaces

LEMMA DecompLoadStep ==
    ASSUME IInv, UNCHANGED writeVars, Decomp, DecompLoad
    PROVE  IInv'
  <1>1. ist' = ist /\ held' = held
    BY DEF DecompLoad
  <1>2. CASE inb' = Loaded(size) /\ Load(size) /\ UNCHANGED <<err, outb, got, loc, pc>>
    <2> DEFINE k == Loads(size)
               b == Loaded(size)
    <2>1. ReadTypeOK /\ ReadTypes /\ size \in Nat
      BY Numbers DEF IInv, ReadInv
    <2>2. k \in 0..size /\ b \in Seq(Items) /\ Len(b) = k
      BY <2>1, LoadIs
    <2>3. inb' = b /\ fpos' = fpos + k /\ eof' = (eof \/ k < size) /\ err' = err /\ outb' = outb
          /\ got' = got /\ loc' = loc /\ pc' = pc
      BY <1>2 DEF Load
    <2> HIDE DEF k, b
    <2>4. BuffersAre(size, b, outb, xoff)
      <3>1. Len(b) <= size
        BY <2>1, <2>2
      <3>2. BuffersAre(size, inb, outb, xoff)
        BY DecompKeeps, KeptIs, Zenon
      <3>3. QED
        BY <2>2, <3>1, <3>2, Zenon DEF BuffersAre
    <2>5. BehindIs(direct, how, pos, outb, b, fpos + k)
      <3>1. direct = 0 /\ how = "gzip"
        BY DecompKeeps
      <3>2. QED
        BY <3>1 DEF BehindIs
    <2>6. BuffersAre(size, inb', outb', xoff') /\ BehindIs(direct, how, pos', outb', inb', fpos')
      BY <2>3, <2>4, <2>5, DecompKeeps, Zenon
    <2>7. eof' \in BOOLEAN
      BY <2>3
    <2>8. fpos + k \in Nat
      BY <2>1, <2>2, Numbers
    <2>9. fpos' \in Nat /\ err' \in {"ok", "buf", "fatal"} /\ got' \in Seq(Nat)
      BY <2>3, <2>8, DecompKeeps, KeptIs, Zenon
    <2>10. Fetching' /\ loc' \in Locals /\ pc' \in {"idle"} \cup ReadPlaces
      BY <2>3, DecompKeeps, DecompGoesOn
    <2>11. UNCHANGED <<mode, size, want, direct, story, stage, how, ist, held>>
      BY <1>1, DecompKeeps
    <2>12. QED
      BY <2>6, <2>7, <2>9, <2>10, <2>11, DecompKeeps, MovesIs, Zenon
  <1>3. CASE Broken /\ UNCHANGED <<inb, fpos, eof>>
    <2>1. UNCHANGED <<mode, size, want, direct, pos, skip, story, stage, how, ist, held, fpos, xoff>>
          /\ inb' = inb /\ eof' = eof
      BY <1>1, <1>3, DecompKeeps
    <2>2. eof' \in BOOLEAN
      BY <2>1, DecompKeeps, KeptIs, Zenon
    <2>3. QED
      BY <1>3, <2>1, <2>2, DecompKeeps, BrokenIs
  <1>4. QED
    BY <1>2, <1>3 DEF DecompLoad

LEMMA DecompEndStep ==
    ASSUME IInv, UNCHANGED writeVars, Decomp, DecompEnd
    PROVE  IInv'
  <1>1. /\ eof' = TRUE /\ err' = "buf" /\ pc' = "decomped" /\ inb' = inb /\ fpos' = fpos
        /\ loc' = loc /\ outb' = outb /\ got' = got /\ ist' = ist /\ held' = held
    BY DEF DecompEnd
  <1>2. BuffersAre(size, inb', outb', xoff') /\ BehindIs(direct, how, pos', outb', inb', fpos')
    BY <1>1, DecompKeeps, KeptIs, Zenon
  <1>3. eof' \in BOOLEAN /\ fpos' \in Nat /\ err' \in {"ok", "buf", "fatal"} /\ got' \in Seq(Nat)
    BY <1>1, DecompKeeps, KeptIs, Zenon
  <1>4. Fetching' /\ loc' \in Locals /\ pc' \in {"idle"} \cup ReadPlaces
    BY <1>1, DecompGoesOn
  <1>5. UNCHANGED <<mode, size, want, direct, story, stage, how, ist, held>>
    BY <1>1, DecompKeeps
  <1>6. QED
    BY <1>2, <1>3, <1>4, <1>5, DecompKeeps, MovesIs, Zenon

\* inflate puts no more than fits into the room that is left.
LEMMA InflatesStep ==
    ASSUME IInv, UNCHANGED writeVars, Decomp,
           NEW bytes \in Seq(Nat), NEW more \in Seq(Items), NEW next \in {"m1", "m2", "body", "done"},
           Len(more) <= size, Inflates(bytes, more, next), fpos' = fpos, eof' = eof
    PROVE  IInv'
  <1> DEFINE k == Lesser(loc.room, Len(bytes))
  <1>1. /\ loc' = [loc EXCEPT !.dout = @ \o SubSeq(bytes, 1, k), !.room = @ - k]
        /\ held' = SubSeq(bytes, k + 1, Len(bytes)) /\ inb' = more /\ ist' = next
        /\ pc' \in {"decomp", "decomped"}
        /\ err' = err /\ outb' = outb /\ got' = got
    BY DecompKeeps DEF Inflates
  <1>2. loc.room \in Nat /\ loc.dout \in Seq(Nat) /\ loc \in Locals /\ Len(bytes) \in Nat
    BY DecompKeeps DEF Locals
  <1>3. k \in 0..Len(bytes) /\ loc.room - k \in Nat /\ k \in Nat
    BY <1>2 DEF Lesser
  <1> HIDE DEF k
  <1>4. held' \in Seq(Nat)
    BY <1>1, <1>3, RestIs
  <1>5. SubSeq(bytes, 1, k) \in Seq(Nat) /\ Len(SubSeq(bytes, 1, k)) = k
    BY <1>3, FrontIs
  <1> DEFINE o == loc.dout \o SubSeq(bytes, 1, k)
             r == loc.room - k
  <1>6. o \in Seq(Nat) /\ Len(o) = Len(loc.dout) + k
    BY <1>2, <1>5, JoinIs
  <1> HIDE DEF o
  <1>7. r \in Nat /\ r + Len(o) = loc.room + Len(loc.dout)
    <2> DEFINE room == loc.room
               had == Len(loc.dout)
               out == Len(o)
    <2>1. room \in Nat /\ had \in Nat /\ out = had + k /\ k \in Nat /\ room - k \in Nat
      BY <1>2, <1>3, <1>6 DEF Locals
    <2> HIDE DEF room, had, out
    <2>2. room - k + out = room + had
      BY <2>1
    <2>3. QED
      BY <2>1, <2>2 DEF room, had, out
  <1>8. loc' = [loc EXCEPT !.dout = o, !.room = r]
    BY <1>1 DEF o
  <1> HIDE DEF r
  <1>9. /\ loc' \in Locals /\ loc'.dout = o /\ loc'.room = r /\ loc'.call = loc.call /\ loc'.dest = loc.dest
        /\ loc'.back = loc.back /\ loc'.togo = loc.togo
    BY <1>2, <1>6, <1>7, <1>8 DEF Locals
  <1>10. Fetching' /\ pc' \in {"idle"} \cup ReadPlaces
    <2>1. loc'.dest = "out" => loc'.back # "none" /\ loc'.room + Len(loc'.dout) = 2 * size'
      <3>1. size' = size
        BY DecompKeeps
      <3>2. QED
        BY <1>7, <1>9, <3>1, DecompKeeps, Zenon
    <2>2. loc'.dest = "user" => loc'.room + Len(loc'.dout) = loc'.togo
      BY <1>7, <1>9, DecompKeeps, Zenon
    <2>3. how' = "gzip" /\ loc'.call \in {"read", "gets", "push", "force"}
      BY <1>9, DecompKeeps
    <2>4. Fetching'
      BY <1>1, <2>1, <2>2, <2>3, Zenon DEF Fetching, ReadPlaces
    <2>5. QED
      BY <1>1, <2>4 DEF ReadPlaces
  <1>11. BuffersAre(size, inb', outb', xoff') /\ BehindIs(direct, how, pos', outb', inb', fpos')
    <2>1. BuffersAre(size, more, outb, xoff)
      <3>1. BuffersAre(size, inb, outb, xoff)
        BY DecompKeeps, KeptIs, Zenon
      <3>2. QED
        BY <3>1, Zenon DEF BuffersAre
    <2>2. BehindIs(direct, how, pos, outb, more, fpos)
      <3>1. direct = 0 /\ how = "gzip"
        BY DecompKeeps
      <3>2. QED
        BY <3>1 DEF BehindIs
    <2>3. QED
      BY <1>1, <2>1, <2>2, DecompKeeps, Zenon
  <1>12. Values(direct', pos', skip', fpos', err', how', ist', held', got')
    <2>1. err' \in {"ok", "buf", "fatal"} /\ got' \in Seq(Nat) /\ fpos' \in Nat
      BY <1>1, DecompKeeps, KeptIs, Zenon
    <2>2. direct' \in {-1, 0, 1} /\ how' \in {"look", "copy", "gzip"}
      BY DecompKeeps
    <2>3. ist' \in {"m1", "m2", "body", "done"}
      BY <1>1
    <2>4. QED
      BY <1>4, <2>1, <2>2, <2>3, DecompKeeps, Zenon DEF Values
  <1>13. eof' \in BOOLEAN /\ past' \in BOOLEAN /\ stage' \in 1..Len(story) /\ story' = story
    <2>1. stage' = stage /\ story' = story
      BY DecompKeeps
    <2>2. QED
      BY <2>1, DecompKeeps, ReadNow, Zenon
  <1>14. /\ mode' = "read" /\ want' = want /\ size' = size
         /\ BuffersAre(size', inb', outb', xoff') /\ BehindIs(direct', how', pos', outb', inb', fpos')
    <2>1. mode' = "read" /\ want' = want /\ size' = size /\ direct' = direct /\ how' = how
      BY DecompKeeps
    <2>2. QED
      BY <1>11, <2>1, Zenon
  <1>15. ReadResult
    BY <1>9, <1>10, <1>12, <1>13, <1>14, Zenon DEF ReadResult
  <1>16. QED
    BY <1>15, DecompKeeps, ReadResultIs

LEMMA DecompItemStep ==
    ASSUME IInv, UNCHANGED writeVars, Decomp, DecompItem
    PROVE  IInv'
  <1> DEFINE i == inb[1]
             more == SubSeq(inb, 2, Len(inb))
  <1>1. inb \in Seq(Items) /\ inb # <<>> /\ Len(inb) \in Nat /\ Len(inb) # 0 /\ Len(inb) <= size
    BY ReadFacts, Numbers, EmptySeq DEF DecompItem
  <1>2. 1 \in 1..Len(inb) /\ 1 \in 0..Len(inb) /\ 1 + 1 = 2
    BY <1>1
  <1>3. i.v \in Seq(Nat)
    <2>1. i \in Items
      BY <1>1, <1>2, ElementOfSeq
    <2>2. QED
      BY <2>1 DEF Items
  <1>4. more \in Seq(Items) /\ Len(more) <= size
    <2>1. SubSeq(inb, 1 + 1, Len(inb)) \in Seq(Items) /\ Len(SubSeq(inb, 1 + 1, Len(inb))) = Len(inb) - 1
      BY <1>1, <1>2, RestIs
    <2>2. Len(inb) - 1 <= size
      BY <1>1, Numbers
    <2>3. QED
      BY <1>2, <2>1, <2>2
  <1>5. held \in Seq(Nat) /\ <<>> \in Seq(Nat) /\ ist \in {"m1", "m2", "body", "done"}
    BY DecompKeeps, ReadNow DEF Values
  <1>6. fpos' = fpos /\ eof' = eof
    BY DEF DecompItem
  <1>7. \/ Inflates(held, inb, ist)
        \/ Inflates(<<>>, more, "m2")
        \/ Inflates(<<>>, more, "body")
        \/ Inflates(i.v, more, "body")
        \/ Inflates(<<>>, more, "done")
        \/ Broken /\ UNCHANGED <<inb, ist, held>>
    BY DEF DecompItem
  <1> HIDE DEF i, more
  <1>8. CASE Broken /\ UNCHANGED <<inb, ist, held>>
    <2>1. UNCHANGED <<mode, size, want, direct, pos, skip, story, stage, how, ist, held, fpos, xoff>>
          /\ inb' = inb
      BY <1>6, <1>8, DecompKeeps
    <2>2. eof' \in BOOLEAN
      BY <1>6, DecompKeeps, KeptIs, Zenon
    <2>3. QED
      BY <1>8, <2>1, <2>2, DecompKeeps, BrokenIs
  <1>9. QED
    BY <1>1, <1>3, <1>4, <1>5, <1>6, <1>7, <1>8, InflatesStep

LEMMA DecompStep ==
    ASSUME IInv, UNCHANGED writeVars, Decomp
    PROVE  IInv'
  BY DecompLoadStep, DecompEndStep, DecompItemStep DEF Decomp

\* gz_decomp returns with what it put into the room it was given.
LEMMA DecompedStep ==
    ASSUME IInv, UNCHANGED writeVars, Decomped
    PROVE  IInv'
  <1>1. mode = "read" /\ pc = "decomped"
    BY DEF Decomped, IInv, Placed, ReadPlaces
  <1>2. /\ UNCHANGED <<mode, size, want, direct, story, stage, ist, held>>
        /\ skip' = skip /\ err' = err /\ inb' = inb /\ eof' = eof /\ past' = past /\ fpos' = fpos
        /\ how' \in {"look", how}
    BY DEF Decomped, NextHow, fileVars
  <1>3. /\ loc \in Locals /\ loc.call \in {"read", "gets", "push", "force"} /\ how = "gzip"
        /\ loc.dest = "out" => loc.back # "none" /\ loc.room + Len(loc.dout) = 2 * size
        /\ loc.dest = "user" => loc.room + Len(loc.dout) = loc.togo
    BY <1>1, ReadNow DEF Fetching, ReadPlaces
  <1>4. loc.dout \in Seq(Nat) /\ loc.room \in Nat /\ loc.dest \in {"out", "user"} /\ loc.togo \in Nat
        /\ loc.back \in {"none", "skip", "read", "line"}
    BY <1>3 DEF Locals
  <1>5. direct = 0
    BY <1>1, <1>3, KeptIs DEF BehindIs
  <1>6. Len(loc.dout) \in Nat
    BY <1>4
  <1> DEFINE Moved2 == /\ pos' \in Nat /\ got' \in Seq(Nat)
                       /\ BuffersAre(size, inb, outb', xoff')
                       /\ Fetching' /\ loc' \in Locals /\ pc' \in {"idle"} \cup ReadPlaces
  <1>7. ASSUME loc.dest = "out" PROVE Moved2
    <2>1. /\ outb' = loc.dout /\ xoff' = 0 /\ FetchOn(loc.dout, eof, inb)
          /\ loc' = [loc EXCEPT !.dout = <<>>] /\ pos' = pos /\ got' = got
      BY <1>7 DEF Decomped
    <2>2. pc' \in {"fetch", loc.back}
      BY <2>1 DEF FetchOn
    <2>3. pos' \in Nat /\ got' \in Seq(Nat)
      BY <1>1, <2>1, KeptIs, Zenon
    <2>4. BuffersAre(size, inb, loc.dout, 0)
      <3>1. 0 + Len(loc.dout) <= 2 * size
        BY <1>3, <1>4, <1>6, <1>7, Numbers, SMTT(30)
      <3>2. QED
        BY <1>4, <3>1, Numbers, ReadFacts, Zenon DEF BuffersAre
    <2>5. loc' \in Locals /\ loc'.dout = <<>> /\ loc'.call = loc.call /\ loc'.back = loc.back
      <3>1. <<>> \in Seq(Nat) /\ loc \in Locals
        BY ReadFacts
      <3>2. loc' = [loc EXCEPT !.dout = <<>>]
        BY <2>1, Zenon
      <3>3. QED
        BY <3>1, <3>2 DEF Locals
    <2>6. Fetching' /\ pc' \in {"idle"} \cup ReadPlaces
      BY <1>3, <1>4, <1>7, <2>2, <2>5 DEF Fetching, ReadPlaces
    <2>7. QED
      BY <2>1, <2>3, <2>4, <2>5, <2>6, Zenon
  <1>8. ASSUME loc.dest # "out" PROVE Moved2
    <2>1. Took(loc.dout) /\ outb' = outb /\ xoff' = xoff
      BY <1>8 DEF Decomped
    <2>2. Len(loc.dout) <= loc.togo
      BY <1>3, <1>4, <1>6, <1>8
    <2>3. /\ pos' \in Nat /\ got' \in Seq(Nat)
          /\ Fetching' /\ loc' \in Locals /\ pc' \in {"idle"} \cup ReadPlaces
      BY <1>1, <1>4, <2>1, <2>2, TookIs
    <2>4. QED
      BY <1>1, <2>1, <2>3, KeptIs, Zenon
  <1>9. Moved2
    BY <1>7, <1>8
  <1>10. BuffersAre(size', inb', outb', xoff') /\ BehindIs(direct', how', pos', outb', inb', fpos')
    <2>1. size' = size /\ inb' = inb /\ direct' = 0 /\ how' # "copy"
      BY <1>2, <1>3, <1>5
    <2>2. BuffersAre(size', inb', outb', xoff')
      BY <1>9, <2>1, Zenon
    <2>3. BehindIs(direct', how', pos', outb', inb', fpos')
      BY <2>1 DEF BehindIs
    <2>4. QED
      BY <2>2, <2>3
  <1>11. Values(direct', pos', skip', fpos', err', how', ist', held', got')
    <2>1. skip' \in Nat /\ fpos' \in Nat /\ err' \in {"ok", "buf", "fatal"}
      BY <1>1, <1>2, KeptIs, Zenon
    <2>2. direct' \in {-1, 0, 1} /\ how' \in {"look", "copy", "gzip"}
      BY <1>2, <1>3, <1>5
    <2>3. ist' \in {"m1", "m2", "body", "done"} /\ held' \in Seq(Nat)
      <3>1. ist' = ist /\ held' = held
        BY <1>2
      <3>2. QED
        BY <1>1, <3>1, ReadNow, Zenon DEF Values
    <2>4. QED
      BY <1>9, <2>1, <2>2, <2>3, Zenon DEF Values
  <1>12. eof' \in BOOLEAN /\ past' \in BOOLEAN
    BY <1>1, <1>2, KeptIs, Zenon
  <1>13. mode' = "read" /\ want' = want /\ size' = size /\ story' = story /\ stage' = stage
    BY <1>1, <1>2
  <1>14. stage' \in 1..Len(story)
    BY <1>1, <1>13, ReadNow, Zenon
  <1>15. ReadResult
    BY <1>9, <1>10, <1>11, <1>12, <1>13, <1>14, Zenon DEF ReadResult
  <1>16. QED
    BY <1>1, <1>15, ReadResultIs

\* Every step of reading
LEMMA ReadNextStep ==
    ASSUME IInv, Reading
    PROVE  IInv'
  <1>1. UNCHANGED writeVars
    BY DEF Reading
  <1>2. QED
    BY <1>1, BeginsStep, GetcStep, PeekStep, PushStep, RewindStep, ReadSeekStep, ClearerrStep, CloseReadStep,
       SkipStep, ReadStep, GetsStep, FetchStepStep, DecompStep, DecompedStep DEF Reading, ReadNext

-----------------------------------------------------------------------------
(* What a step of writing starts from, and what is to be shown of it.      *)

InputIs(sz, i, n) == i \in Seq(Int) /\ n \in -1..(2 * sz) /\ (n = -1 \/ n + Len(i) <= 2 * sz)
OutputIs(sz, o, m) == o \in Seq(Int) /\ m \in 0..sz /\ Len(o) <= m
DeflaterIs(r, m, h) == r \in BOOLEAN /\ m \in {"new", "busy", "done"} /\ h \in Seq(Int)
CallIs(sz, l, f, e, z, k) ==
  /\ l \in Nat /\ f \in Flushes \cup {"block"} /\ e \in BOOLEAN
  /\ z \in -1..sz /\ k \in 0..sz
SeenIs(f, z, t) == f \in Seq(Int) /\ z \subseteq Nat /\ t \in BOOLEAN

ControlIs(p, a, o, e, k, s, sz) ==
  /\ p \in {"idle"} \cup WritePlaces
  /\ a \in {"idle", "body", "zero", "zeroed", "moved", "params", "flushed", "closed"}
  /\ o \in {"none", "write", "putc", "printf", "flush", "params", "close"}
  /\ e \in {"ok", "fatal"}
  /\ p \in WritePlaces /\ e = "fatal" => o = "close"
  /\ p \in WritePlaces => k <= s
  /\ p \in {"write", "deflate"} => sz > 0
  /\ o \in {"write", "printf"} /\ p \in WritePlaces \ {"begin"} => sz > 0

BufferedIs(p, a, e, i, n, r, sz, m) ==
  /\ e = "ok" /\ p \in {"idle", "begin", "body", "params"} /\ i # <<>> => n = 0 /\ Len(i) <= sz
  /\ p \in {"zero", "zeroed"} => i = <<>>
  /\ (p = "moved" \/ (p \in {"comp", "write", "deflate"} /\ a = "moved")) => Len(r) <= sz
  /\ p = "deflate" => m < sz

WriteResult ==
  /\ mode' = "write" /\ want' = want /\ (size' = size \/ (size = 0 /\ size' = want))
  /\ direct' = direct /\ pos' \in Nat /\ skip' \in Nat
  /\ InputIs(size', inp', noff') /\ rest' \in Seq(Int) /\ OutputIs(size', outp', nout')
  /\ DeflaterIs(reset', member', hold') /\ CallIs(size', left', flush', ended', zclear', zn')
  /\ SeenIs(file', zeros', told')
  /\ ControlIs(pc', after', op', err', zn', skip', size')
  /\ BufferedIs(pc', after', err', inp', noff', rest', size', nout')

LEMMA WriteNow ==
    ASSUME IInv, mode = "write"
    PROVE  /\ InputIs(size, inp, noff) /\ rest \in Seq(Int) /\ OutputIs(size, outp, nout)
           /\ DeflaterIs(reset, member, hold) /\ CallIs(size, left, flush, ended, zclear, zn)
           /\ SeenIs(file, zeros, told)
           /\ ControlIs(pc, after, op, err, zn, skip, size)
           /\ BufferedIs(pc, after, err, inp, noff, rest, size, nout)
           /\ pc \in {"idle"} \cup WritePlaces
  <1>1. WriteTypeOK /\ WriteControl /\ Buffered /\ err \in {"ok", "buf", "fatal"}
    BY DEF IInv, GzTypeOK, WriteInv
  <1>2. pc \in {"idle"} \cup WritePlaces
    BY DEF IInv, Placed
  <1>3. InputIs(size, inp, noff)
    BY <1>1 DEF WriteTypeOK, Buffered, InputIs
  <1>4. rest \in Seq(Int) /\ OutputIs(size, outp, nout) /\ SeenIs(file, zeros, told)
    BY <1>1 DEF WriteTypeOK, OutputIs, SeenIs
  <1>5. DeflaterIs(reset, member, hold) /\ CallIs(size, left, flush, ended, zclear, zn)
    BY <1>1 DEF WriteTypeOK, DeflaterIs, CallIs
  <1>6. ControlIs(pc, after, op, err, zn, skip, size)
    BY <1>1, <1>2 DEF WriteControl, ControlIs
  <1>7. BufferedIs(pc, after, err, inp, noff, rest, size, nout)
    BY <1>1 DEF Buffered, BufferedIs
  <1>8. QED
    BY <1>2, <1>3, <1>4, <1>5, <1>6, <1>7

LEMMA WriteResultIs ==
    ASSUME IInv, UNCHANGED readVars, mode = "write", WriteResult
    PROVE  IInv'
  <1>1. pc \in {"idle"} \cup WritePlaces /\ pc' \in {"idle"} \cup WritePlaces
    BY WriteNow DEF WriteResult, ControlIs
  <1>2. ReadInv'
    BY <1>1, WriteLeavesReading DEF WriteResult
  <1>3. GzTypeOK'
    BY DEF IInv, GzTypeOK, WriteResult, ControlIs
  <1>4. Placed'
    BY <1>1 DEF WriteResult, Placed, ReadPlaces, WritePlaces
  <1>5. WriteTypeOK'
    BY Zenon DEF WriteResult, InputIs, OutputIs, DeflaterIs, CallIs, SeenIs, WriteTypeOK
  <1>6. WriteControl'
    <2>1. ControlIs(pc', after', op', err', zn', skip', size')
      BY DEF WriteResult
    <2>2. err' # "buf"
      BY <2>1 DEF ControlIs
    <2>3. QED
      BY <2>1, <2>2, Zenon DEF ControlIs, WriteControl
  <1>7. Buffered'
    <2>1. InputIs(size', inp', noff') /\ BufferedIs(pc', after', err', inp', noff', rest', size', nout')
      BY DEF WriteResult
    <2>2. QED
      BY <2>1, Zenon DEF InputIs, BufferedIs, Buffered
  <1>8. QED
    BY <1>2, <1>3, <1>4, <1>5, <1>6, <1>7 DEF IInv, WriteInv

\* The numbers and sequences a step of writing starts from
LEMMA WriteNumbers ==
    ASSUME IInv, mode = "write"
    PROVE  /\ noff \in Int /\ noff >= -1 /\ noff <= 2 * size /\ nout \in Nat /\ nout <= size
           /\ left \in Nat /\ zn \in Nat /\ zn <= size /\ zclear \in Int /\ zclear >= -1 /\ zclear <= size
           /\ inp \in Seq(Int) /\ rest \in Seq(Int) /\ outp \in Seq(Int) /\ hold \in Seq(Int)
           /\ file \in Seq(Int) /\ Len(inp) \in Nat /\ Len(rest) \in Nat /\ Len(outp) \in Nat
           /\ Len(outp) <= nout /\ Len(hold) \in Nat
           /\ noff = -1 \/ noff + Len(inp) <= 2 * size
  <1>1. size \in Nat
    BY Numbers
  <1>2. WriteTypeOK /\ Buffered
    BY DEF IInv, WriteInv
  <1>3. /\ inp \in Seq(Int) /\ rest \in Seq(Int) /\ outp \in Seq(Int) /\ hold \in Seq(Int)
        /\ file \in Seq(Int)
    BY <1>2 DEF WriteTypeOK
  <1>4. Len(inp) \in Nat /\ Len(rest) \in Nat /\ Len(outp) \in Nat /\ Len(hold) \in Nat
    BY <1>3
  <1>5. /\ noff \in -1..(2 * size) /\ nout \in 0..size /\ left \in Nat /\ zn \in 0..size
        /\ zclear \in -1..size /\ Len(outp) <= nout
    BY <1>2 DEF WriteTypeOK
  <1>6. noff = -1 \/ noff + Len(inp) <= 2 * size
    BY <1>2 DEF Buffered
  <1>7. QED
    BY <1>1, <1>3, <1>4, <1>5, <1>6

\* What was true of no buffers is true of new ones.
LEMMA GrownIs ==
    ASSUME IInv, mode = "write", size = 0
    PROVE  /\ InputIs(want, inp, noff) /\ OutputIs(want, outp, nout)
           /\ CallIs(want, left, flush, ended, zclear, zn)
           /\ ControlIs(pc, after, op, err, zn, skip, want)
           /\ BufferedIs(pc, after, err, inp, noff, rest, want, nout)
  <1>1. want \in Nat /\ want >= 2
    BY Numbers
  <1>2. InputIs(want, inp, noff)
    BY <1>1, WriteNow, WriteNumbers DEF InputIs
  <1>3. OutputIs(want, outp, nout)
    BY <1>1, WriteNow, WriteNumbers DEF OutputIs
  <1>4. CallIs(want, left, flush, ended, zclear, zn)
    BY <1>1, WriteNow, WriteNumbers DEF CallIs
  <1>5. ControlIs(pc, after, op, err, zn, skip, want)
    BY <1>1, WriteNow DEF ControlIs
  <1>6. BufferedIs(pc, after, err, inp, noff, rest, want, nout)
    <2>1. Len(inp) <= size => Len(inp) <= want
      BY <1>1, WriteNumbers
    <2>2. Len(rest) <= size => Len(rest) <= want
      BY <1>1, WriteNumbers
    <2>3. nout < size => nout < want
      BY <1>1, WriteNumbers
    <2>4. QED
      BY <2>1, <2>2, <2>3, WriteNow, Zenon DEF BufferedIs
  <1>7. QED
    BY <1>2, <1>3, <1>4, <1>5, <1>6

\* The return of -1 leaves what is buffered, and does not go on to write.
LEMMA FailIs ==
    ASSUME IInv, mode = "write", pc \in WritePlaces, Fail, UNCHANGED <<size, skip, op, zn>>
    PROVE  /\ err' = "fatal" /\ told' = TRUE
           /\ ControlIs(pc', after', op', err', zn', skip', size')
           /\ BufferedIs(pc', after', err', inp', noff', rest', size', nout')
  <1>1. err' = "fatal" /\ told' = TRUE /\ after' = "idle"
    BY DEF Fail
  <1>2. pc' \in {"idle", "body", "closed"} /\ (pc' # "idle" => op = "close")
    BY DEF Fail
  <1>3. op \in {"none", "write", "putc", "printf", "flush", "params", "close"} /\ zn <= skip
    BY WriteNow DEF ControlIs
  <1>4. ControlIs(pc', "idle", op, "fatal", zn, skip, size)
    BY <1>2, <1>3 DEF ControlIs, WritePlaces
  <1>5. ControlIs(pc', after', op', err', zn', skip', size')
    BY <1>1, <1>4
  <1>6. BufferedIs(pc', after', err', inp', noff', rest', size', nout')
    BY <1>1, <1>2 DEF BufferedIs
  <1>7. QED
    BY <1>1, <1>5, <1>6

\* The return of gz_comp, the input all compressed
LEMMA CompReturnIs ==
    ASSUME IInv, mode = "write", pc \in {"comp", "write", "deflate"}, CompReturn, inp' = <<>>,
           UNCHANGED <<size, skip, op, zn, err, rest>>
    PROVE  /\ ControlIs(pc', after', op', err', zn', skip', size')
           /\ BufferedIs(pc', after', err', inp', noff', rest', size', nout')
  <1> DEFINE place == IF after = "flushed" THEN "idle" ELSE after
  <1>1. pc' = place /\ after' = "idle"
    BY DEF CompReturn
  <1>2. ControlIs(pc, after, op, err, zn, skip, size) /\ BufferedIs(pc, after, err, inp, noff, rest, size, nout)
    BY WriteNow
  <1>3. place \in {"idle", "body", "zero", "zeroed", "moved", "params", "closed"}
    BY <1>2 DEF ControlIs
  <1>4. ControlIs(place, "idle", op, err, zn, skip, size)
    <2>1. pc \in WritePlaces \ {"begin"}
      BY DEF WritePlaces
    <2>2. QED
      BY <1>2, <1>3, <2>1 DEF ControlIs, WritePlaces
  <1>5. place = "moved" => Len(rest) <= size
    BY <1>2 DEF BufferedIs
  <1> HIDE DEF place
  <1>6. ControlIs(pc', after', op', err', zn', skip', size')
    BY <1>1, <1>4
  <1>7. pc' = "moved" => Len(rest') <= size'
    BY <1>1, <1>5
  <1>8. pc' \notin {"comp", "write", "deflate"}
    BY <1>1, <1>3
  <1>9. BufferedIs(pc', after', err', inp', noff', rest', size', nout')
    BY <1>7, <1>8 DEF BufferedIs
  <1>10. QED
    BY <1>6, <1>9

\* A step that changes no sequence and no number that is buffered
LEMMA SameIs ==
    ASSUME IInv, mode = "write", UNCHANGED <<size, inp, noff, rest, outp, nout, reset, member, hold>>
    PROVE  /\ InputIs(size', inp', noff') /\ rest' \in Seq(Int) /\ OutputIs(size', outp', nout')
           /\ DeflaterIs(reset', member', hold')
  BY WriteNow

-----------------------------------------------------------------------------
(* The calls.                                                              *)

LEMMA StartStep ==
    ASSUME IInv, UNCHANGED readVars, NEW o \in {"write", "putc", "printf", "flush", "params", "close"},
           NEW n \in Nat, NEW f \in Flushes \cup {"block"}, Start(o, n, f)
    PROVE  IInv'
  <1>1. mode = "write" /\ pc = "idle" /\ (err = "ok" \/ o = "close")
    BY DEF Start
  <1>2. /\ UNCHANGED <<mode, size, want, direct, pos, skip, err, inp, noff, rest, outp, nout>>
        /\ UNCHANGED <<reset, member, hold, ended, file, told>>
        /\ op' = o /\ left' = n /\ flush' = f /\ pc' = "begin" /\ after' = "idle"
        /\ zeros' = zeros \cup pos..(pos + skip - 1) /\ zclear' = -1 /\ zn' = 0
    BY DEF Start, bufVars, defVars
  <1>3. ControlIs("begin", "idle", o, err, 0, skip, size)
    BY <1>1, WriteNow, Numbers DEF ControlIs, WritePlaces
  <1>4. BufferedIs("begin", "idle", err, inp, noff, rest, size, nout)
    BY <1>1, WriteNow DEF BufferedIs
  <1>5. CallIs(size, n, f, ended, -1, 0)
    BY <1>1, WriteNow, Numbers DEF CallIs
  <1>6. SeenIs(file, zeros \cup pos..(pos + skip - 1), told)
    BY <1>1, WriteNow, Numbers, SMTT(30) DEF SeenIs
  <1>7. WriteResult
    <2>1. ControlIs(pc', after', op', err', zn', skip', size')
      BY <1>2, <1>3
    <2>2. BufferedIs(pc', after', err', inp', noff', rest', size', nout')
      BY <1>2, <1>4
    <2>3. CallIs(size', left', flush', ended', zclear', zn') /\ SeenIs(file', zeros', told')
      BY <1>2, <1>5, <1>6
    <2>4. mode' = "write" /\ want' = want /\ size' = size /\ direct' = direct /\ pos' \in Nat /\ skip' \in Nat
      BY <1>1, <1>2, Numbers
    <2>5. QED
      BY <1>1, <1>2, <2>1, <2>2, <2>3, <2>4, SameIs DEF WriteResult
  <1>8. QED
    BY <1>1, <1>7, WriteResultIs

\* gzseek
LEMMA WriteSeekStep ==
    ASSUME IInv, UNCHANGED readVars, WriteSeek
    PROVE  IInv'
  <1>1. mode = "write" /\ pc = "idle"
    BY DEF WriteSeek
  <1>2. /\ UNCHANGED <<mode, size, want, direct, pos, err, pc, inp, noff, rest, outp, nout>>
        /\ UNCHANGED <<reset, member, hold, op, left, flush, after, ended, zclear, zn, file, zeros, told>>
    BY DEF WriteSeek, writeVars, bufVars, defVars, callVars, seenVars
  <1>3. skip' \in Nat
    <2>1. PICK t \in Targets, cur \in BOOLEAN :
            skip' = (IF t >= pos THEN t - pos ELSE IF cur THEN 0 ELSE skip)
      BY DEF WriteSeek
    <2>2. t \in Int /\ pos \in Nat /\ skip \in Nat
      BY GzAssumption, Numbers
    <2>3. QED
      BY <2>1, <2>2
  <1>4. ControlIs(pc, after, op, err, zn, skip', size)
    BY <1>1, WriteNow DEF ControlIs, WritePlaces
  <1>5. WriteResult
    <2>1. ControlIs(pc', after', op', err', zn', skip', size')
      BY <1>2, <1>4
    <2>2. BufferedIs(pc', after', err', inp', noff', rest', size', nout')
      BY <1>1, <1>2, WriteNow
    <2>3. CallIs(size', left', flush', ended', zclear', zn') /\ SeenIs(file', zeros', told')
      BY <1>1, <1>2, WriteNow
    <2>4. mode' = "write" /\ want' = want /\ size' = size /\ direct' = direct /\ pos' \in Nat
      BY <1>1, <1>2, Numbers
    <2>5. QED
      BY <1>1, <1>2, <1>3, <2>1, <2>2, <2>3, <2>4, SameIs DEF WriteResult
  <1>6. QED
    BY <1>1, <1>5, WriteResultIs

\* gz_write_init
LEMMA WriteAllocIs ==
    ASSUME IInv, mode = "write", size = 0, pc \in WritePlaces, WriteAlloc,
           UNCHANGED <<want, skip, inp, noff, rest, outp, nout, op, left, flush, ended, zn>>,
           zclear' = zclear, told \in BOOLEAN
    PROVE  /\ size' = size \/ size' = want
           /\ InputIs(size', inp', noff') /\ OutputIs(size', outp', nout')
           /\ CallIs(size', left', flush', ended', zclear', zn') /\ told' \in BOOLEAN
           /\ ControlIs(pc', after', op', err', zn', skip', size')
           /\ BufferedIs(pc', after', err', inp', noff', rest', size', nout')
  <1>1. \/ size' = want /\ UNCHANGED <<err, told, pc, after>>
        \/ size' = size /\ Fail
    BY DEF WriteAlloc, Alloc
  <1>2. CASE size' = want /\ UNCHANGED <<err, told, pc, after>>
    BY <1>2, GrownIs
  <1>3. CASE size' = size /\ Fail
    <2>1. /\ err' = "fatal" /\ told' = TRUE
          /\ ControlIs(pc', after', op', err', zn', skip', size')
          /\ BufferedIs(pc', after', err', inp', noff', rest', size', nout')
      BY <1>3, FailIs
    <2>2. /\ InputIs(size', inp', noff') /\ OutputIs(size', outp', nout')
          /\ CallIs(size', left', flush', ended', zclear', zn')
      BY <1>3, WriteNow
    <2>3. QED
      BY <1>3, <2>1, <2>2
  <1>4. QED
    BY <1>1, <1>2, <1>3

\* Before the body of a call
LEMMA BeginStep ==
    ASSUME IInv, UNCHANGED readVars, Begin
    PROVE  IInv'
  <1>1. mode = "write" /\ pc = "begin" /\ pc \in WritePlaces
    BY DEF Begin, IInv, Placed, WritePlaces
  <1>2. /\ UNCHANGED <<mode, want, direct, pos, skip, inp, noff, rest, outp, nout>>
        /\ UNCHANGED <<reset, member, hold, op, left, flush, ended, zclear, zn, file, zeros>>
    BY DEF Begin, bufVars, defVars
  <1>3. rest' \in Seq(Int) /\ DeflaterIs(reset', member', hold')
    BY <1>1, <1>2, WriteNow
  <1>4. told \in BOOLEAN /\ SeenIs(file, zeros, told)
    BY <1>1, WriteNow DEF SeenIs
  <1>5. mode' = "write" /\ want' = want /\ direct' = direct /\ pos' \in Nat /\ skip' \in Nat
    BY <1>1, <1>2, Numbers
  <1>6. CASE op \in {"write", "printf"} /\ size = 0
    <2>1. WriteAlloc
      BY <1>6 DEF Begin
    <2>2. /\ size' = size \/ size' = want
          /\ InputIs(size', inp', noff') /\ OutputIs(size', outp', nout')
          /\ CallIs(size', left', flush', ended', zclear', zn') /\ told' \in BOOLEAN
          /\ ControlIs(pc', after', op', err', zn', skip', size')
          /\ BufferedIs(pc', after', err', inp', noff', rest', size', nout')
      BY <1>1, <1>2, <1>4, <1>6, <2>1, WriteAllocIs
    <2>3. SeenIs(file', zeros', told')
      BY <1>2, <1>4, <2>2 DEF SeenIs
    <2>4. WriteResult
      BY <1>3, <1>5, <1>6, <2>2, <2>3, Zenon DEF WriteResult
    <2>5. QED
      BY <1>1, <2>4, WriteResultIs
  <1>7. CASE ~(op \in {"write", "printf"} /\ size = 0)
    <2> DEFINE place == IF skip = 0 THEN "body" ELSE IF inp # <<>> THEN "comp" ELSE "zero"
               back == IF skip = 0 THEN after ELSE "zero"
    <2>1. pc' = place /\ after' = back /\ UNCHANGED <<size, err, told>>
      BY <1>7 DEF Begin
    <2>2. place \in {"body", "comp", "zero"} /\ (place = "zero" => inp = <<>>)
          /\ (place = "comp" => back = "zero") /\ back \in {after, "zero"}
      OBVIOUS
    <2> HIDE DEF place, back
    <2>3. ControlIs(place, back, op, err, zn, skip, size)
      BY <1>1, <1>7, <2>2, WriteNow, Numbers DEF ControlIs, WritePlaces
    <2>4. BufferedIs(place, back, err, inp, noff, rest, size, nout)
      BY <1>1, <2>2, WriteNow DEF BufferedIs
    <2>5. ControlIs(pc', after', op', err', zn', skip', size')
      BY <1>2, <2>1, <2>3
    <2>6. BufferedIs(pc', after', err', inp', noff', rest', size', nout')
      BY <1>2, <2>1, <2>4
    <2>7. InputIs(size', inp', noff') /\ OutputIs(size', outp', nout')
          /\ CallIs(size', left', flush', ended', zclear', zn') /\ SeenIs(file', zeros', told')
      BY <1>1, <1>2, <2>1, WriteNow
    <2>8. size' = size
      BY <2>1
    <2>9. WriteResult
      BY <1>3, <1>5, <2>5, <2>6, <2>7, <2>8, Zenon DEF WriteResult
    <2>10. QED
      BY <1>1, <2>9, WriteResultIs
  <1>8. QED
    BY <1>6, <1>7

\* One round of gz_zero
LEMMA ZeroRoundStep ==
    ASSUME IInv, UNCHANGED readVars, ZeroRound
    PROVE  IInv'
  <1>1. mode = "write" /\ pc = "zero" /\ pc \in WritePlaces \ {"begin"}
    BY DEF ZeroRound, IInv, Placed, WritePlaces
  <1> DEFINE n == Lesser(size, skip)
             cleared == IF zclear = -1 THEN n ELSE zclear
             z == [i \in 1..n |-> IF i <= cleared THEN Zero ELSE Junk]
  <1>2. /\ UNCHANGED <<mode, size, want, direct, skip, err, rest, outp, nout>>
        /\ UNCHANGED <<reset, member, hold, op, left, flush, ended, file, zeros, told>>
        /\ zclear' = cleared /\ zn' = n /\ inp' = z /\ noff' = 0 /\ pos' = pos + n
        /\ pc' = "comp" /\ after' = "zeroed"
    BY DEF ZeroRound, defVars, seenVars
  <1>3. n \in Nat /\ n <= size /\ n <= skip
    BY Numbers, LesserIs
  <1>4. cleared \in -1..size
    <2>1. zclear \in Int /\ zclear >= -1 /\ zclear <= size /\ size \in Nat
      BY <1>1, WriteNumbers, Numbers
    <2>2. CASE zclear = -1
      BY <1>3, <2>1, <2>2
    <2>3. CASE zclear # -1
      BY <2>1, <2>3
    <2>4. QED
      BY <2>2, <2>3
  <1>5. z \in Seq(Int) /\ Len(z) = n
    BY <1>3 DEF Zero, Junk
  <1> HIDE DEF n, cleared, z
  <1>6. InputIs(size, z, 0)
    BY <1>3, <1>5, Numbers DEF InputIs
  <1>7. CallIs(size, left, flush, ended, cleared, n)
    BY <1>1, <1>3, <1>4, WriteNow, Numbers DEF CallIs
  <1>8. ControlIs("comp", "zeroed", op, err, n, skip, size)
    BY <1>1, <1>3, WriteNow DEF ControlIs, WritePlaces
  <1>9. BufferedIs("comp", "zeroed", err, z, 0, rest, size, nout)
    BY DEF BufferedIs
  <1>10. pos + n \in Nat
    BY <1>3, Numbers
  <1>11. WriteResult
    <2>1. InputIs(size', inp', noff') /\ CallIs(size', left', flush', ended', zclear', zn')
      BY <1>2, <1>6, <1>7
    <2>2. ControlIs(pc', after', op', err', zn', skip', size')
      BY <1>2, <1>8
    <2>3. BufferedIs(pc', after', err', inp', noff', rest', size', nout')
      BY <1>2, <1>9
    <2>4. /\ rest' \in Seq(Int) /\ OutputIs(size', outp', nout')
          /\ DeflaterIs(reset', member', hold') /\ SeenIs(file', zeros', told')
      BY <1>1, <1>2, WriteNow
    <2>5. mode' = "write" /\ want' = want /\ size' = size /\ direct' = direct /\ pos' \in Nat /\ skip' \in Nat
      BY <1>1, <1>2, <1>10, Numbers
    <2>6. QED
      BY <2>1, <2>2, <2>3, <2>4, <2>5, Zenon DEF WriteResult
  <1>12. QED
    BY <1>1, <1>11, WriteResultIs

LEMMA ZeroDoneStep ==
    ASSUME IInv, UNCHANGED readVars, ZeroDone
    PROVE  IInv'
  <1>1. mode = "write" /\ pc = "zeroed" /\ pc \in WritePlaces \ {"begin"}
    BY DEF ZeroDone, IInv, Placed, WritePlaces
  <1>2. /\ UNCHANGED <<mode, size, want, direct, pos, err, inp, noff, rest, outp, nout>>
        /\ UNCHANGED <<reset, member, hold, op, left, flush, after, ended, file, zeros, told>>
        /\ skip' = skip - zn /\ zn' = 0 /\ pc' \in {"zero", "body"} /\ zclear' \in {zclear, -1}
    BY DEF ZeroDone, bufVars, defVars, seenVars
  <1> DEFINE less == skip - zn
  <1>3. less \in Nat
    <2>1. zn <= skip
      BY <1>1, WriteNow DEF ControlIs
    <2>2. zn \in Nat /\ skip \in Nat
      BY <1>1, WriteNumbers, Numbers
    <2>3. QED
      BY <2>1, <2>2
  <1>4. inp = <<>>
    BY <1>1, WriteNow DEF BufferedIs
  <1> HIDE DEF less
  <1>5. ASSUME NEW p \in {"zero", "body"}
        PROVE  /\ ControlIs(p, after, op, err, 0, less, size)
               /\ BufferedIs(p, after, err, inp, noff, rest, size, nout)
    <2>1. ControlIs(p, after, op, err, 0, less, size)
      BY <1>1, <1>3, WriteNow DEF ControlIs, WritePlaces
    <2>2. BufferedIs(p, after, err, inp, noff, rest, size, nout)
      BY <1>4 DEF BufferedIs
    <2>3. QED
      BY <2>1, <2>2
  <1>6. ASSUME NEW c \in {zclear, -1} PROVE CallIs(size, left, flush, ended, c, 0)
    <2>1. zclear \in Int /\ zclear >= -1 /\ zclear <= size /\ size \in Nat
      BY <1>1, WriteNumbers, Numbers
    <2>2. c \in -1..size /\ 0 \in 0..size
      BY <2>1
    <2>3. CallIs(size, left, flush, ended, zclear, zn)
      BY <1>1, WriteNow
    <2>4. QED
      BY <2>2, <2>3, Zenon DEF CallIs
  <1>7. WriteResult
    <2>1. ControlIs(pc', after', op', err', zn', skip', size')
      BY <1>2, <1>5 DEF less
    <2>2. BufferedIs(pc', after', err', inp', noff', rest', size', nout')
      BY <1>2, <1>5
    <2>3. CallIs(size', left', flush', ended', zclear', zn') /\ SeenIs(file', zeros', told')
      BY <1>1, <1>2, <1>6, WriteNow
    <2>4. mode' = "write" /\ want' = want /\ size' = size /\ direct' = direct /\ pos' \in Nat /\ skip' \in Nat
      BY <1>1, <1>2, <1>3, Numbers DEF less
    <2>5. QED
      BY <1>1, <1>2, <2>1, <2>2, <2>3, <2>4, SameIs DEF WriteResult
  <1>8. QED
    BY <1>1, <1>7, WriteResultIs

-----------------------------------------------------------------------------
(* The bodies of the calls.                                                *)

(* What every body leaves alone, and what is left to be shown of each.     *)
LEMMA BodyIs ==
    ASSUME IInv, UNCHANGED readVars, Body,
           pos' \in Nat, left' \in Nat, rest' \in Seq(Int), InputIs(size, inp', noff'),
           ControlIs(pc', after', op', err, zn, skip, size),
           BufferedIs(pc', after', err, inp', noff', rest', size, nout)
    PROVE  IInv'
  <1>1. mode = "write"
    BY DEF Body, IInv, Placed, WritePlaces, ReadPlaces
  <1>2. /\ UNCHANGED <<mode, size, want, direct, skip, err, outp, nout, reset, member, hold>>
        /\ UNCHANGED <<flush, ended, zclear, zn, file, zeros, told>>
    BY DEF Body, seenVars
  <1>3. CallIs(size, left', flush, ended, zclear, zn)
    BY <1>1, WriteNow DEF CallIs
  <1>4. CallIs(size', left', flush', ended', zclear', zn')
    BY <1>2, <1>3
  <1>5. InputIs(size', inp', noff') /\ ControlIs(pc', after', op', err', zn', skip', size')
        /\ BufferedIs(pc', after', err', inp', noff', rest', size', nout')
    BY <1>2
  <1>6. OutputIs(size', outp', nout') /\ DeflaterIs(reset', member', hold') /\ SeenIs(file', zeros', told')
    BY <1>1, <1>2, WriteNow
  <1>7. mode' = "write" /\ want' = want /\ size' = size /\ direct' = direct /\ skip' \in Nat
    BY <1>1, <1>2, Numbers
  <1>8. WriteResult
    BY <1>4, <1>5, <1>6, <1>7, Zenon DEF WriteResult
  <1>9. QED
    BY <1>1, <1>8, WriteResultIs

\* Where a body starts: the buffered input starts the buffer and leaves half of it.
LEMMA BodyStart ==
    ASSUME IInv, Body
    PROVE  /\ mode = "write" /\ pc = "body" /\ pc \in WritePlaces \ {"begin"} /\ zn <= skip
           /\ op \in {"none", "write", "putc", "printf", "flush", "params", "close"}
           /\ err \in {"ok", "fatal"} /\ (err = "fatal" => op = "close")
           /\ op \in {"write", "printf"} => size > 0
           /\ op # "close" /\ inp # <<>> => noff = 0 /\ Len(inp) <= size
           /\ op # "close" => FillAt = Len(inp)
           /\ after \in {"idle", "body", "zero", "zeroed", "moved", "params", "flushed", "closed"}
           /\ BufferedIs("body", after, err, inp, noff, rest, size, nout)
  <1>1. mode = "write" /\ pc = "body" /\ pc \in WritePlaces \ {"begin"}
    BY DEF Body, IInv, Placed, WritePlaces, ReadPlaces
  <1>2. /\ zn <= skip
        /\ op \in {"none", "write", "putc", "printf", "flush", "params", "close"}
        /\ err \in {"ok", "fatal"} /\ (err = "fatal" => op = "close")
        /\ op \in {"write", "printf"} => size > 0
        /\ after \in {"idle", "body", "zero", "zeroed", "moved", "params", "flushed", "closed"}
    BY <1>1, WriteNow DEF ControlIs
  <1>3. op # "close" /\ inp # <<>> => noff = 0 /\ Len(inp) <= size
    BY <1>1, <1>2, WriteNow DEF BufferedIs
  <1>4. op # "close" => FillAt = Len(inp)
    <2>1. CASE inp = <<>>
      BY <2>1 DEF FillAt
    <2>2. CASE inp # <<>>
      BY <1>1, <1>3, <2>2, WriteNumbers DEF FillAt
    <2>3. QED
      BY <2>1, <2>2
  <1>5. BufferedIs("body", after, err, inp, noff, rest, size, nout)
    BY <1>1, WriteNow
  <1>6. QED
    BY <1>1, <1>2, <1>3, <1>4, <1>5

\* Bytes copied behind the buffered input, up to half of the buffer
LEMMA FillIs ==
    ASSUME IInv, Body, op # "close", NEW n \in Nat, Len(inp) + n <= size, Fill(n)
    PROVE  /\ pos' \in Nat /\ InputIs(size, inp', noff') /\ noff' = 0 /\ Len(inp') <= size
           /\ inp' \in Seq(Int)
  <1> DEFINE d == Data(pos, n)
             i == inp \o d
  <1>1. inp' = i /\ noff' = (IF inp = <<>> THEN 0 ELSE noff) /\ pos' = pos + n
    BY DEF Fill
  <1>2. noff' = 0
    BY <1>1, BodyStart
  <1>3. d \in Seq(Int) /\ Len(d) = n
    BY Numbers, DataIs
  <1>4. inp \in Seq(Int) /\ Len(inp) \in Nat
    BY BodyStart, WriteNumbers
  <1> HIDE DEF d
  <1>5. i \in Seq(Int) /\ Len(i) = Len(inp) + n
    BY <1>3, <1>4, JoinIs
  <1> HIDE DEF i
  <1>6. InputIs(size, i, 0) /\ Len(i) <= size
    BY <1>4, <1>5, Numbers DEF InputIs
  <1>7. pos + n \in Nat
    BY Numbers
  <1>8. QED
    BY <1>1, <1>2, <1>5, <1>6, <1>7

\* The call goes on with gz_comp, and returns to a.
LEMMA CallCompIs ==
    ASSUME IInv, Body, op' \in {op, "write"}, op' = "write" => size > 0,
           NEW a \in {"idle", "body", "moved", "params", "flushed", "closed"}, CallComp(a),
           a = "moved" => Len(rest') <= size, err = "fatal" => op' = "close"
    PROVE  /\ ControlIs(pc', after', op', err, zn, skip, size)
           /\ BufferedIs(pc', after', err, inp', noff', rest', size, nout)
  <1>1. pc' = "comp" /\ after' = a
    BY DEF CallComp
  <1>2. op' \in {"none", "write", "putc", "printf", "flush", "params", "close"}
    BY BodyStart
  <1>3. op' \in {"write", "printf"} => size > 0
    BY BodyStart
  <1>4. ControlIs(pc', after', op', err, zn, skip, size)
    BY <1>1, <1>2, <1>3, BodyStart DEF ControlIs, WritePlaces
  <1>5. BufferedIs(pc', after', err, inp', noff', rest', size, nout)
    BY <1>1 DEF BufferedIs
  <1>6. QED
    BY <1>4, <1>5

\* The call returns.
LEMMA ReturnIs ==
    ASSUME IInv, Body, op' = op, Return,
           err = "ok" /\ inp' # <<>> => noff' = 0 /\ Len(inp') <= size
    PROVE  /\ ControlIs(pc', after', op', err, zn, skip, size)
           /\ BufferedIs(pc', after', err, inp', noff', rest', size, nout)
  <1>1. pc' = "idle" /\ after' = after
    BY DEF Return
  <1>2. ControlIs(pc', after', op', err, zn, skip, size)
    BY <1>1, BodyStart DEF ControlIs, WritePlaces
  <1>3. BufferedIs(pc', after', err, inp', noff', rest', size, nout)
    BY <1>1 DEF BufferedIs
  <1>4. QED
    BY <1>2, <1>3

LEMMA WriteSmallStep ==
    ASSUME IInv, UNCHANGED readVars, Body, WriteSmall
    PROVE  IInv'
  <1> DEFINE copy == Lesser(Room, left)
             more == left - copy
  <1>1. /\ op = "write" /\ left < size /\ Fill(copy) /\ left' = more /\ rest' = rest /\ op' = op
        /\ IF left' > 0 THEN CallComp("body") ELSE Return
    BY DEF WriteSmall
  <1>2. Len(inp) \in Nat /\ left \in Nat /\ size \in Nat /\ rest \in Seq(Int)
    BY BodyStart, WriteNumbers, Numbers
  <1>3. Len(inp) <= size /\ Room = size - Len(inp)
    <2>1. FillAt = Len(inp)
      BY <1>1, BodyStart
    <2>2. CASE inp = <<>>
      BY <1>2, <2>1, <2>2 DEF Room
    <2>3. CASE inp # <<>>
      BY <1>1, <2>1, <2>3, BodyStart DEF Room
    <2>4. QED
      BY <2>2, <2>3
  <1>4. copy \in Nat /\ Len(inp) + copy <= size /\ more \in Nat
    <2>1. Room \in Nat
      BY <1>2, <1>3
    <2>2. copy \in {Room, left} /\ copy <= Room /\ copy <= left
      BY <1>2, <2>1, LesserIs
    <2> HIDE DEF copy
    <2>3. copy \in Nat
      BY <1>2, <2>1, <2>2
    <2>4. Len(inp) + copy <= size
      BY <1>2, <1>3, <2>2, <2>3
    <2>5. left - copy \in Nat
      BY <1>2, <2>2, <2>3
    <2>6. QED
      BY <2>3, <2>4, <2>5
  <1> HIDE DEF copy, more
  <1>5. /\ pos' \in Nat /\ InputIs(size, inp', noff') /\ noff' = 0 /\ Len(inp') <= size
    BY <1>1, <1>4, FillIs
  <1>6. /\ ControlIs(pc', after', op', err, zn, skip, size)
        /\ BufferedIs(pc', after', err, inp', noff', rest', size, nout)
    <2>1. CASE CallComp("body")
      BY <1>1, <2>1, BodyStart, CallCompIs
    <2>2. CASE Return
      BY <1>1, <1>5, <2>2, ReturnIs
    <2>3. QED
      BY <1>1, <2>1, <2>2
  <1>7. QED
    BY <1>1, <1>2, <1>4, <1>5, <1>6, BodyIs

LEMMA WriteLargeStep ==
    ASSUME IInv, UNCHANGED readVars, Body, WriteLarge
    PROVE  IInv'
  <1>1. op = "write" /\ rest' = rest /\ op' = op
    BY DEF WriteLarge
  <1>2. left \in Nat /\ rest \in Seq(Int) /\ mode = "write" /\ pos \in Nat
    BY BodyStart, WriteNumbers, Numbers
  <1>3. CASE inp # <<>>
    <2>1. CallComp("body") /\ UNCHANGED <<inp, noff, pos, left>>
      BY <1>3 DEF WriteLarge
    <2>2. /\ ControlIs(pc', after', op', err, zn, skip, size)
          /\ BufferedIs(pc', after', err, inp', noff', rest', size, nout)
      BY <1>1, <2>1, BodyStart, CallCompIs
    <2>3. InputIs(size, inp', noff')
      BY <1>2, <2>1, WriteNow
    <2>4. QED
      BY <1>1, <1>2, <2>1, <2>2, <2>3, BodyIs
  <1>4. CASE inp = <<>>
    <2>1. inp' = Data(pos, left) /\ noff' = -1 /\ pos' = pos + left /\ left' = 0 /\ CallComp("idle")
      BY <1>4 DEF WriteLarge
    <2>2. /\ ControlIs(pc', after', op', err, zn, skip, size)
          /\ BufferedIs(pc', after', err, inp', noff', rest', size, nout)
      BY <1>1, <2>1, BodyStart, CallCompIs
    <2>3. InputIs(size, Data(pos, left), -1)
      <3> DEFINE d == Data(pos, left)
      <3>1. d \in Seq(Int)
        BY <1>2, DataIs
      <3> HIDE DEF d
      <3>2. InputIs(size, d, -1)
        BY <3>1, Numbers DEF InputIs
      <3>3. QED
        BY <3>2 DEF d
    <2>4. InputIs(size, inp', noff')
      BY <2>1, <2>3
    <2>5. pos' \in Nat /\ left' \in Nat
      BY <1>2, <2>1
    <2>6. QED
      BY <1>1, <1>2, <2>2, <2>4, <2>5, BodyIs
  <1>5. QED
    BY <1>3, <1>4

LEMMA PutcBodyStep ==
    ASSUME IInv, UNCHANGED readVars, Body, PutcBody
    PROVE  IInv'
  <1>1. op = "putc" /\ rest' = rest
    BY DEF PutcBody
  <1>2. left \in Nat /\ rest \in Seq(Int) /\ mode = "write" /\ pos \in Nat /\ Len(inp) \in Nat /\ size \in Nat
    BY BodyStart, WriteNumbers, Numbers
  <1>3. CASE size > 0 /\ FillAt < size
    <2>1. Fill(1) /\ Return /\ left' = 0 /\ op' = op
      BY <1>3 DEF PutcBody
    <2>2. Len(inp) + 1 <= size
      BY <1>1, <1>2, <1>3, BodyStart
    <2>3. /\ pos' \in Nat /\ InputIs(size, inp', noff') /\ noff' = 0 /\ Len(inp') <= size
      BY <1>1, <2>1, <2>2, FillIs
    <2>4. /\ ControlIs(pc', after', op', err, zn, skip, size)
          /\ BufferedIs(pc', after', err, inp', noff', rest', size, nout)
      BY <2>1, <2>3, ReturnIs
    <2>5. QED
      BY <1>1, <1>2, <2>1, <2>3, <2>4, BodyIs
  <1>4. CASE ~(size > 0 /\ FillAt < size)
    <2>1. op' = "write" /\ left' = 1 /\ pc' = "begin" /\ UNCHANGED <<inp, noff, pos, after>>
      BY <1>4 DEF PutcBody
    <2>2. ControlIs("begin", after, "write", err, zn, skip, size)
      BY <1>1, BodyStart DEF ControlIs, WritePlaces
    <2>3. BufferedIs("begin", after, err, inp, noff, rest, size, nout)
      BY BodyStart DEF BufferedIs
    <2>4. /\ ControlIs(pc', after', op', err, zn, skip, size)
          /\ BufferedIs(pc', after', err, inp', noff', rest', size, nout)
      BY <1>1, <2>1, <2>2, <2>3
    <2>5. InputIs(size, inp', noff')
      BY <1>2, <2>1, WriteNow
    <2>6. QED
      BY <1>1, <1>2, <2>1, <2>4, <2>5, BodyIs
  <1>5. QED
    BY <1>3, <1>4

\* gzvprintf: what is formatted stays within twice the buffer size.
LEMMA PrintfBodyStep ==
    ASSUME IInv, UNCHANGED readVars, Body, PrintfBody
    PROVE  IInv'
  <1> DEFINE d == Data(pos, left)
             all == inp \o d
             at == IF inp = <<>> THEN 0 ELSE noff
             mem == [i \in 1..at |-> Junk] \o all
             more == Len(all) - size
  <1>1. /\ op = "printf" /\ left' = 0 /\ op' = op
        /\ CASE left >= size -> Return /\ UNCHANGED <<inp, noff, pos, rest>>
             [] left < size /\ more < 0 -> Fill(left) /\ Return /\ UNCHANGED rest
             [] OTHER -> /\ inp' = SubSeq(all, 1, size) /\ noff' = at /\ pos' = pos + left
                         /\ rest' = SubSeq(mem, size + 1, size + more)
                         /\ CallComp("moved")
    BY DEF PrintfBody
  <1>2. /\ left \in Nat /\ rest \in Seq(Int) /\ mode = "write" /\ pos \in Nat /\ inp \in Seq(Int)
        /\ Len(inp) \in Nat /\ size \in Nat /\ size > 0
    BY <1>1, BodyStart, WriteNumbers, Numbers
  <1>3. at = 0 /\ Len(inp) <= size
    BY <1>1, <1>2, BodyStart
  <1>4. d \in Seq(Int) /\ Len(d) = left
    BY <1>2, DataIs
  <1> HIDE DEF d
  <1>5. all \in Seq(Int) /\ Len(all) = Len(inp) + left
    BY <1>2, <1>4, JoinIs
  <1> HIDE DEF all, at
  <1>6. mem \in Seq(Int) /\ Len(mem) = Len(all)
    <2>1. [i \in 1..at |-> Junk] = <<>>
      BY <1>3
    <2>2. mem = all
      BY <1>5, <2>1, ConcatEmptySeq
    <2>3. QED
      BY <1>5, <2>2
  <1> HIDE DEF mem, more
  <1>7. CASE left >= size
    <2>1. Return /\ UNCHANGED <<inp, noff, pos, rest>>
      BY <1>1, <1>2, <1>7
    <2>2. /\ ControlIs(pc', after', op', err, zn, skip, size)
          /\ BufferedIs(pc', after', err, inp', noff', rest', size, nout)
      BY <1>1, <2>1, BodyStart, ReturnIs
    <2>3. InputIs(size, inp', noff')
      BY <1>2, <2>1, WriteNow
    <2>4. QED
      BY <1>1, <1>2, <2>1, <2>2, <2>3, BodyIs
  <1>8. CASE left < size /\ more < 0
    <2>1. Fill(left) /\ Return /\ rest' = rest
      BY <1>1, <1>2, <1>8
    <2>2. Len(inp) + left <= size
      BY <1>2, <1>5, <1>8 DEF more
    <2>3. /\ pos' \in Nat /\ InputIs(size, inp', noff') /\ noff' = 0 /\ Len(inp') <= size
      BY <1>1, <1>2, <2>1, <2>2, FillIs
    <2>4. /\ ControlIs(pc', after', op', err, zn, skip, size)
          /\ BufferedIs(pc', after', err, inp', noff', rest', size, nout)
      BY <1>1, <2>1, <2>3, ReturnIs
    <2>5. QED
      BY <1>1, <1>2, <2>1, <2>3, <2>4, BodyIs
  <1>9. CASE left < size /\ ~(more < 0)
    <2>1. /\ inp' = SubSeq(all, 1, size) /\ noff' = at /\ pos' = pos + left
          /\ rest' = SubSeq(mem, size + 1, size + more) /\ CallComp("moved")
      BY <1>1, <1>2, <1>9
    <2>2. more = Len(inp) + left - size /\ more \in Nat /\ more <= size
      <3>1. more = Len(inp) + left - size
        BY <1>2, <1>5 DEF more
      <3>2. QED
        BY <1>2, <1>3, <1>9, <3>1
    <2>3. size \in 0..Len(all) /\ size + more = Len(mem)
      BY <1>2, <1>5, <1>6, <2>2
    <2>4. SubSeq(all, 1, size) \in Seq(Int) /\ Len(SubSeq(all, 1, size)) = size
      BY <1>5, <2>3, FrontIs
    <2>5. SubSeq(mem, size + 1, Len(mem)) \in Seq(Int) /\ Len(SubSeq(mem, size + 1, Len(mem))) = Len(mem) - size
      BY <1>6, <2>3, RestIs
    <2>6. rest' \in Seq(Int) /\ Len(rest') <= size
      <3>1. rest' = SubSeq(mem, size + 1, Len(mem))
        BY <2>1, <2>3
      <3>2. Len(mem) - size <= size
        BY <1>2, <2>2, <2>3
      <3>3. QED
        BY <2>5, <3>1, <3>2
    <2>7. InputIs(size, SubSeq(all, 1, size), 0)
      BY <1>2, <2>4 DEF InputIs
    <2>8. InputIs(size, inp', noff')
      BY <1>3, <2>1, <2>7
    <2>9. /\ ControlIs(pc', after', op', err, zn, skip, size)
          /\ BufferedIs(pc', after', err, inp', noff', rest', size, nout)
      BY <1>1, <2>1, <2>6, BodyStart, CallCompIs
    <2>10. pos' \in Nat /\ left' \in Nat
      BY <1>1, <1>2, <2>1
    <2>11. QED
      BY <2>6, <2>8, <2>9, <2>10, BodyIs
  <1>10. QED
    BY <1>2, <1>7, <1>8, <1>9

LEMMA FlushBodyStep ==
    ASSUME IInv, UNCHANGED readVars, Body, FlushBody
    PROVE  IInv'
  <1>1. /\ op \in {"flush", "close"} /\ UNCHANGED <<inp, noff, pos, left, rest, op>>
        /\ CallComp("closed") \/ CallComp("flushed")
    BY DEF FlushBody
  <1>2. left \in Nat /\ rest \in Seq(Int) /\ mode = "write" /\ pos \in Nat
    BY BodyStart, WriteNumbers, Numbers
  <1>3. /\ ControlIs(pc', after', op', err, zn, skip, size)
        /\ BufferedIs(pc', after', err, inp', noff', rest', size, nout)
    BY <1>1, BodyStart, CallCompIs
  <1>4. InputIs(size, inp', noff')
    BY <1>1, <1>2, WriteNow
  <1>5. QED
    BY <1>1, <1>2, <1>3, <1>4, BodyIs

LEMMA ParamsBodyStep ==
    ASSUME IInv, UNCHANGED readVars, Body, ParamsBody
    PROVE  IInv'
  <1>1. /\ op = "params" /\ UNCHANGED <<inp, noff, pos, left, rest, op>>
        /\ CallComp("params") \/ (pc' = "params" /\ after' = after)
    BY DEF ParamsBody
  <1>2. left \in Nat /\ rest \in Seq(Int) /\ mode = "write" /\ pos \in Nat
    BY BodyStart, WriteNumbers, Numbers
  <1>3. /\ ControlIs(pc', after', op', err, zn, skip, size)
        /\ BufferedIs(pc', after', err, inp', noff', rest', size, nout)
    <2>1. CASE CallComp("params")
      BY <1>1, <2>1, BodyStart, CallCompIs
    <2>2. CASE pc' = "params" /\ after' = after
      <3>1. ControlIs("params", after, op, err, zn, skip, size)
        BY <1>1, BodyStart DEF ControlIs, WritePlaces
      <3>2. BufferedIs("params", after, err, inp, noff, rest, size, nout)
        BY BodyStart DEF BufferedIs
      <3>3. QED
        BY <1>1, <2>2, <3>1, <3>2
    <2>3. QED
      BY <1>1, <2>1, <2>2
  <1>4. InputIs(size, inp', noff')
    BY <1>1, <1>2, WriteNow
  <1>5. QED
    BY <1>1, <1>2, <1>3, <1>4, BodyIs

LEMMA BodyStep ==
    ASSUME IInv, UNCHANGED readVars, Body
    PROVE  IInv'
  BY WriteSmallStep, WriteLargeStep, PutcBodyStep, PrintfBodyStep, FlushBodyStep, ParamsBodyStep DEF Body

-----------------------------------------------------------------------------
(* What a call does after its body.                                        *)

\* gzvprintf moves down what it formatted behind the first half.
LEMMA MovedStep ==
    ASSUME IInv, UNCHANGED readVars, Moved
    PROVE  IInv'
  <1>1. mode = "write" /\ pc = "moved" /\ pc \in WritePlaces \ {"begin"}
    BY DEF Moved, IInv, Placed, WritePlaces
  <1>2. /\ UNCHANGED <<mode, size, want, direct, pos, skip, err, outp, nout, reset, member, hold>>
        /\ UNCHANGED <<op, left, flush, after, ended, zclear, zn, file, zeros, told>>
        /\ inp' = rest /\ noff' = 0 /\ rest' = <<>> /\ pc' = "idle"
    BY DEF Moved, defVars, callVars, seenVars
  <1>3. rest \in Seq(Int) /\ Len(rest) \in Nat /\ Len(rest) <= size
    BY <1>1, WriteNow, WriteNumbers DEF BufferedIs
  <1>4. InputIs(size, rest, 0)
    BY <1>3, Numbers DEF InputIs
  <1>5. ControlIs("idle", after, op, err, zn, skip, size)
    BY <1>1, WriteNow DEF ControlIs, WritePlaces
  <1>6. BufferedIs("idle", after, err, rest, 0, <<>>, size, nout)
    BY <1>3 DEF BufferedIs
  <1>7. WriteResult
    <2>1. /\ ControlIs(pc', after', op', err', zn', skip', size')
          /\ BufferedIs(pc', after', err', inp', noff', rest', size', nout')
          /\ InputIs(size', inp', noff')
      BY <1>2, <1>4, <1>5, <1>6
    <2>2. rest' \in Seq(Int)
      BY <1>2
    <2>3. /\ OutputIs(size', outp', nout') /\ DeflaterIs(reset', member', hold')
          /\ CallIs(size', left', flush', ended', zclear', zn') /\ SeenIs(file', zeros', told')
      BY <1>1, <1>2, WriteNow
    <2>4. mode' = "write" /\ want' = want /\ size' = size /\ direct' = direct /\ pos' \in Nat /\ skip' \in Nat
      BY <1>1, <1>2, Numbers
    <2>5. QED
      BY <2>1, <2>2, <2>3, <2>4, Zenon DEF WriteResult
  <1>8. QED
    BY <1>1, <1>7, WriteResultIs

\* deflateParams outputs into the room there is.
LEMMA ParamsStep ==
    ASSUME IInv, UNCHANGED readVars, Params
    PROVE  IInv'
  <1>1. mode = "write" /\ pc = "params" /\ pc \in WritePlaces \ {"begin"}
    BY DEF Params, IInv, Placed, WritePlaces
  <1>2. /\ UNCHANGED <<mode, size, want, direct, pos, skip, err, inp, noff, rest, reset, member>>
        /\ UNCHANGED <<op, left, flush, after, ended, zclear, zn, file, zeros, told>>
        /\ pc' = "idle"
    BY DEF Params, callVars, seenVars
  <1>3. PICK e \in 0..Len(hold) :
          /\ IF size > 0 /\ member = "busy" THEN e <= size - nout ELSE e = 0
          /\ outp' = outp \o SubSeq(hold, 1, e) /\ nout' = nout + e
          /\ hold' = SubSeq(hold, e + 1, Len(hold))
    BY DEF Params
  <1>4. /\ hold \in Seq(Int) /\ outp \in Seq(Int) /\ Len(outp) \in Nat /\ nout \in Nat
        /\ Len(outp) <= nout /\ nout <= size /\ size \in Nat /\ Len(hold) \in Nat
    BY <1>1, WriteNumbers, Numbers
  <1> DEFINE out == SubSeq(hold, 1, e)
             o == outp \o out
             n == nout + e
             h == SubSeq(hold, e + 1, Len(hold))
  <1>5. out \in Seq(Int) /\ Len(out) = e
    BY <1>4, FrontIs
  <1>6. h \in Seq(Int)
    BY <1>4, RestIs
  <1> HIDE DEF out
  <1>7. o \in Seq(Int) /\ Len(o) = Len(outp) + e
    BY <1>4, <1>5, JoinIs
  <1>8. OutputIs(size, o, n)
    <2> HIDE DEF o
    <2>1. n \in 0..size /\ Len(o) <= n
      BY <1>3, <1>4, <1>7
    <2>2. QED
      BY <1>7, <2>1 DEF OutputIs
  <1>9. outp' = o /\ nout' = n /\ hold' = h
    BY <1>3 DEF out
  <1> HIDE DEF o, n, h
  <1>10. ControlIs("idle", after, op, err, zn, skip, size)
    BY <1>1, WriteNow DEF ControlIs, WritePlaces
  <1>11. ASSUME NEW m PROVE BufferedIs("idle", after, err, inp, noff, rest, size, m)
    BY <1>1, WriteNow DEF BufferedIs
  <1>12. WriteResult
    <2>1. /\ ControlIs(pc', after', op', err', zn', skip', size')
          /\ BufferedIs(pc', after', err', inp', noff', rest', size', nout')
      BY <1>2, <1>10, <1>11
    <2>2. OutputIs(size', outp', nout')
      BY <1>2, <1>8, <1>9
    <2>3. DeflaterIs(reset', member', hold')
      <3>1. DeflaterIs(reset, member, h)
        BY <1>1, <1>6, WriteNow DEF DeflaterIs
      <3>2. QED
        BY <1>2, <1>9, <3>1
    <2>4. /\ InputIs(size', inp', noff') /\ rest' \in Seq(Int)
          /\ CallIs(size', left', flush', ended', zclear', zn') /\ SeenIs(file', zeros', told')
      BY <1>1, <1>2, WriteNow
    <2>5. mode' = "write" /\ want' = want /\ size' = size /\ direct' = direct /\ pos' \in Nat /\ skip' \in Nat
      BY <1>1, <1>2, Numbers
    <2>6. QED
      BY <2>1, <2>2, <2>3, <2>4, <2>5, Zenon DEF WriteResult
  <1>13. QED
    BY <1>1, <1>12, WriteResultIs

-----------------------------------------------------------------------------
(* gz_comp.                                                                *)

\* write() of part of the output: what reaches the file
LEMMA WrittenIs ==
    ASSUME IInv, mode = "write", NEW b \in Seq(Int), NEW n \in 0..Len(b), NEW t \in BOOLEAN
    PROVE  SeenIs(file \o SubSeq(b, 1, n), zeros, t)
  <1> DEFINE w == SubSeq(b, 1, n)
             f == file \o w
  <1>1. w \in Seq(Int)
    BY FrontIs
  <1>2. file \in Seq(Int)
    BY WriteNumbers
  <1> HIDE DEF w
  <1>3. f \in Seq(Int)
    BY <1>1, <1>2, JoinIs
  <1> HIDE DEF f
  <1>4. SeenIs(f, zeros, t)
    BY <1>3, WriteNow DEF SeenIs
  <1>5. QED
    BY <1>4 DEF f, w

LEMMA CompStep ==
    ASSUME IInv, UNCHANGED readVars, Comp
    PROVE  IInv'
  <1>1. mode = "write" /\ pc = "comp" /\ pc \in WritePlaces \ {"begin"}
    BY DEF Comp, IInv, Placed, WritePlaces
  <1>2. /\ UNCHANGED <<mode, want, direct, pos, skip, noff, rest, outp, nout>>
        /\ UNCHANGED <<op, left, flush, zclear, zn, zeros>> /\ ended' = FALSE
    BY DEF Comp
  <1>3. size \in Nat
    BY Numbers
  <1>4. told \in BOOLEAN /\ SeenIs(file, zeros, told)
    BY <1>1, WriteNow DEF SeenIs
  <1>5. mode' = "write" /\ want' = want /\ direct' = direct /\ pos' \in Nat /\ skip' \in Nat
    BY <1>1, <1>2, Numbers
  <1>6. rest' \in Seq(Int)
    BY <1>1, <1>2, WriteNow
  <1>7. \A sz : CallIs(sz, left, flush, ended, zclear, zn) => CallIs(sz, left, flush, FALSE, zclear, zn)
    BY DEF CallIs
  <1> DEFINE Small == size = 0
             Plainly == size > 0 /\ direct = 1
             Nothing == size > 0 /\ direct = 0 /\ reset /\ inp = <<>> /\ CompFlush = "none"
  <1>8. CASE Small
    <2>1. WriteAlloc /\ UNCHANGED <<inp, reset, member, hold, file>>
      BY <1>8 DEF Comp
    <2>2. \/ size' = want /\ UNCHANGED <<err, told, pc, after>>
          \/ size' = size /\ Fail
      BY <2>1 DEF WriteAlloc, Alloc
    <2>3. /\ size' = size \/ size' = want
          /\ InputIs(size', inp', noff') /\ OutputIs(size', outp', nout')
          /\ CallIs(size', left', flush', ended', zclear', zn') /\ told' \in BOOLEAN
          /\ ControlIs(pc', after', op', err', zn', skip', size')
          /\ BufferedIs(pc', after', err', inp', noff', rest', size', nout')
      <3>1. CASE size' = want /\ UNCHANGED <<err, told, pc, after>>
        BY <1>1, <1>2, <1>4, <1>7, <1>8, <2>1, <3>1, GrownIs
      <3>2. CASE size' = size /\ Fail
        <4>1. /\ err' = "fatal" /\ told' = TRUE
              /\ ControlIs(pc', after', op', err', zn', skip', size')
              /\ BufferedIs(pc', after', err', inp', noff', rest', size', nout')
          BY <1>1, <1>2, <3>2, FailIs
        <4>2. /\ InputIs(size', inp', noff') /\ OutputIs(size', outp', nout')
              /\ CallIs(size', left', flush', ended', zclear', zn')
          BY <1>1, <1>2, <1>7, <2>1, <3>2, WriteNow
        <4>3. QED
          BY <3>2, <4>1, <4>2
      <3>3. QED
        BY <2>2, <3>1, <3>2
    <2>4. SeenIs(file', zeros', told')
      BY <1>2, <1>4, <2>1, <2>3 DEF SeenIs
    <2>5. DeflaterIs(reset', member', hold')
      BY <1>1, <2>1, WriteNow
    <2>6. WriteResult
      BY <1>5, <1>6, <1>8, <2>3, <2>4, <2>5, Zenon DEF WriteResult
    <2>7. QED
      BY <1>1, <2>6, WriteResultIs
  <1>9. ASSUME size' = size,
               InputIs(size, inp', noff), DeflaterIs(reset', member', hold'), SeenIs(file', zeros, told'),
               ControlIs(pc', after', op', err', zn', skip', size'),
               BufferedIs(pc', after', err', inp', noff', rest', size', nout')
        PROVE  IInv'
    <2>1. InputIs(size', inp', noff') /\ SeenIs(file', zeros', told')
      BY <1>2, <1>9
    <2>2. CallIs(size', left', flush', ended', zclear', zn') /\ OutputIs(size', outp', nout')
      BY <1>1, <1>2, <1>7, <1>9, WriteNow
    <2>3. WriteResult
      BY <1>5, <1>6, <1>9, <2>1, <2>2, Zenon DEF WriteResult
    <2>4. QED
      BY <1>1, <2>3, WriteResultIs
  <1>10. CASE Plainly
    <2>1. UNCHANGED <<size, reset, member, hold>> /\ \E got1 \in 0..Len(inp) : Direct(got1)
      BY <1>3, <1>10 DEF Comp
    <2>2. PICK n \in 0..Len(inp) : Direct(n)
      BY <2>1
    <2>3. DeflaterIs(reset', member', hold')
      BY <1>1, <2>1, WriteNow
    <2>4. inp \in Seq(Int)
      BY <1>1, WriteNumbers
    <2>5. CASE n < Len(inp)
      <3>1. file' = file \o SubSeq(inp, 1, n) /\ Fail /\ inp' = inp
        BY <2>2, <2>5 DEF Direct
      <3>2. /\ told' = TRUE
            /\ ControlIs(pc', after', op', err', zn', skip', size')
            /\ BufferedIs(pc', after', err', inp', noff', rest', size', nout')
        BY <1>1, <1>2, <2>1, <3>1, FailIs
      <3>3. SeenIs(file', zeros, told')
        BY <1>1, <2>4, <3>1, <3>2, WrittenIs
      <3>4. InputIs(size, inp', noff)
        BY <1>1, <3>1, WriteNow
      <3>5. QED
        BY <1>9, <2>1, <2>3, <3>2, <3>3, <3>4
    <2>6. CASE ~(n < Len(inp))
      <3>1. /\ file' = file \o SubSeq(inp, 1, n) /\ inp' = <<>> /\ CompReturn
            /\ UNCHANGED <<err, told>>
        BY <2>2, <2>6 DEF Direct
      <3>2. /\ ControlIs(pc', after', op', err', zn', skip', size')
            /\ BufferedIs(pc', after', err', inp', noff', rest', size', nout')
        BY <1>1, <1>2, <2>1, <3>1, CompReturnIs
      <3>3. SeenIs(file', zeros, told')
        BY <1>1, <1>4, <2>4, <3>1, WrittenIs
      <3>4. InputIs(size, <<>>, noff)
        BY <1>1, <1>3, WriteNumbers DEF InputIs
      <3>5. QED
        BY <1>9, <2>1, <2>3, <3>1, <3>2, <3>3, <3>4
    <2>7. QED
      BY <2>5, <2>6
  <1>11. CASE Nothing
    <2>1. CompReturn /\ UNCHANGED <<size, err, told, inp, reset, member, hold, file>>
      BY <1>3, <1>11 DEF Comp
    <2>2. /\ ControlIs(pc', after', op', err', zn', skip', size')
          /\ BufferedIs(pc', after', err', inp', noff', rest', size', nout')
      BY <1>1, <1>2, <1>11, <2>1, CompReturnIs
    <2>3. InputIs(size, inp', noff) /\ DeflaterIs(reset', member', hold') /\ SeenIs(file', zeros, told')
      BY <1>1, <2>1, WriteNow
    <2>4. QED
      BY <1>9, <2>1, <2>2, <2>3
  <1>12. CASE ~Small /\ ~Plainly /\ ~Nothing
    <2>1. /\ reset' = FALSE /\ member' = (IF reset THEN "new" ELSE member)
          /\ hold' = (IF reset THEN <<>> ELSE hold)
          /\ pc' = "write" /\ UNCHANGED <<size, err, told, inp, file, after>>
      BY <1>12 DEF Comp
    <2>2. size > 0
      BY <1>3, <1>12
    <2>3. ControlIs("write", after, op, err, zn, skip, size)
      BY <1>1, <2>2, WriteNow DEF ControlIs, WritePlaces
    <2>4. BufferedIs("write", after, err, inp, noff, rest, size, nout)
      BY <1>1, WriteNow DEF BufferedIs
    <2>5. /\ ControlIs(pc', after', op', err', zn', skip', size')
          /\ BufferedIs(pc', after', err', inp', noff', rest', size', nout')
      BY <1>2, <2>1, <2>3, <2>4
    <2>6. DeflaterIs(reset', member', hold')
      <3>1. DeflaterIs(FALSE, IF reset THEN "new" ELSE member, IF reset THEN <<>> ELSE hold)
        BY <1>1, WriteNow DEF DeflaterIs
      <3>2. QED
        BY <2>1, <3>1
    <2>7. InputIs(size, inp', noff) /\ SeenIs(file', zeros, told')
      BY <1>1, <2>1, WriteNow
    <2>8. QED
      BY <1>9, <2>1, <2>5, <2>6, <2>7
  <1>13. QED
    BY <1>8, <1>10, <1>11, <1>12

\* Between gz_comp's rounds: the output buffer is written when it is full, or to flush.
LEMMA CompWriteStep ==
    ASSUME IInv, UNCHANGED readVars, CompWrite
    PROVE  IInv'
  <1>1. mode = "write" /\ pc = "write" /\ pc \in WritePlaces \ {"begin"}
    BY DEF CompWrite, IInv, Placed, WritePlaces
  <1>2. /\ UNCHANGED <<mode, size, want, direct, pos, skip, inp, noff, rest, reset, member, hold>>
        /\ UNCHANGED <<op, left, flush, ended, zclear, zn, zeros>>
    BY DEF CompWrite, defVars
  <1>3. /\ outp \in Seq(Int) /\ Len(outp) \in Nat /\ nout \in Nat /\ Len(outp) <= nout /\ nout <= size
        /\ size \in Nat /\ size > 0
    <2>1. size > 0
      BY <1>1, WriteNow DEF ControlIs
    <2>2. QED
      BY <1>1, <2>1, WriteNumbers, Numbers
  <1>4. told \in BOOLEAN /\ SeenIs(file, zeros, told)
    BY <1>1, WriteNow DEF SeenIs
  <1>5. ASSUME OutputIs(size, outp', nout'), SeenIs(file', zeros, told'),
               ControlIs(pc', after', op', err', zn', skip', size'),
               BufferedIs(pc', after', err', inp', noff', rest', size', nout')
        PROVE  IInv'
    <2>1. OutputIs(size', outp', nout') /\ SeenIs(file', zeros', told')
      BY <1>2, <1>5
    <2>2. /\ CallIs(size', left', flush', ended', zclear', zn') /\ InputIs(size', inp', noff')
          /\ rest' \in Seq(Int) /\ DeflaterIs(reset', member', hold')
      BY <1>1, <1>2, WriteNow
    <2>3. mode' = "write" /\ want' = want /\ size' = size /\ direct' = direct /\ pos' \in Nat /\ skip' \in Nat
      BY <1>1, <1>2, Numbers
    <2>4. WriteResult
      BY <1>5, <2>1, <2>2, <2>3, Zenon DEF WriteResult
    <2>5. QED
      BY <1>1, <2>4, WriteResultIs
  <1>6. ControlIs("deflate", after, op, err, zn, skip, size)
    BY <1>1, <1>3, WriteNow DEF ControlIs, WritePlaces
  <1>7. ASSUME NEW m \in Nat, m < size PROVE BufferedIs("deflate", after, err, inp, noff, rest, size, m)
    BY <1>1, <1>7, WriteNow DEF BufferedIs
  <1>8. CASE ~WriteOut
    <2>1. pc' = "deflate" /\ UNCHANGED <<outp, nout, file, err, told, after>>
      BY <1>8 DEF CompWrite
    <2>2. nout < size
      BY <1>3, <1>8 DEF WriteOut
    <2>3. BufferedIs("deflate", after, err, inp, noff, rest, size, nout)
      BY <1>3, <1>7, <2>2
    <2>4. /\ ControlIs(pc', after', op', err', zn', skip', size')
          /\ BufferedIs(pc', after', err', inp', noff', rest', size', nout')
      BY <1>2, <1>6, <2>1, <2>3
    <2>5. OutputIs(size, outp', nout') /\ SeenIs(file', zeros, told')
      BY <1>1, <2>1, WriteNow
    <2>6. QED
      BY <1>5, <2>4, <2>5
  <1>9. CASE WriteOut
    <2>1. PICK n \in 0..Len(outp) :
            /\ file' = file \o SubSeq(outp, 1, n)
            /\ IF Incomplete(n, Len(outp))
               THEN Fail /\ UNCHANGED <<outp, nout>>
               ELSE /\ outp' = <<>> /\ nout' = (IF nout = size THEN 0 ELSE nout)
                    /\ pc' = "deflate" /\ UNCHANGED <<err, told, after>>
      BY <1>9 DEF CompWrite
    <2>2. CASE Incomplete(n, Len(outp))
      <3>1. Fail /\ UNCHANGED <<outp, nout>>
        BY <2>1, <2>2
      <3>2. /\ told' = TRUE
            /\ ControlIs(pc', after', op', err', zn', skip', size')
            /\ BufferedIs(pc', after', err', inp', noff', rest', size', nout')
        BY <1>1, <1>2, <3>1, FailIs
      <3>3. SeenIs(file', zeros, told')
        BY <1>1, <1>3, <2>1, <3>2, WrittenIs
      <3>4. OutputIs(size, outp', nout')
        BY <1>1, <3>1, WriteNow
      <3>5. QED
        BY <1>5, <3>2, <3>3, <3>4
    <2>3. CASE ~Incomplete(n, Len(outp))
      <3> DEFINE m == IF nout = size THEN 0 ELSE nout
      <3>1. outp' = <<>> /\ nout' = m /\ pc' = "deflate" /\ UNCHANGED <<err, told, after>>
        BY <2>1, <2>3
      <3>2. m \in Nat /\ m < size
        BY <1>3
      <3> HIDE DEF m
      <3>3. BufferedIs("deflate", after, err, inp, noff, rest, size, m)
        BY <1>7, <3>2
      <3>4. /\ ControlIs(pc', after', op', err', zn', skip', size')
            /\ BufferedIs(pc', after', err', inp', noff', rest', size', nout')
        BY <1>2, <1>6, <3>1, <3>3
      <3>5. SeenIs(file', zeros, told')
        BY <1>1, <1>3, <1>4, <2>1, <3>1, WrittenIs
      <3>6. OutputIs(size, <<>>, m)
        BY <1>3, <3>2 DEF OutputIs
      <3>7. QED
        BY <1>5, <3>1, <3>4, <3>5, <3>6
    <2>4. QED
      BY <2>2, <2>3
  <1>10. QED
    BY <1>8, <1>9

\* What deflate may output is a sequence.
LEMMA PoolIs ==
    ASSUME IInv, mode = "write", NEW c \in 0..Len(inp)
    PROVE  Pool(c) \in Seq(Int)
  <1> DEFINE head == IF member = "new" THEN <<Header>> ELSE <<>>
             part == SubSeq(inp, 1, c)
             tail == IF CompFlush = "finish" /\ c = Len(inp) /\ \A i \in 1..Len(hold) : hold[i] # Trailer
                     THEN <<Trailer>> ELSE <<>>
  <1>1. <<Header>> \in Seq(Int) /\ <<Trailer>> \in Seq(Int) /\ <<>> \in Seq(Int)
    BY DEF Header, Trailer
  <1>2. head \in Seq(Int) /\ tail \in Seq(Int)
    BY <1>1
  <1>3. part \in Seq(Int) /\ hold \in Seq(Int)
    BY WriteNumbers, FrontIs
  <1>4. Pool(c) = head \o hold \o part \o tail
    BY DEF Pool
  <1> HIDE DEF head, part, tail
  <1>5. head \o hold \in Seq(Int)
    BY <1>2, <1>3, JoinIs
  <1>6. head \o hold \o part \in Seq(Int)
    BY <1>3, <1>5, JoinIs
  <1>7. head \o hold \o part \o tail \in Seq(Int)
    BY <1>2, <1>6, JoinIs
  <1>8. QED
    BY <1>4, <1>7

\* deflate outputs no more than there is room for.
LEMMA DeflateIs ==
    ASSUME IInv, mode = "write", pc = "deflate", NEW c \in 0..Len(inp), NEW e \in 0..size, Deflate(c, e)
    PROVE  /\ InputIs(size, inp', noff') /\ OutputIs(size, outp', nout') /\ hold' \in Seq(Int)
           /\ member' \in {"busy", "done"} /\ (e = 0 => inp' = <<>>)
  <1> DEFINE room == size - nout
             pool == IF member = "done" THEN <<>> ELSE Pool(c)
             most == Lesser(room, Len(pool))
             in == SubSeq(inp, c + 1, Len(inp))
             out == SubSeq(pool, 1, e)
             o == outp \o out
             h == SubSeq(pool, e + 1, Len(pool))
             at == IF noff = -1 THEN -1 ELSE noff + c
  <1>1. /\ e <= most /\ (c = Len(inp) \/ e = room)
        /\ inp' = in /\ noff' = at /\ outp' = o /\ nout' = nout + e /\ hold' = h
        /\ member' = (IF member = "done" \/ \E i \in 1..e : pool[i] = Trailer THEN "done" ELSE "busy")
    BY DEF Deflate
  <1>2. member' \in {"busy", "done"}
    BY <1>1
  <1>3. /\ inp \in Seq(Int) /\ outp \in Seq(Int) /\ Len(inp) \in Nat /\ Len(outp) \in Nat /\ nout \in Nat
        /\ Len(outp) <= nout /\ size \in Nat /\ noff \in Int /\ noff >= -1 /\ noff <= 2 * size
        /\ (noff = -1 \/ noff + Len(inp) <= 2 * size)
    BY WriteNumbers, Numbers
  <1>4. nout < size
    BY WriteNow DEF BufferedIs
  <1>5. <<>> \in Seq(Int)
    OBVIOUS
  <1>6. pool \in Seq(Int)
    BY <1>5, PoolIs
  <1> HIDE DEF pool
  <1>7. e \in 0..Len(pool) /\ nout + e <= size /\ nout + e \in Nat
    <2>1. room \in Nat /\ Len(pool) \in Nat
      BY <1>3, <1>4, <1>6
    <2>2. most <= room /\ most <= Len(pool) /\ most \in {room, Len(pool)}
      BY <2>1, LesserIs
    <2> HIDE DEF most
    <2>3. e <= Len(pool) /\ e <= room /\ e \in Nat
      BY <1>1, <2>1, <2>2
    <2>4. QED
      BY <1>3, <2>1, <2>3
  <1>8. out \in Seq(Int) /\ Len(out) = e
    BY <1>6, <1>7, FrontIs
  <1>9. h \in Seq(Int)
    BY <1>6, <1>7, RestIs
  <1> HIDE DEF out
  <1>10. o \in Seq(Int) /\ Len(o) = Len(outp) + e
    BY <1>3, <1>8, JoinIs
  <1> HIDE DEF o
  <1>11. OutputIs(size, o, nout + e)
    BY <1>3, <1>7, <1>10 DEF OutputIs
  <1>12. in \in Seq(Int) /\ Len(in) = Len(inp) - c
    BY <1>3, RestIs
  <1>13. e = 0 => in = <<>>
    <2>1. ASSUME e = 0 PROVE c = Len(inp)
      BY <1>1, <1>3, <1>4, <2>1
    <2>2. QED
      BY <1>3, <2>1, SubSeqEmpty
  <1> HIDE DEF in
  <1>14. InputIs(size, in, at)
    <2>1. c \in Nat /\ c <= Len(inp)
      BY <1>3
    <2>2. at \in -1..(2 * size) /\ (at = -1 \/ at + Len(in) <= 2 * size)
      <3>1. CASE noff = -1
        BY <1>3, <3>1
      <3>2. CASE noff # -1
        <4>1. at = noff + c /\ noff + c + (Len(inp) - c) = noff + Len(inp)
          BY <1>3, <2>1, <3>2
        <4>2. at + Len(in) <= 2 * size
          BY <1>3, <1>12, <2>1, <3>2, <4>1
        <4>3. at \in Nat /\ at <= 2 * size
          BY <1>3, <2>1, <3>2, <4>1
        <4>4. QED
          BY <1>3, <4>2, <4>3
      <3>3. QED
        BY <3>1, <3>2
    <2>3. QED
      BY <1>12, <2>2, Zenon DEF InputIs
  <1> HIDE DEF at, h
  <1>15. QED
    BY <1>1, <1>2, <1>9, <1>11, <1>13, <1>14

LEMMA CompDeflateStep ==
    ASSUME IInv, UNCHANGED readVars, CompDeflate
    PROVE  IInv'
  <1>1. mode = "write" /\ pc = "deflate" /\ pc \in WritePlaces \ {"begin"}
    BY DEF CompDeflate, IInv, Placed, WritePlaces
  <1>2. /\ UNCHANGED <<mode, size, want, direct, pos, skip, err, rest>>
        /\ UNCHANGED <<op, left, flush, zclear, zn, file, zeros, told>>
    BY DEF CompDeflate, seenVars
  <1>3. PICK c \in 0..Len(inp), e \in 0..size :
          /\ Deflate(c, e)
          /\ IF e > 0 THEN pc' = "write" /\ UNCHANGED <<reset, after>>
             ELSE CompReturn /\ reset' = (CompFlush = "finish")
          /\ ended' = (e > 0 /\ member' = "done")
    BY DEF CompDeflate
  <1>4. /\ InputIs(size, inp', noff') /\ OutputIs(size, outp', nout') /\ hold' \in Seq(Int)
        /\ member' \in {"busy", "done"} /\ (e = 0 => inp' = <<>>)
    BY <1>1, <1>3, DeflateIs
  <1>5. DeflaterIs(reset', member', hold')
    <2>1. reset \in BOOLEAN
      BY <1>1, WriteNow DEF DeflaterIs
    <2>2. reset' \in BOOLEAN
      BY <1>3, <2>1
    <2>3. member' \in {"new", "busy", "done"}
      BY <1>4
    <2>4. QED
      BY <1>4, <2>2, <2>3, Zenon DEF DeflaterIs
  <1>6. CallIs(size', left', flush', ended', zclear', zn')
    <2>1. ended' \in BOOLEAN
      BY <1>3
    <2>2. CallIs(size, left, flush, ended', zclear, zn)
      BY <1>1, <2>1, WriteNow, Zenon DEF CallIs
    <2>3. QED
      BY <1>2, <2>2
  <1>7. /\ ControlIs(pc', after', op', err', zn', skip', size')
        /\ BufferedIs(pc', after', err', inp', noff', rest', size', nout')
    <2>1. CASE e > 0
      <3>1. pc' = "write" /\ after' = after
        BY <1>3, <2>1
      <3>2. ControlIs("write", after, op, err, zn, skip, size)
        BY <1>1, WriteNow DEF ControlIs, WritePlaces
      <3>3. ControlIs(pc', after', op', err', zn', skip', size')
        BY <1>2, <3>1, <3>2
      <3>4. after = "moved" => Len(rest) <= size
        BY <1>1, WriteNow DEF BufferedIs
      <3>5. after' = "moved" => Len(rest') <= size'
        BY <1>2, <3>1, <3>4
      <3>6. BufferedIs(pc', after', err', inp', noff', rest', size', nout')
        BY <3>1, <3>5 DEF BufferedIs
      <3>7. QED
        BY <3>3, <3>6
    <2>2. CASE ~(e > 0)
      <3>1. CompReturn /\ e = 0
        BY <1>3, <2>2, Numbers
      <3>2. QED
        BY <1>1, <1>2, <1>4, <3>1, CompReturnIs
    <2>3. QED
      BY <2>1, <2>2
  <1>8. WriteResult
    <2>1. InputIs(size', inp', noff') /\ OutputIs(size', outp', nout')
      BY <1>2, <1>4
    <2>2. rest' \in Seq(Int) /\ SeenIs(file', zeros', told')
      BY <1>1, <1>2, WriteNow
    <2>3. mode' = "write" /\ want' = want /\ size' = size /\ direct' = direct /\ pos' \in Nat /\ skip' \in Nat
      BY <1>1, <1>2, Numbers
    <2>4. QED
      BY <1>5, <1>6, <1>7, <2>1, <2>2, <2>3, Zenon DEF WriteResult
  <1>9. QED
    BY <1>1, <1>8, WriteResultIs

\* The end of gzclose_w
LEMMA ClosedStep ==
    ASSUME IInv, UNCHANGED readVars, Closed
    PROVE  IInv'
  <1>1. mode = "write" /\ pc = "closed" /\ pc \in WritePlaces
    BY DEF Closed, IInv, Placed, WritePlaces, ReadPlaces
  <1>2. /\ UNCHANGED <<size, want, direct, pos, skip, err, inp, noff, rest, outp, nout>>
        /\ UNCHANGED <<reset, member, hold, op, left, flush, after, ended, zclear, zn, file, zeros>>
        /\ mode' = "closed" /\ pc' = "idle" /\ told' \in {told, TRUE}
    BY DEF Closed, bufVars, defVars, callVars
  <1>3. ReadInv'
    BY <1>1, <1>2, WriteLeavesReading
  <1>4. GzTypeOK'
    BY <1>2 DEF IInv, GzTypeOK
  <1>5. Placed'
    BY <1>2 DEF Placed, ReadPlaces, WritePlaces
  <1>6. WriteTypeOK'
    BY <1>2 DEF IInv, WriteInv, WriteTypeOK
  <1>7. WriteInv'
    BY <1>2, <1>6 DEF WriteInv
  <1>8. QED
    BY <1>3, <1>4, <1>5, <1>7 DEF IInv

\* Every step of writing
LEMMA WriteNextStep ==
    ASSUME IInv, Writing
    PROVE  IInv'
  <1>1. UNCHANGED readVars
    BY DEF Writing
  <1>2. CASE \/ gzwrite \/ gzputc \/ gzprintf \/ gzflush \/ gzsetparams \/ gzclose_w
    <2>1. Lens \subseteq Nat
      BY WriteAssumption
    <2>2. CASE gzwrite
      BY <1>1, <2>1, <2>2, StartStep DEF gzwrite, Flushes
    <2>3. CASE gzputc
      BY <1>1, <2>3, StartStep DEF gzputc, Flushes
    <2>4. CASE gzprintf
      BY <1>1, <2>1, <2>4, StartStep DEF gzprintf, Flushes
    <2>5. CASE gzflush
      BY <1>1, <2>5, StartStep DEF gzflush, Flushes
    <2>6. CASE gzsetparams
      BY <1>1, <2>6, StartStep DEF gzsetparams, Flushes
    <2>7. CASE gzclose_w
      BY <1>1, <2>7, StartStep DEF gzclose_w, Flushes
    <2>8. QED
      BY <1>2, <2>2, <2>3, <2>4, <2>5, <2>6, <2>7
  <1>3. QED
    BY <1>1, <1>2, WriteSeekStep, BeginStep, ZeroRoundStep, ZeroDoneStep, BodyStep, MovedStep, ParamsStep,
       CompStep, CompWriteStep, CompDeflateStep, ClosedStep DEF Writing, WriteNext

-----------------------------------------------------------------------------
(* Both directions.                                                        *)

\* gzbuffer
LEMMA SizingStep ==
    ASSUME IInv, Sizing
    PROVE  IInv'
  <1>1. pc = "idle" /\ mode \in {"read", "write"} /\ size = 0
    BY DEF Sizing, Buffer, IInv, GzTypeOK
  <1>2. UNCHANGED <<mode, size, direct, pos, skip, pc>> /\ UNCHANGED readVars /\ UNCHANGED writeVars
    BY DEF Sizing, Buffer
  <1>3. PICK n \in Wants :
          IF n > GZBUFSIZE_MAX
          THEN err' = "fatal" /\ UNCHANGED want
          ELSE want' = (IF n < MINSIZE THEN MINSIZE ELSE n) /\ UNCHANGED err
    BY DEF Sizing, Buffer
  <1>4. want' \in MINSIZE..GZBUFSIZE_MAX
    <2>1. n \in Nat /\ want \in MINSIZE..GZBUFSIZE_MAX /\ MINSIZE \in Nat /\ GZBUFSIZE_MAX \in Nat
          /\ GZBUFSIZE_MAX >= MINSIZE
      BY GzAssumption DEF IInv, GzTypeOK
    <2>2. QED
      BY <1>3, <2>1
  <1>5. err' \in {"fatal", err}
    BY <1>3
  <1>6. GzTypeOK'
    BY <1>1, <1>2, <1>4, <1>5 DEF IInv, GzTypeOK
  <1>7. Placed'
    BY <1>2 DEF IInv, Placed
  <1>8. ReadInv'
    <2>1. UNCHANGED <<story, stage, inb, how, eof, past, outb, xoff, ist, held, fpos, loc, got>>
      BY <1>2 DEF readVars, fileVars, streamVars
    <2>2. ReadTypeOK' /\ ReadTypes'
      BY <1>2, <2>1 DEF IInv, ReadInv, ReadTypeOK, ReadTypes
    <2>3. Fetching' /\ Behind'
      BY <1>2, <2>1 DEF IInv, ReadInv, Fetching, Behind
    <2>4. QED
      BY <2>2, <2>3 DEF ReadInv
  <1>9. WriteInv'
    <2>1. /\ UNCHANGED <<inp, noff, rest, outp, nout, reset, member, hold, left, flush, op, after>>
          /\ UNCHANGED <<ended, zclear, zn, file, zeros, told>>
      BY <1>2 DEF writeVars, bufVars, defVars, callVars, seenVars
    <2>2. WriteTypeOK'
      BY <1>2, <2>1 DEF IInv, WriteInv, WriteTypeOK
    <2>3. ASSUME mode' = "write" PROVE WriteControl' /\ Buffered'
      <3>1. WriteControl /\ Buffered
        BY <1>2, <2>3 DEF IInv, WriteInv
      <3>2. WriteControl'
        BY <1>1, <1>2, <1>5, <2>1, <3>1 DEF WriteControl, WritePlaces
      <3>3. Buffered'
        BY <1>1, <1>2, <1>5, <2>1, <3>1 DEF Buffered
      <3>4. QED
        BY <3>2, <3>3
    <2>4. QED
      BY <2>2, <2>3 DEF WriteInv
  <1>10. QED
    BY <1>6, <1>7, <1>8, <1>9 DEF IInv

LEMMA InitIs == Init => IInv
  <1> SUFFICES ASSUME Init PROVE IInv
    OBVIOUS
  <1>1. mode \in {"read", "write"} /\ direct \in {-1, 0, 1} /\ size = 0 /\ want = MINSIZE /\ pos = 0
        /\ skip = 0 /\ err = "ok" /\ pc = "idle"
    BY DEF Init, Open
  <1>2. MINSIZE \in Nat /\ GZBUFSIZE_MAX \in Nat /\ GZBUFSIZE_MAX >= MINSIZE
    BY GzAssumption
  <1>3. GzTypeOK
    BY <1>1, <1>2 DEF GzTypeOK
  <1>4. Placed
    BY <1>1 DEF Placed, ReadPlaces, WritePlaces
  <1>5. /\ story \in Stories /\ stage = 1 /\ fpos = 0 /\ inb = <<>> /\ how = "look" /\ eof = FALSE
        /\ past = FALSE /\ outb = <<>> /\ xoff = 0 /\ ist = "m1" /\ held = <<>> /\ loc = NoCall
        /\ got = <<>>
    BY DEF Init, ReadInit
  <1>6. 1 \in 1..Len(story)
    <2>1. story \in Seq(Stages) /\ story # <<>>
      BY <1>5, ReadAssumption
    <2>2. Len(story) \in Nat \ {0}
      BY <2>1, EmptySeq
    <2>3. QED
      BY <2>2
  <1>7. ReadTypeOK /\ ReadTypes
    <2>1. <<>> \in Seq(Items) /\ <<>> \in Seq(Nat) /\ Len(<<>>) = 0
      OBVIOUS
    <2>2. loc \in Locals /\ loc.room \in Nat
      BY <1>5, NoCallIs DEF NoCall
    <2>3. ReadTypeOK
      <3>1. stage \in 1..Len(story)
        BY <1>5, <1>6
      <3>2. Len(inb) <= size /\ xoff + Len(outb) <= 2 * size /\ fpos \in Nat /\ xoff \in Nat
        BY <1>1, <1>5, <2>1
      <3>3. /\ how \in {"look", "copy", "gzip"} /\ ist \in {"m1", "m2", "body", "done"}
            /\ eof \in BOOLEAN /\ past \in BOOLEAN
        BY <1>5
      <3>4. QED
        BY <2>2, <3>1, <3>2, <3>3, Zenon DEF ReadTypeOK
    <2>4. ReadTypes
      BY <1>5, <2>1, <2>2 DEF ReadTypes
    <2>5. QED
      BY <2>3, <2>4
  <1>8. Fetching
    BY <1>1, <1>5, NoCallIs DEF Fetching, ReadPlaces
  <1>9. Behind
    BY <1>1, <1>5 DEF Behind
  <1>10. WriteTypeOK /\ WriteControl /\ Buffered
    <2>1. /\ inp = <<>> /\ noff = 0 /\ rest = <<>> /\ outp = <<>> /\ nout = 0
          /\ reset = FALSE /\ member = "new" /\ hold = <<>>
          /\ op = "none" /\ left = 0 /\ flush = "none" /\ after = "idle" /\ ended = FALSE
          /\ zclear = -1 /\ zn = 0
          /\ file = <<>> /\ zeros = {} /\ told = FALSE
      BY DEF Init, WriteInit
    <2>2. WriteTypeOK
      <3>1. /\ inp \in Seq(Int) /\ rest \in Seq(Int) /\ outp \in Seq(Int) /\ hold \in Seq(Int)
            /\ file \in Seq(Int) /\ Len(outp) = 0
        BY <2>1
      <3>2. noff \in -1..(2 * size) /\ nout \in 0..size /\ zclear \in -1..size /\ zn \in 0..size
            /\ left \in Nat
        BY <1>1, <2>1
      <3>3. flush \in Flushes \cup {"block"} /\ zeros \subseteq Nat /\ Len(outp) <= nout
        BY <2>1, <3>1 DEF Flushes
      <3>4. reset \in BOOLEAN /\ member \in {"new", "busy", "done"} /\ ended \in BOOLEAN /\ told \in BOOLEAN
        BY <2>1
      <3>5. QED
        BY <3>1, <3>2, <3>3, <3>4, Zenon DEF WriteTypeOK
    <2>3. WriteControl
      BY <1>1, <2>1 DEF WriteControl, WritePlaces
    <2>4. Buffered
      BY <1>1, <2>1 DEF Buffered
    <2>5. QED
      BY <2>2, <2>3, <2>4
  <1>11. QED
    BY <1>3, <1>4, <1>7, <1>8, <1>9, <1>10 DEF IInv, ReadInv, WriteInv

LEMMA NextStep ==
    ASSUME IInv, Next
    PROVE  IInv'
  BY ReadNextStep, WriteNextStep, SizingStep DEF Next

\* A step that changes nothing
LEMMA StutterStep ==
    ASSUME IInv, UNCHANGED vars
    PROVE  IInv'
  <1>1. UNCHANGED gzVars /\ UNCHANGED readVars /\ UNCHANGED writeVars
    BY DEF vars
  <1>2. UNCHANGED <<mode, size, want, direct, pos, skip, err, pc>>
    BY <1>1 DEF gzVars
  <1>3. UNCHANGED <<story, stage, inb, how, eof, past, outb, xoff, ist, held, fpos, loc, got>>
    BY <1>1 DEF readVars, fileVars, streamVars
  <1>4. /\ UNCHANGED <<inp, noff, rest, outp, nout, reset, member, hold, left, flush, op, after>>
        /\ UNCHANGED <<ended, zclear, zn, file, zeros, told>>
    BY <1>1 DEF writeVars, bufVars, defVars, callVars, seenVars
  <1>5. GzTypeOK' /\ Placed'
    BY <1>2 DEF IInv, GzTypeOK, Placed
  <1>6. ReadInv'
    BY <1>2, <1>3 DEF IInv, ReadInv, ReadTypeOK, ReadTypes, Fetching, Behind
  <1>7. WriteInv'
    BY <1>2, <1>4 DEF IInv, WriteInv, WriteTypeOK, WriteControl, Buffered
  <1>8. QED
    BY <1>5, <1>6, <1>7 DEF IInv

\* gz_load, gz_avail, gz_decomp and gzungetc stay inside the input and output
\* buffers of a gzFile being read; gz_write, gz_zero, gzputc and gzvprintf stay
\* inside those of one being written, and gzvprintf finds half a buffer free,
\* whatever the file holds, however write() fails and whatever calls are made.
THEOREM BuffersStayWithin == Spec => []BuffersFit
  <1>1. IInv /\ [Next]_vars => IInv'
    BY NextStep, StutterStep
  <1>2. IInv => BuffersFit
    <2>1. ASSUME IInv PROVE InputRoom
      BY <2>1 DEF IInv, WriteInv, Buffered, InputRoom
    <2>2. QED
      BY <2>1 DEF IInv, ReadInv, WriteInv, BuffersFit
  <1>3. QED
    BY InitIs, <1>1, <1>2, PTL DEF Spec
=============================================================================
