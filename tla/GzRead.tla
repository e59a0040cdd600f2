------------------------------- MODULE GzRead -------------------------------
(***************************************************************************)
(* Reading a gzip file: gzread, gzgetc, gzgets, gzungetc, gzdirect, gzseek,*)
(* gzrewind, gzclearerr and gzclose_r over gz_look, gz_decomp, gz_fetch,   *)
(* gz_skip and gz_read.                                                    *)
(*                                                                         *)
(* The file is a sequence of items [t, v]: the magic bytes "m1" and "m2"   *)
(* of a header, "d" compressed data that decodes to the bytes v, "e" the   *)
(* end of a member, "x" damage, "p" a plain byte; v is also what the item  *)
(* is when the file is copied.  A byte of content is its position.  The    *)
(* file may have grown when the caller clears the end of file; a header is *)
(* then written in one piece, as gz_look assumes.  inflate is taken by its *)
(* contract (see Inflate), one item at a time; a read() may fail.          *)
(***************************************************************************)
EXTENDS GzState

CONSTANTS
  Stories,           \* files: sequences of stages [raw, content, whole]
  ReadLens,          \* lengths of gzread and gzgets
  Newlines           \* bytes that are newlines

Items  == [t : {"m1", "m2", "d", "e", "x", "p"}, v : Seq(Nat) \ {<<>>}]
Stages == [raw : Seq(Items), content : Seq(Nat), whole : BOOLEAN]

ASSUME ReadAssumption ==
  /\ Stories # {} /\ Stories \subseteq Seq(Stages) \ {<<>>}
  /\ ReadLens \subseteq Nat /\ Newlines \subseteq Nat

(* A file that ends inside a member, behind its header.                    *)
Cut(r) ==
  \E k \in 1..(Len(r) - 1) :
    r[k].t = "m1" /\ r[k + 1].t = "m2" /\ \A j \in (k + 2)..Len(r) : r[j].t = "d"

(* A file grows at its end, and one that ends inside a member is not whole.*)
ASSUME FilesAssumption ==
  \A f \in Stories :
    /\ \A i \in 1..Len(f) : f[i].whole => ~Cut(f[i].raw)
    /\ \A i \in 1..(Len(f) - 1) :
         Len(f[i].raw) <= Len(f[i + 1].raw) /\ SubSeq(f[i + 1].raw, 1, Len(f[i].raw)) = f[i].raw

VARIABLES
  story, stage, fpos,      \* the file, how far it has grown, position of the descriptor
  inb, how, eof, past,     \* bytes at strm.next_in; state->how, eof, past
  outb, xoff,              \* bytes at x.next, and x.next - out
  ist, held,               \* inflate: what it expects next, bytes decoded but not output
  loc,                     \* locals of the call, see NoCall
  got                      \* bytes the last call delivered

streamVars == <<inb, how, eof, past, outb, xoff, ist, held, fpos>>
fileVars == <<story, stage>>
readVars == <<fileVars, streamVars, loc, got>>

(* The call, bytes still wanted, bytes got, position before the call; where*)
(* gz_fetch returns to; avail_out and output of gz_decomp, and whether     *)
(* that goes to "out" or to the "user".                                    *)
NoCall == [call |-> "none", togo |-> 0, acc |-> <<>>, from |-> 0, back |-> "none",
           room |-> 0, dout |-> <<>>, dest |-> "out"]

raw == story[stage].raw

ReadInit ==
  /\ story \in Stories /\ stage = 1 /\ fpos = 0
  /\ inb = <<>> /\ how = "look" /\ eof = FALSE /\ past = FALSE
  /\ outb = <<>> /\ xoff = 0 /\ ist = "m1" /\ held = <<>>
  /\ loc = NoCall /\ got = <<>>

Plain(items) == [i \in 1..Len(items) |-> items[i].v[1]]

--------------------------------------------------------------------------------
(* A call ends, having delivered bytes; or ends with a fatal error, which  *)
(* empties the output buffer.                                              *)
Give(bytes) == got' = bytes /\ loc' = NoCall /\ pc' = "idle"
Broken == err' = "fatal" /\ outb' = <<>> /\ Give(<<>>)

(* gz_load: n bytes at most, fewer only at the end of the file.            *)
Loads(n) == IF fpos >= Len(raw) THEN 0 ELSE Lesser(n, Len(raw) - fpos)
Loaded(n) == SubSeq(raw, fpos + 1, fpos + Loads(n))
Load(n) == fpos' = fpos + Loads(n) /\ eof' = (eof \/ Loads(n) < n)

(* gz_avail: fill up the input buffer of sz bytes.                         *)
Avail(sz) == IF eof THEN inb ELSE inb \o Loaded(sz - Len(inb))

(* gz_look once the buffers are there: what the next bytes are taken for.  *)
Inflating ==
  /\ how' = "gzip" /\ direct' = 0 /\ ist' = "m1" /\ held' = <<>>
  /\ UNCHANGED <<outb, xoff>>

IsMagic(b) == Len(b) > 1 /\ b[1].t = "m1" /\ b[2].t = "m2"

LookAt(b) ==
  CASE b = <<>> -> inb' = b /\ UNCHANGED <<how, direct, outb, xoff, ist, held>>
    [] IsMagic(b) -> inb' = b /\ Inflating
    [] b # <<>> /\ ~IsMagic(b) /\ direct = 0 ->
         inb' = <<>> /\ outb' = <<>> /\ UNCHANGED <<how, direct, xoff, ist, held>>
    [] OTHER ->
         /\ inb' = <<>> /\ outb' = Plain(b) /\ xoff' = 0 /\ how' = "copy" /\ direct' = 1
         /\ UNCHANGED <<ist, held>>

Garbage(b) == b # <<>> /\ ~IsMagic(b) /\ direct = 0

(* gz_look: TRUE when it succeeds, from a state where x.have is 0.         *)
Look ==
  /\ size' = want
  /\ IF direct = -1
     THEN inb' = inb /\ Inflating /\ UNCHANGED <<fpos, eof>>
     ELSE LET b == IF Len(inb) < 2 THEN Avail(want) ELSE inb IN
          /\ LookAt(b)
          /\ fpos' = (IF Len(inb) < 2 /\ ~eof THEN fpos + Loads(want - Len(inb)) ELSE fpos)
          /\ eof' = \/ eof \/ Garbage(b)
                    \/ Len(inb) < 2 /\ Loads(want - Len(inb)) < want - Len(inb)
CannotLook == \/ size = 0                                     \* gz_read_init failed
              \/ direct # -1 /\ Len(inb) < 2 /\ ~eof          \* read() failed

--------------------------------------------------------------------------------
(* The calls.  After a fatal error they only return, and the caller        *)
(* closes the file.                                                        *)
BeginRead(c, n, place) ==
  /\ pc = "idle" /\ mode = "read" /\ err # "fatal"
  /\ loc' = [NoCall EXCEPT !.call = c, !.togo = n, !.from = pos + skip]
  /\ pc' = place
  /\ UNCHANGED <<mode, size, want, direct, pos, skip, err, fileVars, streamVars, got>>

SkipFirst(place) == IF skip > 0 THEN "skip" ELSE place

gzread == \E n \in ReadLens \ {0} : BeginRead("read", n, SkipFirst("read"))
gzgets == \E n \in ReadLens \ {0, 1} : BeginRead("gets", n - 1, SkipFirst("gets"))
gzgetcSlow == outb = <<>> /\ BeginRead("read", 1, SkipFirst("read"))

(* gzgetc with bytes in the output buffer: "no need to check for skip      *)
(* request", though gzdirect may have filled it while one was pending.     *)
gzgetc ==
  /\ pc = "idle" /\ mode = "read" /\ err # "fatal" /\ outb # <<>>
  /\ got' = <<outb[1]>> /\ outb' = SubSeq(outb, 2, Len(outb)) /\ xoff' = xoff + 1
  /\ pos' = pos + 1
  /\ UNCHANGED <<mode, size, want, direct, skip, err, pc, fileVars, inb, how, eof, past,
                 ist, held, fpos, loc>>

(* gzungetc of the byte before the position, or of -1, and gzdirect: both  *)
(* look at the file first when nothing is known of it.                     *)
gzungetc == \E c \in {"push", "force"} :
  BeginRead(c, 0, IF how = "look" /\ outb = <<>> THEN "peek" ELSE SkipFirst("push"))
gzdirect == how = "look" /\ outb = <<>> /\ BeginRead("direct", 0, "peek")

Peek ==
  /\ pc = "peek"
  /\ \/ /\ Look /\ UNCHANGED err
        /\ IF loc.call = "direct" THEN Give(<<>>) ELSE pc' = SkipFirst("push") /\ UNCHANGED <<got, loc>>
     \/ CannotLook /\ Broken /\ UNCHANGED <<size, direct, inb, how, eof, xoff, ist, held, fpos>>
  /\ UNCHANGED <<mode, want, pos, skip, fileVars, past>>

(* The caller pushes back a byte that was read, so there must be one.      *)
Pushes == loc.call = "push" /\ skip = 0 /\ pos \in 1..Len(story[stage].content)

PushOff == IF xoff = 0 \/ outb = <<>> THEN 2 * size - Len(outb) ELSE xoff

Push ==
  /\ pc = "push"
  /\ CASE ~Pushes ->
            Give(<<>>) /\ UNCHANGED <<outb, xoff, pos, past, err>>
       [] Pushes /\ Len(outb) = 2 * size ->
            Broken /\ UNCHANGED <<xoff, pos, past>>
       [] OTHER ->
            /\ outb' = <<pos - 1>> \o outb
            /\ xoff' = PushOff - 1
            /\ pos' = pos - 1 /\ past' = FALSE /\ Give(<<>>) /\ UNCHANGED err
  /\ UNCHANGED <<mode, size, want, direct, skip, fileVars, inb, how, eof, ist, held, fpos>>

(* gz_reset, after the descriptor went back to the start.                  *)
Reset ==
  /\ fpos' = 0 /\ outb' = <<>> /\ inb' = <<>> /\ eof' = FALSE /\ past' = FALSE
  /\ how' = "look" /\ err' = "ok"

gzrewind ==
  /\ pc = "idle" /\ mode = "read" /\ err # "fatal"
  /\ Reset /\ pos' = 0 /\ skip' = 0 /\ got' = <<>>
  /\ UNCHANGED <<mode, size, want, direct, pc, fileVars, xoff, ist, held, loc>>

(* gzseek while reading: within the output buffer at once, in a plain file *)
(* by the descriptor, backwards from the start, the rest later.            *)
CopySeek(t) == fpos + (t - pos) - Len(outb)

ReadSeek ==
  /\ pc = "idle" /\ mode = "read" /\ err # "fatal"
  /\ \E t \in Targets, cur \in BOOLEAN :
       CASE t < 0 ->
              /\ skip' = (IF cur THEN 0 ELSE skip)
              /\ UNCHANGED <<pos, err, inb, how, eof, past, outb, xoff, fpos>>
         [] t >= 0 /\ how = "copy" ->
              /\ fpos' = CopySeek(t)
              /\ outb' = <<>> /\ inb' = <<>> /\ eof' = FALSE /\ past' = FALSE
              /\ skip' = 0 /\ err' = "ok" /\ pos' = t /\ UNCHANGED <<how, xoff>>
         [] t >= 0 /\ how # "copy" /\ t < pos ->
              Reset /\ pos' = 0 /\ skip' = t /\ UNCHANGED xoff
         [] OTHER ->
              LET n == Lesser(Len(outb), t - pos) IN
              /\ outb' = SubSeq(outb, n + 1, Len(outb)) /\ xoff' = xoff + n
              /\ pos' = pos + n /\ skip' = t - pos - n
              /\ UNCHANGED <<err, inb, how, eof, past, fpos>>
  /\ got' = <<>>
  /\ UNCHANGED <<mode, size, want, direct, pc, fileVars, ist, held, loc>>

(* gzclearerr, when the caller knows that the file may have grown.         *)
gzclearerr ==
  /\ pc = "idle" /\ mode = "read" /\ err # "fatal"
  /\ eof' = FALSE /\ past' = FALSE /\ err' = "ok" /\ got' = <<>>
  /\ stage' \in {stage} \cup (IF stage < Len(story) THEN {stage + 1} ELSE {})
  /\ UNCHANGED <<mode, size, want, direct, pos, skip, pc, story, inb, how, outb, xoff, ist, held,
                 fpos, loc>>

(* gzclose_r: a file that ended inside a member is reported here.          *)
gzclose_r ==
  /\ pc = "idle" /\ mode = "read" /\ mode' = "closed"
  /\ UNCHANGED <<size, want, direct, pos, skip, err, pc, readVars>>

--------------------------------------------------------------------------------
(* gz_skip.                                                                *)
ReadBody == IF loc.call \in {"push", "force"} THEN "push" ELSE loc.call
Fetch(place) == pc' = "fetch" /\ loc' = [loc EXCEPT !.back = place]

Skip ==
  /\ pc = "skip"
  /\ CASE outb # <<>> ->
            LET n == Lesser(Len(outb), skip) IN
            /\ outb' = SubSeq(outb, n + 1, Len(outb)) /\ xoff' = xoff + n
            /\ pos' = pos + n /\ skip' = skip - n
            /\ pc' = (IF skip' = 0 THEN ReadBody ELSE pc) /\ UNCHANGED loc
       [] outb = <<>> /\ eof /\ inb = <<>> ->
            pc' = ReadBody /\ UNCHANGED <<outb, xoff, pos, skip, loc>>
       [] OTHER -> Fetch("skip") /\ UNCHANGED <<outb, xoff, pos, skip>>
  /\ UNCHANGED <<mode, size, want, direct, err, fileVars, inb, how, eof, past, ist, held, fpos,
                 got>>

(* gz_read: from the output buffer, through it, or for a large request     *)
(* straight into the caller's buffer.                                      *)
Took(bytes) ==
  /\ pos' = pos + Len(bytes)
  /\ IF Len(bytes) = loc.togo
     THEN Give(loc.acc \o bytes)
     ELSE /\ loc' = [loc EXCEPT !.acc = @ \o bytes, !.togo = @ - Len(bytes), !.dout = <<>>]
          /\ pc' = "read" /\ UNCHANGED got

ReadBuffered ==
  /\ outb # <<>>
  /\ LET n == Lesser(Len(outb), loc.togo) IN
     Took(SubSeq(outb, 1, n)) /\ outb' = SubSeq(outb, n + 1, Len(outb)) /\ xoff' = xoff + n
  /\ UNCHANGED <<past, eof, fpos, err>>

\* Mutant: the end of the file is taken for the end of the data.
ReadPastEarly ==
  /\ outb = <<>> /\ eof
  /\ past' = TRUE /\ Give(loc.acc)
  /\ UNCHANGED <<pos, outb, xoff, eof, fpos, err>>
ReadPast ==
  /\ outb = <<>> /\ eof /\ inb = <<>>
  /\ past' = TRUE /\ Give(loc.acc)
  /\ UNCHANGED <<pos, outb, xoff, eof, fpos, err>>

NeedsMore == outb = <<>> /\ ~(eof /\ inb = <<>>)
ThroughBuffer == how = "look" \/ loc.togo < 2 * size

ReadFetch ==
  /\ NeedsMore /\ ThroughBuffer /\ Fetch("read")
  /\ UNCHANGED <<pos, got, outb, xoff, past, eof, fpos, err>>

ReadCopy ==
  /\ NeedsMore /\ ~ThroughBuffer /\ how = "copy"
  /\ \/ Took(Plain(Loaded(loc.togo))) /\ Load(loc.togo) /\ UNCHANGED <<outb, err>>
     \/ Broken /\ UNCHANGED <<pos, fpos, eof>>
  /\ UNCHANGED <<xoff, past>>

ReadDecomp ==
  /\ NeedsMore /\ ~ThroughBuffer /\ how = "gzip"
  /\ pc' = "decomp" /\ loc' = [loc EXCEPT !.room = loc.togo, !.dest = "user"]
  /\ UNCHANGED <<pos, got, outb, xoff, past, eof, fpos, err>>

Read ==
  /\ pc = "read"
  /\ ReadBuffered \/ ReadPast \/ ReadFetch \/ ReadCopy \/ ReadDecomp
  /\ UNCHANGED <<mode, size, want, direct, skip, fileVars, inb, how, ist, held>>

(* gzgets: one gz_fetch when the buffer is empty, then up to a newline.    *)
Gets ==
  /\ pc \in {"gets", "line"}
  /\ CASE outb = <<>> /\ pc = "gets" ->
            Fetch("line") /\ UNCHANGED <<past, pos, got, outb, xoff>>
       [] outb = <<>> /\ pc = "line" ->
            past' = TRUE /\ Give(loc.acc) /\ UNCHANGED <<pos, outb, xoff>>
       [] OTHER ->
            LET most == Lesser(Len(outb), loc.togo)
                eols == {i \in 1..most : outb[i] \in Newlines}
                n    == IF eols = {} THEN most ELSE CHOOSE i \in eols : \A j \in eols : i <= j IN
            /\ pos' = pos + n
            /\ outb' = SubSeq(outb, n + 1, Len(outb)) /\ xoff' = xoff + n
            /\ IF n = loc.togo \/ eols # {}
               THEN Give(loc.acc \o SubSeq(outb, 1, n))
               ELSE /\ loc' = [loc EXCEPT !.acc = @ \o SubSeq(outb, 1, n), !.togo = @ - n]
                    /\ pc' = "gets" /\ UNCHANGED got
            /\ UNCHANGED past
  /\ UNCHANGED <<mode, size, want, direct, skip, err, fileVars, inb, how, eof, ist, held, fpos>>

--------------------------------------------------------------------------------
(* gz_fetch: look, copy or decompress until there is something or the      *)
(* file ends.                                                              *)
FetchOnUntilData(o, e, i) == pc' = (IF o = <<>> THEN "fetch" ELSE loc.back)
FetchOn(o, e, i) == pc' = (IF o = <<>> /\ (~e \/ i # <<>>) THEN "fetch" ELSE loc.back)

FetchLook ==
  /\ how = "look"
  /\ \/ /\ Look
        /\ IF how' = "look" THEN pc' = loc.back ELSE FetchOn(outb', eof', inb')
        /\ UNCHANGED <<err, got, loc>>
     \/ CannotLook /\ Broken /\ UNCHANGED <<size, direct, inb, how, eof, xoff, ist, held, fpos>>

FetchCopy ==
  /\ how = "copy"
  /\ \/ /\ outb' = Plain(Loaded(2 * size)) /\ xoff' = 0 /\ Load(2 * size)
        /\ pc' = loc.back /\ UNCHANGED <<err, got, loc>>
     \/ Broken /\ UNCHANGED <<xoff, eof, fpos>>
  /\ UNCHANGED <<size, direct, inb, how, ist, held>>

FetchGzip ==
  /\ how = "gzip"
  /\ pc' = "decomp" /\ loc' = [loc EXCEPT !.room = 2 * size, !.dest = "out"]
  /\ UNCHANGED <<size, direct, err, inb, how, eof, outb, xoff, ist, held, fpos, got>>

FetchStep ==
  /\ pc = "fetch"
  /\ FetchLook \/ FetchCopy \/ FetchGzip
  /\ UNCHANGED <<mode, want, pos, skip, fileVars, past>>

(* The loop of gz_decomp: get input, or let inflate take one item.         *)
DecompLoad ==
  /\ inb = <<>> /\ ~eof /\ Loads(size) > 0
  /\ \/ inb' = Loaded(size) /\ Load(size) /\ UNCHANGED <<err, outb, got, loc, pc>>
     \/ Broken /\ UNCHANGED <<inb, fpos, eof>>
  /\ UNCHANGED <<ist, held>>

DecompEnd ==
  /\ inb = <<>> /\ (eof \/ Loads(size) = 0)
  /\ eof' = TRUE /\ err' = "buf" /\ pc' = "decomped"
  /\ UNCHANGED <<inb, fpos, ist, held, loc, outb, got>>

Inflates(bytes, rest, next) ==
  LET k == Lesser(loc.room, Len(bytes)) IN
  /\ loc' = [loc EXCEPT !.dout = @ \o SubSeq(bytes, 1, k), !.room = @ - k]
  /\ held' = SubSeq(bytes, k + 1, Len(bytes)) /\ inb' = rest /\ ist' = next
  /\ pc' = (IF loc.room = k \/ next = "done" THEN "decomped" ELSE pc)
  /\ UNCHANGED <<err, outb, got>>

DecompItem ==
  /\ inb # <<>>
  /\ LET i == inb[1]
         rest == SubSeq(inb, 2, Len(inb)) IN
     CASE held # <<>> -> Inflates(held, inb, ist)
       [] held = <<>> /\ ist = "m1" /\ i.t = "m1" -> Inflates(<<>>, rest, "m2")
       [] held = <<>> /\ ist = "m2" /\ i.t = "m2" -> Inflates(<<>>, rest, "body")
       [] held = <<>> /\ ist = "body" /\ i.t = "d" -> Inflates(i.v, rest, "body")
       [] held = <<>> /\ ist = "body" /\ i.t = "e" -> Inflates(<<>>, rest, "done")
       [] OTHER -> Broken /\ UNCHANGED <<inb, ist, held>>
  /\ UNCHANGED <<fpos, eof>>

Decomp ==
  /\ pc = "decomp"
  /\ DecompLoad \/ DecompEnd \/ DecompItem
  /\ UNCHANGED <<mode, size, want, direct, pos, skip, fileVars, how, past, xoff>>

(* At the end of a member the next one is looked for.                      *)
StayInMember == how
NextHow == IF ist = "done" THEN "look" ELSE how

(* gz_decomp returns to gz_fetch or to gz_read.                            *)
Decomped ==
  /\ pc = "decomped"
  /\ how' = NextHow
  /\ IF loc.dest = "out"
     THEN /\ outb' = loc.dout /\ xoff' = 0 /\ FetchOn(loc.dout, eof, inb)
          /\ loc' = [loc EXCEPT !.dout = <<>>] /\ UNCHANGED <<pos, got>>
     ELSE Took(loc.dout) /\ UNCHANGED <<outb, xoff>>
  /\ UNCHANGED <<mode, size, want, direct, skip, err, fileVars, inb, eof, past, ist, held, fpos>>

ReadNext ==
  \/ gzread \/ gzgets \/ gzgetc \/ gzgetcSlow \/ gzungetc \/ gzdirect \/ Peek \/ Push
  \/ gzrewind \/ ReadSeek \/ gzclearerr \/ gzclose_r
  \/ Skip \/ Read \/ Gets \/ FetchStep \/ Decomp \/ Decomped

--------------------------------------------------------------------------------
ReadTypeOK ==
  /\ stage \in 1..Len(story) /\ fpos \in Nat
  /\ how \in {"look", "copy", "gzip"} /\ eof \in BOOLEAN /\ past \in BOOLEAN
  /\ Len(inb) <= size /\ xoff \in Nat /\ xoff + Len(outb) <= 2 * size
  /\ ist \in {"m1", "m2", "body", "done"} /\ loc.room \in Nat

(* The file as its reader sees it.  Between calls the position is x.pos    *)
(* with the pending seek; the call under way is the one in loc, for the    *)
(* bytes it has and those it still wants.                                  *)
Seen(v, unused) == IF mode = "read" THEN v ELSE unused
Asked == IF pc = "idle" THEN [call |-> "none", n |-> 0]
         ELSE [call |-> loc.call, n |-> loc.togo + Len(loc.acc)]

Bytes == INSTANCE ByteFile WITH
  open <- mode = "read", content <- story[stage].content, whole <- story[stage].whole,
  at <- Seen(IF pc = "idle" THEN pos + skip ELSE loc.from, 0),
  ahead <- Seen(IF pc = "idle" \/ loc.call = "direct" THEN skip ELSE 0, 0),
  peeked <- Seen(pc = "idle" /\ skip > 0 /\ outb # <<>>, FALSE),
  req <- Seen(Asked, [call |-> "none", n |-> 0]), ret <- Seen(got, <<>>),
  dead <- Seen(err = "fatal", FALSE)

(* Every call delivers the bytes of the uncompressed data at the position  *)
(* the caller is at, as many as it asked for unless the data ends there or *)
(* gzgets met a newline, whatever members, buffer boundaries, push-backs,  *)
(* seeks and growth of the file lie in between.  Only gzgetc from a buffer *)
(* that gzdirect filled in front of a pending seek does not (Stray).       *)
ReadsBytes == Bytes!Spec

(* zlib-ng.h of gzread: Z_BUF_ERROR indicates that the file ended in the   *)
(* middle of a gzip stream, and nothing else does.  err is "buf" only for  *)
(* such a file, however it is cut into reads, rewound, or grew; and        *)
(* gz_decomp stops with output space left only at the end of a member or   *)
(* with that error.                                                        *)
BufErrorExact ==
  /\ mode = "read" /\ err = "buf" => ~story[stage].whole
  /\ pc = "decomped" /\ loc.room > 0 => ist = "done" \/ err = "buf"

(* zlib-ng.h: gzclose returns Z_BUF_ERROR if the last gzread ended in the  *)
(* middle of a gzip stream.  Not when the last input is used up just when  *)
(* the output space is: gz_decomp returns for want of space, and gz_read   *)
(* takes the end of the file for the end of the data.                      *)
TruncationReported ==
  pc = "idle" /\ mode = "read" /\ past /\ fpos = Len(raw) /\ ~story[stage].whole => err # "ok"
=============================================================================
