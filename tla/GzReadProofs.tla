---------------------------- MODULE GzReadProofs ----------------------------
(***************************************************************************)
(* Reading a gzip file: Z_BUF_ERROR means that the file ends inside a      *)
(* member (BufErrorExact of GzRead), for every file and all buffer sizes.  *)
(*                                                                         *)
(* The input buffer holds the bytes of the file just in front of the       *)
(* descriptor, so that what inflate expects next can be related to the     *)
(* items of the file it has taken so far.                                  *)
(***************************************************************************)
EXTENDS GzProofs

\* What of the file r the decoder has taken, up to position c, when it expects i.
Within(r, c, i) ==
  /\ i = "m1" => c + 1 < Len(r)
  /\ i = "m2" => c >= 1 /\ c < Len(r) /\ r[c].t = "m1"
  /\ i = "body" => \E k \in 1..(c - 1) :
       r[k].t = "m1" /\ r[k + 1].t = "m2" /\ \A j \in (k + 2)..c : r[j].t = "d"

\* Unless the file is copied, the input buffer b lies in front of the descriptor
\* f, and once eof is set and there is something to decode, f is the end.
SyncIs(r, f, b, h, e, i, d, sz) ==
  /\ d = -1 => h = "look" /\ f = 0 /\ b = <<>> /\ ~e /\ Len(r) > 1
  /\ h # "copy" =>
       /\ Len(b) <= f /\ f <= Len(r)
       /\ \A n \in 1..Len(b) : b[n] = r[f - Len(b) + n]
       /\ e /\ (h = "gzip" \/ b # <<>>) => f = Len(r)
  /\ h = "gzip" => sz > 0 /\ Within(r, f - Len(b), i)

\* What is reported, and that the end of a member is left at once.
Told ==
  /\ err = "buf" => ~story[stage].whole
  /\ pc = "decomped" /\ loc.room > 0 => ist = "done" \/ err = "buf"
  /\ how = "gzip" /\ ist = "done" => pc = "decomped"
  /\ pc = "peek" => how = "look"

SyncInv == mode = "read" => SyncIs(raw, fpos, inb, how, eof, ist, direct, size) /\ Told

-----------------------------------------------------------------------------
(* Steps that leave the file, the input buffer and the decoder alone.      *)

\* Only the report may be withdrawn or become fatal.
LEMMA StillInSync ==
    ASSUME SyncInv, mode = "read",
           UNCHANGED <<size, direct, story, stage, fpos, inb, how, eof, ist>>,
           err' \in {err, "ok", "fatal"}, pc # "decomped", pc' # "decomped", pc' = "peek" => how = "look"
    PROVE  SyncInv'
  <1>1. SyncIs(raw, fpos, inb, how, eof, ist, direct, size) /\ Told
    BY DEF SyncInv
  <1>2. SyncIs(raw, fpos, inb, how, eof, ist, direct, size)'
    BY <1>1, Zenon DEF raw
  <1>3. Told'
    BY <1>1 DEF Told
  <1>4. QED
    BY <1>2, <1>3 DEF SyncInv

\* gz_reset goes back to the start of the file.
LEMMA ResetInSync ==
    ASSUME IInv, SyncInv, mode = "read", pc = "idle", pc' = pc, UNCHANGED <<story, stage, size, direct, ist>>, Reset
    PROVE  SyncInv'
  <1>1. SyncIs(raw, fpos, inb, how, eof, ist, direct, size)
    BY DEF SyncInv
  <1>2. fpos' = 0 /\ inb' = <<>> /\ eof' = FALSE /\ how' = "look" /\ err' = "ok"
    BY DEF Reset
  <1>3. raw \in Seq(Items) /\ Len(<<>>) = 0
    BY RawIs DEF IInv, ReadInv
  <1>4. Len(raw) \in Nat
    BY <1>3
  <1>5. SyncIs(raw, 0, <<>>, "look", FALSE, ist, direct, size)
    BY <1>1, <1>3, <1>4 DEF SyncIs
  <1>6. raw' = raw
    BY DEF raw
  <1>7. SyncIs(raw, fpos, inb, how, eof, ist, direct, size)'
    BY <1>2, <1>5, <1>6
  <1>8. Told'
    BY <1>2 DEF Told
  <1>9. QED
    BY <1>7, <1>8 DEF SyncInv

\* A file that is copied
LEMMA CopiedInSync ==
    ASSUME how' = "copy", direct' = 1, err' \in {"ok", "fatal"} \/ (err' = err /\ SyncInv /\ mode = "read"),
           story' = story, stage' = stage, pc' \notin {"decomped", "peek"}
    PROVE  SyncInv'
  <1>1. SyncIs(raw, fpos, inb, how, eof, ist, direct, size)'
    BY DEF SyncIs
  <1>2. err' = "buf" => ~story[stage].whole
    BY DEF SyncInv, Told
  <1>3. Told'
    BY <1>2 DEF Told
  <1>4. QED
    BY <1>1, <1>3 DEF SyncInv

-----------------------------------------------------------------------------
(* The calls.                                                              *)

\* A call begins: gzread, gzgets, gzungetc, gzdirect.
LEMMA BeginsInSync ==
    ASSUME IInv, SyncInv, gzread \/ gzgets \/ gzgetcSlow \/ gzungetc \/ gzdirect
    PROVE  SyncInv'
  <1>1. PICK c, n, place : BeginRead(c, n, place) /\ place # "decomped" /\ (place = "peek" => how = "look")
    <2>1. \A p \in {"read", "gets", "push"} : SkipFirst(p) \in {"skip", p}
      BY DEF SkipFirst
    <2>2. CASE gzread
      BY <2>1, <2>2 DEF gzread
    <2>3. CASE gzgets
      BY <2>1, <2>3 DEF gzgets
    <2>4. CASE gzgetcSlow
      BY <2>1, <2>4 DEF gzgetcSlow
    <2>5. CASE gzungetc
      BY <2>1, <2>5 DEF gzungetc
    <2>6. CASE gzdirect
      BY <2>6 DEF gzdirect
    <2>7. QED
      BY <2>2, <2>3, <2>4, <2>5, <2>6
  <1>2. mode = "read" /\ pc = "idle" /\ pc' = place /\ err' = err
    BY <1>1 DEF BeginRead
  <1>3. UNCHANGED <<size, direct, story, stage, fpos, inb, how, eof, ist>>
    BY <1>1 DEF BeginRead, fileVars, streamVars
  <1>4. QED
    BY <1>1, <1>2, <1>3, StillInSync

\* gzgetc, gzungetc's push, gz_skip, gzgets and gz_read's copy out of the
\* output buffer take no input.
LEMMA OutputInSync ==
    ASSUME IInv, SyncInv, gzgetc \/ Push \/ Skip \/ Gets
    PROVE  SyncInv'
  <1>1. CASE gzgetc
    <2>1. mode = "read" /\ pc = "idle" /\ pc' = pc /\ err' = err
          /\ UNCHANGED <<size, direct, story, stage, fpos, inb, how, eof, ist>>
      BY <1>1 DEF gzgetc, fileVars
    <2>2. QED
      BY <2>1, StillInSync
  <1>2. CASE Push
    <2>1. mode = "read" /\ pc = "push"
      BY <1>2 DEF Push, IInv, Placed, ReadPlaces
    <2>2. UNCHANGED <<size, direct, story, stage, fpos, inb, how, eof, ist>>
      BY <1>2 DEF Push, fileVars
    <2>3. pc' = "idle" /\ err' \in {err, "fatal"}
      BY <1>2 DEF Push, Give, Broken
    <2>4. QED
      BY <2>1, <2>2, <2>3, StillInSync
  <1>3. CASE Skip
    <2>1. mode = "read" /\ pc = "skip" /\ err' = err
      BY <1>3 DEF Skip, IInv, Placed, ReadPlaces
    <2>2. UNCHANGED <<size, direct, story, stage, fpos, inb, how, eof, ist>>
      BY <1>3 DEF Skip, fileVars
    <2>3. pc' \in {ReadBody, pc, "fetch"}
      BY <1>3 DEF Skip, Fetch
    <2>4. ReadBody \notin {"decomped", "peek"}
      <3>1. loc.call \in {"read", "gets", "push", "force"}
        BY <2>1, ReadNow DEF Fetching, ReadPlaces
      <3>2. QED
        BY <3>1 DEF ReadBody
    <2>5. QED
      BY <2>1, <2>2, <2>3, <2>4, StillInSync
  <1>4. CASE Gets
    <2>1. mode = "read" /\ pc \in {"gets", "line"} /\ err' = err
      BY <1>4 DEF Gets, IInv, Placed, ReadPlaces
    <2>2. UNCHANGED <<size, direct, story, stage, fpos, inb, how, eof, ist>>
      BY <1>4 DEF Gets, fileVars
    <2>3. pc' \in {"fetch", "idle", "gets"}
      BY <1>4 DEF Gets, Fetch, Give
    <2>4. QED
      BY <2>1, <2>2, <2>3, StillInSync
  <1>5. QED
    BY <1>1, <1>2, <1>3, <1>4

\* gz_read: what it takes from the file itself it copies.
LEMMA ReadInSync ==
    ASSUME IInv, SyncInv, Read
    PROVE  SyncInv'
  <1>1. mode = "read" /\ pc = "read" /\ UNCHANGED <<mode, size, direct, story, stage, inb, how, ist>>
    BY DEF Read, fileVars, IInv, Placed, ReadPlaces
  <1>2. CASE ReadBuffered
    <2>1. pc' \in {"idle", "read"}
      BY <1>2 DEF ReadBuffered, Took, Give
    <2>2. eof' = eof /\ fpos' = fpos /\ err' = err
      BY <1>2 DEF ReadBuffered
    <2>3. QED
      BY <1>1, <2>1, <2>2, StillInSync
  <1>3. CASE ReadPast \/ ReadFetch
    <2>1. pc' \in {"idle", "fetch"} /\ eof' = eof /\ fpos' = fpos /\ err' = err
      BY <1>3 DEF ReadPast, ReadFetch, Give, Fetch
    <2>2. QED
      BY <1>1, <2>1, StillInSync
  <1>4. CASE ReadDecomp
    <2>1. pc' = "decomp" /\ eof' = eof /\ fpos' = fpos /\ err' = err
      BY <1>4 DEF ReadDecomp
    <2>2. QED
      BY <1>1, <2>1, StillInSync
  <1>5. CASE ReadCopy
    <2>1. how = "copy" /\ pc' \in {"idle", "read"} /\ err' \in {err, "fatal"}
      BY <1>5 DEF ReadCopy, Took, Give, Broken
    <2>2. direct = 1
      BY <1>1, <2>1, ReadNow DEF BehindIs
    <2>3. QED
      BY <1>1, <2>1, <2>2, CopiedInSync
  <1>6. QED
    BY <1>2, <1>3, <1>4, <1>5 DEF Read

\* gzrewind and gzseek: back to the start, or on in the output buffer.
LEMMA SeekInSync ==
    ASSUME IInv, SyncInv, gzrewind \/ ReadSeek
    PROVE  SyncInv'
  <1>1. mode = "read" /\ pc = "idle" /\ pc' = pc /\ UNCHANGED <<size, direct, story, stage, ist>>
    BY DEF gzrewind, ReadSeek, fileVars
  <1>2. CASE Reset
    BY <1>1, <1>2, ResetInSync
  <1>3. CASE ~Reset
    <2>1. PICK t \in Targets, cur \in BOOLEAN :
            \/ t < 0 /\ UNCHANGED <<err, inb, how, eof, fpos>>
            \/ how = "copy" /\ err' = "ok" /\ how' = how
            \/ UNCHANGED <<err, inb, how, eof, fpos>>
      <3>1. ReadSeek
        BY <1>3 DEF gzrewind
      <3>2. QED
        BY <1>3, <3>1 DEF ReadSeek
    <2>2. CASE UNCHANGED <<err, inb, how, eof, fpos>>
      BY <1>1, <2>2, StillInSync
    <2>3. CASE how = "copy" /\ err' = "ok" /\ how' = how
      <3>1. direct = 1
        BY <1>1, <2>3, ReadNow DEF BehindIs
      <3>2. QED
        BY <1>1, <2>3, <3>1, CopiedInSync
    <2>4. QED
      BY <2>1, <2>2, <2>3
  <1>4. QED
    BY <1>2, <1>3

\* What stands in a file stands in it when it has grown.
LEMMA WithinGrows ==
    ASSUME NEW r \in Seq(Items), NEW q \in Seq(Items), NEW c \in Nat, NEW i, c <= Len(r), Len(r) <= Len(q),
           \A n \in 1..Len(r) : q[n] = r[n], Within(r, c, i)
    PROVE  Within(q, c, i)
  <1>1. Len(r) \in Nat /\ Len(q) \in Nat
    OBVIOUS
  <1>2. i = "m1" => c + 1 < Len(q)
    BY <1>1 DEF Within
  <1>3. i = "m2" => c >= 1 /\ c < Len(q) /\ q[c].t = "m1"
    BY <1>1 DEF Within
  <1>4. ASSUME i = "body"
        PROVE  \E k \in 1..(c - 1) : q[k].t = "m1" /\ q[k + 1].t = "m2" /\ \A j \in (k + 2)..c : q[j].t = "d"
    <2>1. PICK k \in 1..(c - 1) : r[k].t = "m1" /\ r[k + 1].t = "m2" /\ \A j \in (k + 2)..c : r[j].t = "d"
      BY <1>4 DEF Within
    <2>2. k \in 1..Len(r) /\ k + 1 \in 1..Len(r) /\ \A j \in (k + 2)..c : j \in 1..Len(r)
      BY <1>1
    <2>3. QED
      BY <2>1, <2>2
  <1>5. QED
    BY <1>2, <1>3, <1>4 DEF Within

\* gzclearerr: the file may have grown.
LEMMA ClearerrInSync ==
    ASSUME IInv, SyncInv, gzclearerr
    PROVE  SyncInv'
  <1>1. /\ mode = "read" /\ pc = "idle" /\ pc' = pc /\ mode' = mode /\ err' = "ok" /\ eof' = FALSE
        /\ UNCHANGED <<size, direct, story, inb, how, fpos, ist>>
        /\ stage' \in {stage} \cup (IF stage < Len(story) THEN {stage + 1} ELSE {})
    BY DEF gzclearerr
  <1>2. story \in Seq(Stages) /\ stage \in 1..Len(story) /\ story \in Stories /\ raw \in Seq(Items)
    BY RawIs, ReadFacts DEF IInv, ReadInv
  <1> DEFINE q == story[stage'].raw
  <1>3. stage' \in 1..Len(story)
    BY <1>1, <1>2
  <1>4. q \in Seq(Items)
    <2>1. story[stage'] \in Stages
      BY <1>2, <1>3
    <2>2. QED
      BY <2>1 DEF Stages
  <1>5. Len(raw) <= Len(q) /\ \A n \in 1..Len(raw) : q[n] = raw[n]
    <2>1. CASE stage' = stage
      BY <1>2, <2>1 DEF raw
    <2>2. CASE stage' # stage
      <3>1. stage' = stage + 1 /\ stage \in 1..(Len(story) - 1)
        BY <1>1, <1>2, <2>2
      <3>2. Len(raw) <= Len(q) /\ SubSeq(q, 1, Len(raw)) = raw
        BY <1>2, <3>1, FilesAssumption DEF raw
      <3>3. ASSUME NEW n \in 1..Len(raw) PROVE q[n] = raw[n]
        <4> HIDE DEF q
        <4>1. SubSeq(q, 1, Len(raw))[n] = q[n]
          BY <1>2, <1>4, <3>2, <3>3
        <4>2. QED
          BY <3>2, <4>1
      <3>4. QED
        BY <3>2, <3>3
    <2>3. QED
      BY <2>1, <2>2
  <1>6. SyncIs(raw, fpos, inb, how, eof, ist, direct, size)
    BY <1>1 DEF SyncInv
  <1>7. raw' = q
    BY <1>1 DEF raw
  <1> HIDE DEF q
  <1>8. SyncIs(q, fpos, inb, how, FALSE, ist, direct, size)
    <2>1. Len(raw) \in Nat /\ Len(q) \in Nat /\ fpos \in Nat /\ Len(inb) \in Nat
      BY <1>2, <1>4, Numbers
    <2>2. direct = -1 => how = "look" /\ fpos = 0 /\ inb = <<>> /\ Len(q) > 1
      BY <1>5, <1>6, <2>1 DEF SyncIs
    <2>3. ASSUME how # "copy"
          PROVE  Len(inb) <= fpos /\ fpos <= Len(q) /\ \A n \in 1..Len(inb) : inb[n] = q[fpos - Len(inb) + n]
      <3>1. Len(inb) <= fpos /\ fpos <= Len(raw) /\ \A n \in 1..Len(inb) : inb[n] = raw[fpos - Len(inb) + n]
        BY <1>6, <2>3 DEF SyncIs
      <3>2. \A n \in 1..Len(inb) : fpos - Len(inb) + n \in 1..Len(raw)
        BY <2>1, <3>1
      <3>3. QED
        BY <1>5, <2>1, <3>1, <3>2
    <2>4. ASSUME how = "gzip" PROVE size > 0 /\ Within(q, fpos - Len(inb), ist)
      <3>1. size > 0 /\ Within(raw, fpos - Len(inb), ist) /\ fpos - Len(inb) \in Nat /\ fpos - Len(inb) <= Len(raw)
        BY <1>6, <2>1, <2>4 DEF SyncIs
      <3>2. QED
        BY <1>2, <1>4, <1>5, <3>1, WithinGrows
    <2>5. QED
      BY <2>2, <2>3, <2>4 DEF SyncIs
  <1>9. SyncIs(raw, fpos, inb, how, eof, ist, direct, size)'
    BY <1>1, <1>7, <1>8, Zenon
  <1>10. Told'
    <2>1. how = "gzip" /\ ist = "done" => pc = "decomped"
      BY <1>1 DEF SyncInv, Told
    <2>2. QED
      BY <1>1, <2>1 DEF Told
  <1>11. QED
    BY <1>9, <1>10 DEF SyncInv

-----------------------------------------------------------------------------
(* gz_load and gz_look.                                                    *)

\* gz_load reads on from the descriptor, less than asked for only at the end.
LEMMA LoadedIs ==
    ASSUME IInv, mode = "read", NEW n \in Nat, fpos <= Len(raw)
    PROVE  /\ Loads(n) \in 0..n /\ fpos + Loads(n) <= Len(raw)
           /\ Loads(n) < n => fpos + Loads(n) = Len(raw)
           /\ Loaded(n) \in Seq(Items) /\ Len(Loaded(n)) = Loads(n)
           /\ \A j \in 1..Loads(n) : Loaded(n)[j] = raw[fpos + j]
  <1>1. ReadTypeOK /\ ReadTypes /\ raw \in Seq(Items) /\ fpos \in Nat /\ Len(raw) \in Nat
    BY RawIs, Numbers DEF IInv, ReadInv
  <1>2. Loads(n) \in 0..n /\ Loaded(n) \in Seq(Items) /\ Len(Loaded(n)) = Loads(n)
    BY <1>1, LoadIs
  <1>3. fpos + Loads(n) <= Len(raw) /\ (Loads(n) < n => fpos + Loads(n) = Len(raw))
    BY <1>1 DEF Loads, Lesser
  <1> DEFINE k == Loads(n)
  <1>4. k \in Nat /\ fpos + k <= Len(raw)
    BY <1>2, <1>3
  <1>5. Loaded(n) = SubSeq(raw, fpos + 1, fpos + k)
    BY DEF Loaded
  <1> HIDE DEF k
  <1>6. \A j \in 1..k : SubSeq(raw, fpos + 1, fpos + k)[j] = raw[fpos + j]
    BY <1>1, <1>4
  <1>7. QED
    BY <1>2, <1>3, <1>5, <1>6 DEF k

\* The bytes gz_look looks at are those in front of the descriptor.
LEMMA LooksInFront ==
    ASSUME IInv, SyncInv, mode = "read", how = "look", NEW b, NEW f, NEW e,
           b = (IF Len(inb) < 2 THEN Avail(want) ELSE inb),
           f = (IF Len(inb) < 2 /\ ~eof THEN fpos + Loads(want - Len(inb)) ELSE fpos),
           e = (eof \/ (Len(inb) < 2 /\ Loads(want - Len(inb)) < want - Len(inb)))
    PROVE  /\ b \in Seq(Items) /\ f \in Nat /\ Len(b) <= f /\ f <= Len(raw)
           /\ \A n \in 1..Len(b) : b[n] = raw[f - Len(b) + n]
           /\ e /\ b # <<>> => f = Len(raw)
  <1>1. /\ Len(inb) <= fpos /\ fpos <= Len(raw) /\ \A n \in 1..Len(inb) : inb[n] = raw[fpos - Len(inb) + n]
        /\ eof /\ inb # <<>> => fpos = Len(raw)
    BY DEF SyncInv, SyncIs
  <1>2. /\ inb \in Seq(Items) /\ Len(inb) \in Nat /\ fpos \in Nat /\ want \in Nat /\ want >= 2 /\ Len(inb) <= size
        /\ size \in {0, want}
    BY Numbers, ReadFacts
  <1>3. CASE eof \/ ~(Len(inb) < 2)
    <2>1. b = inb /\ f = fpos /\ (e => eof)
      BY <1>3 DEF Avail
    <2>2. QED
      BY <1>1, <1>2, <2>1
  <1>4. CASE ~eof /\ Len(inb) < 2
    <2> DEFINE m == want - Len(inb)
               k == Loads(m)
               l == Loaded(m)
    <2>1. m \in Nat
      BY <1>2, <1>4
    <2>2. /\ k \in 0..m /\ fpos + k <= Len(raw) /\ (k < m => fpos + k = Len(raw))
          /\ l \in Seq(Items) /\ Len(l) = k /\ \A j \in 1..k : l[j] = raw[fpos + j]
      BY <1>1, <2>1, LoadedIs
    <2>3. b = inb \o l /\ f = fpos + k /\ (e => k < m)
      BY <1>4 DEF Avail
    <2> HIDE DEF m, k, l
    <2>8. k \in Nat
      BY <2>1, <2>2
    <2>9. inb \in Seq(Items) /\ l \in Seq(Items)
      BY <1>2, <2>2
    <2>10. /\ inb \o l \in Seq(Items) /\ Len(inb \o l) = Len(inb) + Len(l)
           /\ \A n \in 1..(Len(inb) + Len(l)) : (inb \o l)[n] = IF n <= Len(inb) THEN inb[n] ELSE l[n - Len(inb)]
      BY <2>9, ConcatProperties, Zenon
    <2>11. b = inb \o l /\ Len(l) = k
      BY <2>2, <2>3
    <2>4. /\ k \in Nat /\ b \in Seq(Items) /\ Len(b) = Len(inb) + k
          /\ \A n \in 1..(Len(inb) + k) : b[n] = IF n <= Len(inb) THEN inb[n] ELSE l[n - Len(inb)]
      BY <2>8, <2>10, <2>11, Zenon
    <2>5. f \in Nat /\ Len(b) <= f /\ f <= Len(raw) /\ (e => f = Len(raw)) /\ f - Len(b) = fpos - Len(inb)
      BY <1>1, <1>2, <2>2, <2>3, <2>4, SMTT(30)
    <2>6. ASSUME NEW n \in 1..Len(b) PROVE b[n] = raw[f - Len(b) + n]
      <3>1. CASE n <= Len(inb)
        <4>1. n \in 1..Len(inb) /\ b[n] = inb[n]
          BY <1>2, <2>4, <2>6, <3>1
        <4>2. QED
          BY <1>1, <2>5, <4>1
      <3>2. CASE ~(n <= Len(inb))
        <4> DEFINE j == n - Len(inb)
        <4>1. j \in 1..k /\ b[n] = l[j] /\ n = Len(inb) + j
          BY <1>2, <2>4, <2>6, <3>2
        <4>2. fpos + j = fpos - Len(inb) + n
          BY <1>2, <4>1
        <4> HIDE DEF j
        <4>3. QED
          BY <2>2, <2>5, <4>1, <4>2
      <3>3. QED
        BY <3>1, <3>2
    <2>7. QED
      BY <2>4, <2>5, <2>6
  <1>5. QED
    BY <1>3, <1>4

\* gz_look: a magic header begins a member, of which both bytes are there; when
\* nothing but gzip is accepted the member begins the file.
LEMMA LookInSync ==
    ASSUME IInv, SyncInv, mode = "read", how = "look", Look
    PROVE  SyncIs(raw, fpos', inb', how', eof', ist', direct', size') /\ (how' = "gzip" => ist' = "m1")
  <1>1. /\ direct = -1 => fpos = 0 /\ inb = <<>> /\ ~eof /\ Len(raw) > 1
        /\ fpos <= Len(raw)
    BY DEF SyncInv, SyncIs
  <1>2. raw \in Seq(Items) /\ Len(raw) \in Nat /\ want \in Nat /\ want > 0 /\ size' = want /\ Len(<<>>) = 0
    BY RawIs, Numbers DEF Look, IInv, ReadInv
  <1>3. direct \in {-1, 0, 1} /\ eof \in BOOLEAN /\ fpos \in Nat
    BY ReadNow DEF Values
  <1>4. CASE direct = -1
    <2>1. inb' = <<>> /\ how' = "gzip" /\ direct' = 0 /\ ist' = "m1" /\ fpos' = 0 /\ eof' = FALSE
      BY <1>1, <1>3, <1>4 DEF Look, Inflating
    <2>2. SyncIs(raw, 0, <<>>, "gzip", FALSE, "m1", 0, want)
      BY <1>1, <1>2, <1>4 DEF SyncIs, Within
    <2>3. QED
      BY <1>2, <2>1, <2>2
  <1>5. CASE direct # -1
    <2> DEFINE b == IF Len(inb) < 2 THEN Avail(want) ELSE inb
               f == IF Len(inb) < 2 /\ ~eof THEN fpos + Loads(want - Len(inb)) ELSE fpos
               e == eof \/ (Len(inb) < 2 /\ Loads(want - Len(inb)) < want - Len(inb))
    <2>1. LookAt(b) /\ fpos' = f /\ eof' = (e \/ Garbage(b))
      BY <1>5 DEF Look
    <2>2. /\ b \in Seq(Items) /\ f \in Nat /\ Len(b) <= f /\ f <= Len(raw)
          /\ \A n \in 1..Len(b) : b[n] = raw[f - Len(b) + n]
          /\ e /\ b # <<>> => f = Len(raw)
      BY LooksInFront
    <2>9. e \in BOOLEAN
      BY <1>3
    <2> HIDE DEF b, f, e
    <2>3. Len(b) \in Nat
      BY <2>2
    <2>4. CASE b = <<>>
      <3>1. inb' = <<>> /\ how' = "look" /\ direct' = direct
        BY <1>2, <2>1, <2>4 DEF LookAt, IsMagic
      <3>2. SyncIs(raw, f, <<>>, "look", eof', ist', direct, want)
        BY <1>2, <1>5, <2>2 DEF SyncIs
      <3>3. QED
        BY <1>2, <2>1, <3>1, <3>2
    <2>5. CASE IsMagic(b) /\ b # <<>>
      <3>1. inb' = b /\ how' = "gzip" /\ direct' = 0 /\ ist' = "m1" /\ eof' = e
        BY <2>1, <2>5, <2>9 DEF LookAt, Inflating, Garbage
      <3>2. f - Len(b) + 1 < Len(raw)
        BY <1>2, <2>2, <2>3, <2>5 DEF IsMagic
      <3>3. SyncIs(raw, f, b, "gzip", e, "m1", 0, want)
        BY <1>2, <2>2, <2>5, <3>2 DEF SyncIs, Within
      <3>4. QED
        BY <1>2, <2>1, <3>1, <3>3
    <2>6. CASE b # <<>> /\ ~IsMagic(b) /\ direct = 0
      <3>1. inb' = <<>> /\ how' = "look" /\ direct' = 0
        BY <2>1, <2>6 DEF LookAt
      <3>2. SyncIs(raw, f, <<>>, "look", eof', ist', 0, want)
        BY <1>2, <2>2 DEF SyncIs
      <3>3. QED
        BY <1>2, <2>1, <3>1, <3>2
    <2>7. CASE b # <<>> /\ ~IsMagic(b) /\ direct # 0
      <3>1. how' = "copy" /\ direct' = 1
        BY <2>1, <2>7 DEF LookAt
      <3>2. QED
        BY <3>1 DEF SyncIs
    <2>8. QED
      BY <2>4, <2>5, <2>6, <2>7
  <1>6. QED
    BY <1>4, <1>5

\* The callers of gz_look report nothing of their own.
LEMMA LookedInSync ==
    ASSUME IInv, SyncInv, mode = "read", how = "look", Look, err' = err, story' = story, stage' = stage,
           pc' \notin {"decomped", "peek"}
    PROVE  SyncInv'
  <1>1. SyncIs(raw, fpos', inb', how', eof', ist', direct', size') /\ (how' = "gzip" => ist' = "m1")
    BY LookInSync
  <1>2. raw' = raw
    BY DEF raw
  <1>3. SyncIs(raw, fpos, inb, how, eof, ist, direct, size)'
    BY <1>1, <1>2
  <1>4. err' = "buf" => ~story'[stage'].whole
    BY DEF SyncInv, Told
  <1>5. Told'
    BY <1>1, <1>4 DEF Told
  <1>6. QED
    BY <1>3, <1>5 DEF SyncInv

-----------------------------------------------------------------------------
(* gz_fetch.                                                               *)

\* gzungetc and gzdirect look at the file when nothing is known of it.
LEMMA PeekInSync ==
    ASSUME IInv, SyncInv, Peek
    PROVE  SyncInv'
  <1>1. mode = "read" /\ pc = "peek" /\ UNCHANGED <<story, stage>>
    BY DEF Peek, fileVars, IInv, Placed, ReadPlaces
  <1>2. how = "look"
    BY <1>1 DEF SyncInv, Told
  <1>3. CASE Look /\ err' = err /\ pc' \in {"idle", SkipFirst("push")}
    <2>1. pc' \in {"idle", "skip", "push"}
      BY <1>3 DEF SkipFirst
    <2>2. QED
      BY <1>1, <1>2, <1>3, <2>1, LookedInSync
  <1>4. CASE Broken /\ UNCHANGED <<size, direct, inb, how, eof, ist, fpos>>
    BY <1>1, <1>4, StillInSync DEF Broken, Give
  <1>5. QED
    BY <1>3, <1>4 DEF Peek, Give

LEMMA FetchInSync ==
    ASSUME IInv, SyncInv, FetchStep
    PROVE  SyncInv'
  <1>1. mode = "read" /\ pc = "fetch" /\ UNCHANGED <<story, stage>>
    BY DEF FetchStep, fileVars, IInv, Placed, ReadPlaces
  <1>2. loc.back \in {"skip", "read", "line"}
    BY <1>1, ReadNow DEF Fetching, Locals
  <1>3. CASE FetchLook
    <2>1. CASE Broken /\ UNCHANGED <<size, direct, inb, how, eof, ist, fpos>>
      BY <1>1, <2>1, StillInSync DEF Broken, Give
    <2>2. CASE Look /\ err' = err /\ pc' \in {"fetch", loc.back}
      BY <1>1, <1>2, <1>3, <2>2, LookedInSync DEF FetchLook
    <2>3. QED
      BY <1>3, <2>1, <2>2 DEF FetchLook, FetchOn
  <1>4. CASE FetchCopy
    <2>1. how = "copy" /\ how' = how /\ direct' = direct /\ err' \in {err, "fatal"} /\ pc' \in {"idle", loc.back}
      BY <1>4 DEF FetchCopy, Broken, Give
    <2>2. direct = 1
      BY <1>1, <2>1, ReadNow DEF BehindIs
    <2>3. QED
      BY <1>1, <1>2, <2>1, <2>2, CopiedInSync
  <1>5. CASE FetchGzip
    <2>1. pc' = "decomp" /\ err' = err /\ UNCHANGED <<size, direct, inb, how, eof, ist, fpos>>
      BY <1>5 DEF FetchGzip
    <2>2. QED
      BY <1>1, <2>1, StillInSync
  <1>6. QED
    BY <1>3, <1>4, <1>5 DEF FetchStep

-----------------------------------------------------------------------------
(* gz_decomp.                                                              *)

\* inflate takes the item behind c.
LEMMA TakesOne ==
    ASSUME NEW r \in Seq(Items), NEW c \in Nat, c + 1 <= Len(r), NEW i, Within(r, c, i)
    PROVE  /\ i = "m1" /\ r[c + 1].t = "m1" => Within(r, c + 1, "m2")
           /\ i = "m2" /\ r[c + 1].t = "m2" => Within(r, c + 1, "body")
           /\ i = "body" /\ r[c + 1].t = "d" => Within(r, c + 1, "body")
           /\ Within(r, c + 1, "done")
  <1>0. Len(r) \in Nat
    OBVIOUS
  <1>1. ASSUME i = "m1", r[c + 1].t = "m1" PROVE Within(r, c + 1, "m2")
    BY <1>0, <1>1 DEF Within
  <1>2. ASSUME i = "m2", r[c + 1].t = "m2" PROVE Within(r, c + 1, "body")
    <2>1. c \in 1..(c + 1 - 1) /\ r[c].t = "m1"
      BY <1>2 DEF Within
    <2>2. \A j \in (c + 2)..(c + 1) : r[j].t = "d"
      OBVIOUS
    <2>3. QED
      BY <1>2, <2>1, <2>2 DEF Within
  <1>3. ASSUME i = "body", r[c + 1].t = "d" PROVE Within(r, c + 1, "body")
    <2>1. PICK k \in 1..(c - 1) : r[k].t = "m1" /\ r[k + 1].t = "m2" /\ \A j \in (k + 2)..c : r[j].t = "d"
      BY <1>3 DEF Within
    <2>2. k \in 1..(c + 1 - 1)
      OBVIOUS
    <2>3. \A j \in (k + 2)..(c + 1) : r[j].t = "d"
      BY <1>3, <2>1
    <2>4. QED
      BY <2>1, <2>2, <2>3 DEF Within
  <1>4. QED
    BY <1>1, <1>2, <1>3 DEF Within

\* When the file ends and inflate expects more, it ends inside a member.
LEMMA EndsWithin ==
    ASSUME NEW r \in Seq(Items), NEW i \in {"m1", "m2", "body"}, Within(r, Len(r), i)
    PROVE  Cut(r)
  <1>1. Len(r) \in Nat /\ i = "body"
    BY DEF Within
  <1>2. QED
    BY <1>1 DEF Within, Cut

\* Where gz_decomp stands
LEMMA DecompNow ==
    ASSUME IInv, SyncInv, Decomp
    PROVE  /\ mode = "read" /\ pc = "decomp" /\ how = "gzip" /\ direct = 0 /\ raw' = raw
           /\ UNCHANGED <<mode, size, direct, story, stage, how>>
           /\ raw \in Seq(Items) /\ inb \in Seq(Items) /\ size \in Nat /\ size > 0 /\ fpos \in Nat
           /\ Len(inb) <= fpos /\ fpos <= Len(raw) /\ (eof => fpos = Len(raw)) /\ eof \in BOOLEAN
           /\ \A n \in 1..Len(inb) : inb[n] = raw[fpos - Len(inb) + n]
           /\ Within(raw, fpos - Len(inb), ist) /\ ist \in {"m1", "m2", "body"}
           /\ err = "buf" => ~story[stage].whole
           /\ story \in Stories /\ stage \in 1..Len(story)
  <1>1. /\ mode = "read" /\ pc = "decomp" /\ how = "gzip" /\ direct = 0
        /\ UNCHANGED <<mode, size, direct, story, stage, how>>
    BY DecompKeeps
  <1>2. raw' = raw
    BY <1>1 DEF raw
  <1>3. raw \in Seq(Items) /\ story \in Stories /\ stage \in 1..Len(story) /\ inb \in Seq(Items)
    BY RawIs DEF IInv, ReadInv, ReadTypes
  <1>4. size \in Nat /\ fpos \in Nat /\ eof \in BOOLEAN /\ ist \in {"m1", "m2", "body", "done"}
    BY <1>1, Numbers, ReadNow DEF Values
  <1>5. SyncIs(raw, fpos, inb, how, eof, ist, direct, size) /\ Told
    BY <1>1 DEF SyncInv
  <1>6. ist # "done" /\ (err = "buf" => ~story[stage].whole)
    BY <1>1, <1>5 DEF Told
  <1>7. /\ size > 0 /\ Len(inb) <= fpos /\ fpos <= Len(raw) /\ (eof => fpos = Len(raw))
        /\ \A n \in 1..Len(inb) : inb[n] = raw[fpos - Len(inb) + n]
        /\ Within(raw, fpos - Len(inb), ist)
    BY <1>1, <1>5 DEF SyncIs
  <1>8. QED
    BY <1>1, <1>2, <1>3, <1>4, <1>6, <1>7, Zenon

\* What is to be shown of a step of gz_decomp
LEMMA DecompInSync ==
    ASSUME IInv, SyncInv, Decomp, NEW f \in Nat, NEW b \in Seq(Items), NEW e \in BOOLEAN, NEW i,
           fpos' = f, inb' = b, eof' = e, ist' = i,
           Len(b) <= f, f <= Len(raw), e => f = Len(raw),
           \A n \in 1..Len(b) : b[n] = raw[f - Len(b) + n], Within(raw, f - Len(b), i),
           err' = "buf" => ~story[stage].whole,
           pc' = "decomped" /\ loc'.room > 0 => i = "done" \/ err' = "buf",
           i = "done" => pc' = "decomped", pc' # "peek"
    PROVE  SyncInv'
  <1>1. size > 0 /\ how' = "gzip" /\ direct' = 0 /\ size' = size /\ raw' = raw /\ story' = story /\ stage' = stage
    BY DecompNow
  <1>2. SyncIs(raw, f, b, "gzip", e, i, 0, size)
    BY <1>1 DEF SyncIs
  <1>3. SyncIs(raw, fpos, inb, how, eof, ist, direct, size)'
    BY <1>1, <1>2
  <1>4. Told'
    BY <1>1 DEF Told
  <1>5. QED
    BY <1>3, <1>4 DEF SyncInv

\* inflate broke off: nothing was taken
LEMMA DecompBroken ==
    ASSUME IInv, SyncInv, Decomp, Broken, UNCHANGED <<inb, fpos, eof, ist>>
    PROVE  SyncInv'
  <1>1. mode = "read" /\ pc = "decomp" /\ UNCHANGED <<size, direct, story, stage, how>>
    BY DecompNow
  <1>2. err' = "fatal" /\ pc' = "idle"
    BY DEF Broken, Give
  <1>3. QED
    BY <1>1, <1>2, StillInSync

\* The input buffer is filled from the descriptor.
LEMMA DecompLoadInSync ==
    ASSUME IInv, SyncInv, Decomp, DecompLoad
    PROVE  SyncInv'
  <1>1. CASE Broken /\ UNCHANGED <<inb, fpos, eof>>
    BY <1>1, DecompBroken DEF DecompLoad
  <1>2. CASE inb' = Loaded(size) /\ Load(size) /\ UNCHANGED <<err, pc>>
    <2> DEFINE k == Loads(size)
               b == Loaded(size)
               f == fpos + k
               e == eof \/ k < size
    <2>1. inb = <<>> /\ ~eof /\ inb' = b /\ fpos' = f /\ eof' = e /\ ist' = ist /\ err' = err /\ pc' = pc
      BY <1>2 DEF DecompLoad, Load
    <2>2. /\ k \in 0..size /\ f <= Len(raw) /\ (k < size => f = Len(raw))
          /\ b \in Seq(Items) /\ Len(b) = k /\ \A j \in 1..k : b[j] = raw[fpos + j]
      BY DecompNow, LoadedIs
    <2>3. e \in BOOLEAN
      BY DecompNow
    <2>4. k \in Nat /\ f \in Nat /\ f - k = fpos
      BY <2>2, DecompNow
    <2>5. e => f = Len(raw)
      BY <2>1, <2>2
    <2> HIDE DEF k, b, f, e
    <2>6. Len(<<>>) = 0 /\ fpos - 0 = fpos
      BY DecompNow
    <2>7. Within(raw, f - Len(b), ist)
      BY <2>1, <2>2, <2>4, <2>6, DecompNow
    <2>8. \A n \in 1..Len(b) : b[n] = raw[f - Len(b) + n]
      BY <2>2, <2>4
    <2>9. Len(b) <= f
      BY <2>2, <2>4, DecompNow
    <2>10. err' = "buf" => ~story[stage].whole
      BY <2>1, DecompNow
    <2>11. pc' = "decomp" /\ ist # "done"
      BY <2>1, DecompNow
    <2>12. QED
      BY <2>1, <2>2, <2>3, <2>4, <2>5, <2>7, <2>8, <2>9, <2>10, <2>11, DecompInSync
  <1>3. QED
    BY <1>1, <1>2 DEF DecompLoad

\* The file ends: inside the member, whose end was not met.
LEMMA DecompEndInSync ==
    ASSUME IInv, SyncInv, Decomp, DecompEnd
    PROVE  SyncInv'
  <1>1. /\ inb = <<>> /\ (eof \/ Loads(size) = 0) /\ eof' = TRUE /\ err' = "buf" /\ pc' = "decomped"
        /\ inb' = inb /\ fpos' = fpos /\ ist' = ist
    BY DEF DecompEnd
  <1>2. fpos = Len(raw)
    <2>1. CASE eof
      BY <2>1, DecompNow
    <2>2. CASE Loads(size) = 0
      BY <2>2, DecompNow, LoadedIs
    <2>3. QED
      BY <1>1, <2>1, <2>2
  <1>3. Within(raw, Len(raw), ist)
    <2>1. Len(inb) = 0 /\ fpos - 0 = fpos
      BY <1>1, DecompNow
    <2>2. QED
      BY <1>2, <2>1, DecompNow
  <1>4. ~story[stage].whole
    <2>1. Cut(raw)
      BY <1>3, DecompNow, EndsWithin
    <2>2. QED
      BY <2>1, DecompNow, FilesAssumption DEF raw
  <1>5. QED
    BY <1>1, <1>2, <1>4, DecompNow, DecompInSync

\* inflate takes the next item, or gives more of what it holds.
LEMMA InflatesInSync ==
    ASSUME IInv, SyncInv, Decomp, inb # <<>>, fpos' = fpos, eof' = eof,
           NEW bytes, NEW b, NEW next, Inflates(bytes, b, next),
           \/ b = inb /\ next = ist
           \/ b = SubSeq(inb, 2, Len(inb)) /\ Within(raw, fpos - Len(inb) + 1, next)
    PROVE  SyncInv'
  <1>1. Len(inb) \in Nat /\ Len(inb) > 0
    BY DecompNow, EmptySeq
  <1>2. /\ b \in Seq(Items) /\ Len(b) <= fpos /\ Within(raw, fpos - Len(b), next)
        /\ \A n \in 1..Len(b) : b[n] = raw[fpos - Len(b) + n]
    <2>1. CASE b = inb /\ next = ist
      BY <2>1, DecompNow
    <2>2. CASE b = SubSeq(inb, 2, Len(inb)) /\ Within(raw, fpos - Len(inb) + 1, next)
      <3>1. b \in Seq(Items) /\ Len(b) = Len(inb) - 1
        <4>1. inb \in Seq(Items) /\ 1 \in 0..Len(inb) /\ 1 + 1 = 2
          BY <1>1, DecompNow
        <4>2. SubSeq(inb, 1 + 1, Len(inb)) \in Seq(Items) /\ Len(SubSeq(inb, 1 + 1, Len(inb))) = Len(inb) - 1
          BY <4>1, RestIs
        <4>3. QED
          BY <2>2, <4>1, <4>2
      <3>2. fpos - Len(b) = fpos - Len(inb) + 1 /\ Len(b) <= fpos
        BY <1>1, <3>1, DecompNow
      <3>3. \A n \in 1..Len(b) : b[n] = inb[n + 1]
        BY <1>1, <2>2, <3>1, DecompNow
      <3>4. ASSUME NEW n \in 1..Len(b) PROVE b[n] = raw[fpos - Len(b) + n]
        <4>1. n + 1 \in 1..Len(inb) /\ fpos - Len(inb) + (n + 1) = fpos - Len(b) + n
          <5> DEFINE l == Len(inb)
                     m == Len(b)
          <5>1. l \in Nat /\ m = l - 1 /\ n \in 1..m
            BY <1>1, <3>1, <3>4
          <5>2. fpos \in Nat
            BY DecompNow
          <5> HIDE DEF l, m
          <5>3. n + 1 \in 1..l /\ fpos - l + (n + 1) = fpos - m + n
            BY <5>1, <5>2
          <5>4. QED
            BY <5>3 DEF l, m
        <4>2. inb[n + 1] = raw[fpos - Len(inb) + (n + 1)]
          BY <4>1, DecompNow
        <4>3. QED
          BY <3>3, <4>1, <4>2
      <3>5. QED
        BY <2>2, <3>1, <3>2, <3>4
    <2>3. QED
      BY <2>1, <2>2
  <1> DEFINE k == Lesser(loc.room, Len(bytes))
  <1>3. /\ inb' = b /\ ist' = next /\ err' = err
        /\ pc' = (IF loc.room = k \/ next = "done" THEN "decomped" ELSE pc)
        /\ loc' = [loc EXCEPT !.dout = @ \o SubSeq(bytes, 1, k), !.room = @ - k]
    BY DEF Inflates
  <1>4. loc \in Locals /\ loc.room \in Nat
    BY ReadNow, DecompNow DEF Locals
  <1> HIDE DEF k
  <1>5. loc.room = k => loc'.room = 0
    BY <1>3, <1>4 DEF Locals
  <1>6. pc' = "decomped" /\ loc'.room > 0 => next = "done"
    BY <1>3, <1>5, DecompNow
  <1>7. (next = "done" => pc' = "decomped") /\ pc' # "peek"
    BY <1>3, DecompNow
  <1>8. QED
    BY <1>2, <1>3, <1>6, <1>7, DecompNow, DecompInSync

LEMMA DecompItemInSync ==
    ASSUME IInv, SyncInv, Decomp, DecompItem
    PROVE  SyncInv'
  <1> DEFINE i == inb[1]
             more == SubSeq(inb, 2, Len(inb))
             c == fpos - Len(inb)
  <1>1. inb # <<>> /\ fpos' = fpos /\ eof' = eof
    BY DEF DecompItem
  <1>2. Len(inb) \in Nat /\ Len(inb) > 0
    BY <1>1, DecompNow, EmptySeq
  <1>3. c \in Nat /\ c + 1 <= Len(raw)
    BY <1>2, DecompNow
  <1>4. i = raw[c + 1]
    <2>1. 1 \in 1..Len(inb) /\ \A n \in 1..Len(inb) : inb[n] = raw[fpos - Len(inb) + n]
      BY <1>2, DecompNow
    <2>2. QED
      BY <2>1
  <1>5. \/ Inflates(held, inb, ist)
        \/ ist = "m1" /\ i.t = "m1" /\ Inflates(<<>>, more, "m2")
        \/ ist = "m2" /\ i.t = "m2" /\ Inflates(<<>>, more, "body")
        \/ ist = "body" /\ i.t = "d" /\ Inflates(i.v, more, "body")
        \/ Inflates(<<>>, more, "done")
        \/ Broken /\ UNCHANGED <<inb, ist, held>>
    BY DEF DecompItem
  <1> HIDE DEF i
  <1>6. /\ ist = "m1" /\ i.t = "m1" => Within(raw, c + 1, "m2")
        /\ ist = "m2" /\ i.t = "m2" => Within(raw, c + 1, "body")
        /\ ist = "body" /\ i.t = "d" => Within(raw, c + 1, "body")
        /\ Within(raw, c + 1, "done")
    <2>1. Within(raw, c, ist) /\ raw \in Seq(Items)
      BY DecompNow
    <2> HIDE DEF c
    <2>2. QED
      BY <1>3, <1>4, <2>1, TakesOne
  <1>7. CASE Broken /\ UNCHANGED <<inb, ist, held>>
    BY <1>1, <1>7, DecompBroken
  <1>8. CASE Inflates(held, inb, ist)
    BY <1>1, <1>8, InflatesInSync
  <1>9. ASSUME NEW bytes, NEW next, Inflates(bytes, more, next), Within(raw, c + 1, next)
        PROVE  SyncInv'
    BY <1>1, <1>9, InflatesInSync
  <1>10. QED
    BY <1>5, <1>6, <1>7, <1>8, <1>9

\* gz_decomp returns.
LEMMA DecompedInSync ==
    ASSUME IInv, SyncInv, Decomped
    PROVE  SyncInv'
  <1>1. mode = "read" /\ pc = "decomped" /\ how = "gzip" /\ direct = 0
    <2>1. mode = "read" /\ pc = "decomped"
      BY DEF Decomped, IInv, Placed, ReadPlaces
    <2>2. QED
      BY <2>1, ReadNow DEF Fetching, BehindIs
  <1>2. UNCHANGED <<mode, size, direct, story, stage, ist, err, inb, eof, fpos>> /\ how' = NextHow
    BY DEF Decomped, fileVars
  <1>3. pc' \in {"idle", "read", "fetch", loc.back}
    BY DEF Decomped, Took, Give, FetchOn
  <1>4. loc.back \in {"none", "skip", "read", "line"}
    BY <1>1, ReadNow DEF Locals
  <1>5. SyncIs(raw, fpos, inb, how, eof, ist, direct, size) /\ (err = "buf" => ~story[stage].whole)
    BY <1>1 DEF SyncInv, Told
  <1>6. SyncIs(raw, fpos, inb, NextHow, eof, ist, direct, size)
    BY <1>1, <1>5 DEF SyncIs, NextHow
  <1>7. raw' = raw
    BY <1>2 DEF raw
  <1>8. SyncIs(raw, fpos, inb, how, eof, ist, direct, size)'
    BY <1>2, <1>6, <1>7
  <1>9. how' = "gzip" => ist' # "done"
    BY <1>2 DEF NextHow
  <1>10. Told'
    BY <1>2, <1>3, <1>4, <1>5, <1>9 DEF Told
  <1>11. QED
    BY <1>8, <1>10 DEF SyncInv

-----------------------------------------------------------------------------
(* Every step.                                                             *)

LEMMA ReadingInSync ==
    ASSUME IInv, SyncInv, Reading
    PROVE  SyncInv'
  <1>1. CASE gzclose_r
    BY <1>1 DEF gzclose_r, SyncInv
  <1>2. QED
    BY <1>1, BeginsInSync, OutputInSync, PeekInSync, SeekInSync, ClearerrInSync, ReadInSync, FetchInSync,
       DecompLoadInSync, DecompEndInSync, DecompItemInSync, DecompedInSync DEF Reading, ReadNext, Decomp

\* A file that is written is not read.
LEMMA WritingInSync ==
    ASSUME IInv, Writing
    PROVE  SyncInv'
  <1>1. mode' \in {mode, "closed"}
    BY DEF Writing, WriteNext, gzwrite, gzputc, gzprintf, gzflush, gzsetparams, gzclose_w, Start, WriteSeek,
           Begin, ZeroRound, ZeroDone, Body, Moved, Params, Comp, CompWrite, CompDeflate, Closed
  <1>2. mode = "write"
    BY DEF Writing, WriteNext, gzwrite, gzputc, gzprintf, gzflush, gzsetparams, gzclose_w, Start, WriteSeek,
           Begin, ZeroRound, ZeroDone, Body, Moved, Params, Comp, CompWrite, CompDeflate, Closed,
           IInv, Placed, WritePlaces
  <1>3. QED
    BY <1>1, <1>2 DEF SyncInv

\* gzbuffer, and a step that changes nothing
LEMMA OthersInSync ==
    ASSUME SyncInv, Sizing \/ UNCHANGED vars
    PROVE  SyncInv'
  <1>1. CASE Sizing
    <2>1. mode' = mode /\ pc = "idle" /\ pc' = pc /\ err' \in {err, "fatal"}
          /\ UNCHANGED <<size, direct, story, stage, fpos, inb, how, eof, ist>>
      BY <1>1 DEF Sizing, Buffer, readVars, fileVars, streamVars
    <2>2. CASE mode = "read"
      BY <2>1, <2>2, StillInSync
    <2>3. CASE mode # "read"
      BY <2>1, <2>3 DEF SyncInv
    <2>4. QED
      BY <2>2, <2>3
  <1>2. CASE UNCHANGED vars
    <2>1. UNCHANGED <<mode, size, direct, err, pc, story, stage, fpos, inb, how, eof, ist, loc>>
      BY <1>2 DEF vars, gzVars, readVars, fileVars, streamVars
    <2>2. raw' = raw
      BY <2>1 DEF raw
    <2>3. SyncIs(raw, fpos, inb, how, eof, ist, direct, size)' = SyncIs(raw, fpos, inb, how, eof, ist, direct, size)
      BY <2>1, <2>2, Zenon
    <2>4. Told' = Told
      BY <2>1 DEF Told
    <2>5. QED
      BY <2>1, <2>3, <2>4 DEF SyncInv
  <1>3. QED
    BY <1>1, <1>2

LEMMA SyncInit == Init => SyncInv
  <1> SUFFICES ASSUME Init, mode = "read"
               PROVE  SyncIs(raw, fpos, inb, how, eof, ist, direct, size) /\ Told
    BY DEF SyncInv
  <1>1. /\ fpos = 0 /\ inb = <<>> /\ how = "look" /\ eof = FALSE /\ err = "ok" /\ pc = "idle"
        /\ direct = -1 => Len(raw) > 1
    BY DEF Init, ReadInit, Open
  <1>2. raw \in Seq(Items)
    BY InitIs, RawIs DEF IInv, ReadInv
  <1>3. Len(raw) \in Nat /\ Len(<<>>) = 0
    BY <1>2
  <1>4. SyncIs(raw, fpos, inb, how, eof, ist, direct, size)
    BY <1>1, <1>3 DEF SyncIs
  <1>5. Told
    BY <1>1 DEF Told
  <1>6. QED
    BY <1>4, <1>5

\* gzread, gzgets, gzgetc, gzungetc, gzdirect, gzseek, gzclearerr: a file for
\* which Z_BUF_ERROR is set ends inside a member, and gz_decomp leaves output
\* space unused only at the end of a member or with that error, for every file
\* that grows as it is read, all buffer sizes and whatever calls are made.
THEOREM BufErrorIsExact == Spec => []BufErrorExact
  <1>1. Init => IInv /\ SyncInv
    BY InitIs, SyncInit
  <1>2. IInv /\ SyncInv /\ [Next]_vars => (IInv /\ SyncInv)'
    <2>1. SUFFICES ASSUME IInv, SyncInv, [Next]_vars PROVE IInv' /\ SyncInv'
      OBVIOUS
    <2>2. IInv'
      BY <2>1, NextStep, StutterStep
    <2>3. SyncInv'
      BY <2>1, ReadingInSync, WritingInSync, OthersInSync DEF Next
    <2>4. QED
      BY <2>2, <2>3
  <1>3. IInv /\ SyncInv => BufErrorExact
    <2>1. IInv /\ pc = "decomped" => mode = "read"
      BY DEF IInv, Placed, ReadPlaces
    <2>2. QED
      BY <2>1 DEF SyncInv, Told, BufErrorExact
  <1>4. QED
    BY <1>1, <1>2, <1>3, PTL DEF Spec
=============================================================================
