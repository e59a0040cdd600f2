--------------------------- MODULE GzWriteProofs ---------------------------
(***************************************************************************)
(* Gzip files: what was written is in the file, or a call reported an      *)
(* error (NoSilentLoss of GzWrite), as long as no seek is the first thing  *)
(* asked of a file without buffers (SeekRule of GzWrite).                  *)
(***************************************************************************)
EXTENDS GzProofs

-----------------------------------------------------------------------------
(* The invariant.                                                          *)

CompPlaces == {"comp", "write", "deflate"}

\* What deflate has been given, as far as it put it out or holds it.
Stream == file \o outp \o hold

Unframed(s) == \A i \in 1..Len(s) : s[i] \notin Frames
HasTrailer(s) == \E i \in 1..Len(s) : s[i] = Trailer

OnlyLast(s) == \A i \in 1..(Len(s) - 1) : s[i] # Trailer

\* No member is begun, or it is ended.
Ends(s) == s = <<>> \/ s[Len(s)] = Trailer
WellFramed(s) ==
  /\ s # <<>> => s[1] = Header
  /\ \A i \in 1..(Len(s) - 1) : s[i + 1] = Header <=> s[i] = Trailer

\* Every byte is on its way exactly once, in order.
Accounted ==
  /\ Content(Stream) \o inp \o rest = Written
  /\ Unframed(inp) /\ Unframed(rest)
  /\ rest # <<>> => pc = "moved" \/ (pc \in CompPlaces /\ after = "moved")
  /\ pc = "moved" => inp = <<>>
  /\ direct = 1 => outp = <<>> /\ hold = <<>> /\ pc \notin {"write", "deflate"}

\* The zeros that are still to be written lie just ahead of the position.
Ahead == IF pc \in WritePlaces THEN skip - zn ELSE 0

Zeroing == pc \in {"zero", "zeroed"} \/ (pc \in CompPlaces /\ after \in {"zero", "zeroed"})

Seeking ==
  /\ zeros \subseteq 0..(pos + Ahead - 1) /\ pos..(pos + Ahead - 1) \subseteq zeros
  /\ pc \in WritePlaces /\ zn # 0 => pc = "zeroed" \/ (pc \in CompPlaces /\ after = "zeroed")
  /\ pc \in WritePlaces \ {"begin"} => skip = 0 \/ Zeroing
  /\ Zeroing => size > 0
  /\ pc = "begin" => skip = 0 \/ (zclear = -1 /\ (size > 0 \/ op \in {"write", "printf"}))
  /\ pc \in WritePlaces => skip = 0 \/ zclear = -1 \/ Lesser(size, skip - zn) <= zclear
  /\ (pc = "zeroed" \/ (pc \in CompPlaces /\ after = "zeroed")) => zclear # -1

\* Which call a place belongs to
Calls ==
  /\ pc \in CompPlaces =>
       /\ after \in {"idle", "body"} => op = "write"
       /\ after = "moved" => op = "printf"
       /\ after = "params" => op = "params"
       /\ after = "flushed" => op = "flush"
       /\ after = "closed" => op = "close"
  /\ pc = "moved" => op = "printf"
  /\ pc = "params" => op = "params"
  /\ pc = "closed" => op = "close"
  /\ op = "close" => flush = "finish"
  /\ op = "params" => flush = "block"
  /\ op = "flush" => flush \in Flushes

Finishing == pc \in {"write", "deflate"} /\ CompFlush = "finish" /\ inp = <<>> /\ Ends(Stream)

\* Members are framed one after the other; the last may still be open.
Framing ==
  /\ WellFramed(Stream)
  /\ member = "new" => hold = <<>> /\ Ends(Stream)
  /\ member = "busy" => Stream # <<>> /\ (HasTrailer(hold) \/ ~Ends(Stream))
  /\ OnlyLast(hold) /\ (HasTrailer(hold) => member = "busy" /\ Finishing)
  /\ member = "done" => hold = <<>> /\ Stream # <<>> /\ Ends(Stream) /\ (reset \/ Finishing)
  /\ member = "done" /\ pc = "write" => ended
  /\ member = "done" /\ pc = "deflate" => outp = <<>>
  /\ reset => member = "done" /\ pc \notin {"write", "deflate"}
  /\ pc = "deflate" /\ CompFlush \in {"sync", "block"} => outp = <<>>

\* Nothing is left on the way where the file has to be complete.
Complete ==
  /\ (pc = "closed" \/ mode = "closed" \/ (pc = "idle" /\ op = "flush" /\ flush # "none")) =>
       inp = <<>> /\ rest = <<>> /\ outp = <<>> /\ hold = <<>>
  /\ (pc = "closed" \/ mode = "closed") /\ direct # 1 => Stream # <<>> /\ Ends(Stream)

Kept == Accounted /\ Seeking /\ Calls /\ (direct # 1 => Framing) /\ Complete

LossInv ==
  /\ mode = "read" => op = "none"
  /\ ~told /\ mode = "closed" => op \in {"none", "close"}
  /\ ~told /\ (mode = "write" \/ (mode = "closed" /\ op = "close")) => Kept

-----------------------------------------------------------------------------
(* The data among frames.                                                  *)

\* Next is what upTo holds at n, given what it holds before.
DataStep(f, g, n) == IF n = 0 THEN <<>> ELSE IF f[n] \in Frames THEN g[n - 1] ELSE Append(g[n - 1], f[n])

LEMMA DataUpToExists ==
    ASSUME NEW f, NEW m \in Nat
    PROVE  \E g : g = [n \in 0..m |-> DataStep(f, g, n)]
  <1> DEFINE Ok(k) == \E g : g = [n \in 0..k |-> DataStep(f, g, n)]
             T == {k \in Nat : ~Ok(k)}
  <1>1. SUFFICES T = {}
    OBVIOUS
  <1>2. SUFFICES ASSUME T # {} PROVE FALSE
    OBVIOUS
  <1>3. T \in SUBSET Nat
    OBVIOUS
  <1>4. PICK x \in T : \A y \in T : x <= y
    <2> HIDE DEF T
    <2>1. QED
      BY <1>2, <1>3, LeastNat
  <1>5. x \in Nat /\ ~Ok(x)
    OBVIOUS
  <1>6. CASE x = 0
    <2> DEFINE g == [n \in 0..0 |-> <<>>]
    <2>1. g = [n \in 0..0 |-> DataStep(f, g, n)]
      BY DEF DataStep
    <2>2. Ok(0)
      BY <2>1
    <2>3. QED
      BY <1>5, <1>6, <2>2
  <1>7. CASE x # 0
    <2>1. x - 1 \in Nat /\ ~(x <= x - 1)
      BY <1>5, <1>7
    <2>2. Ok(x - 1)
      BY <1>4, <2>1
    <2>3. PICK g : g = [n \in 0..(x - 1) |-> DataStep(f, g, n)]
      BY <2>2
    <2> DEFINE e == [n \in 0..x |-> IF n = x THEN DataStep(f, g, x) ELSE g[n]]
               r == [n \in 0..x |-> DataStep(f, e, n)]
    <2>4. ASSUME NEW n \in 0..x PROVE e[n] = r[n]
      <3>1. n \in Nat /\ (n # 0 => n - 1 \in 0..(x - 1) /\ n - 1 \in 0..x /\ n - 1 # x)
        BY <1>5, <2>1
      <3>2. n # 0 => e[n - 1] = g[n - 1]
        BY <3>1
      <3>3. DataStep(f, e, n) = DataStep(f, g, n)
        <4> HIDE DEF e
        <4>1. CASE n = 0
          BY <4>1 DEF DataStep
        <4>2. CASE n # 0
          BY <3>2, <4>2 DEF DataStep
        <4>3. QED
          BY <4>1, <4>2
      <3>4. CASE n = x
        BY <3>3, <3>4
      <3>5. CASE n # x
        <4>1. n \in 0..(x - 1)
          BY <1>5, <3>5
        <4>2. g[n] = DataStep(f, g, n)
          BY <2>3, <4>1
        <4>3. QED
          BY <3>3, <3>5, <4>2
      <3>6. QED
        BY <3>4, <3>5
    <2>5. e = r
      BY <2>4
    <2>6. Ok(x)
      BY <2>5
    <2>7. QED
      BY <1>5, <2>6
  <1>8. QED
    BY <1>6, <1>7

\* DataUpTo is the function its definition says.
LEMMA DataUpToIs ==
    ASSUME NEW f \in Seq(Int)
    PROVE  DataUpTo(f) = [n \in 0..Len(f) |-> DataStep(f, DataUpTo(f), n)]
  <1>1. \E g : g = [n \in 0..Len(f) |-> DataStep(f, g, n)]
    <2>1. Len(f) \in Nat
      OBVIOUS
    <2>2. QED
      BY <2>1, DataUpToExists
  <1>2. DataUpTo(f) = CHOOSE g : g = [n \in 0..Len(f) |-> DataStep(f, g, n)]
    BY DEF DataUpTo, DataStep
  <1>3. QED
    BY <1>1, <1>2

LEMMA DataUpToStep ==
    ASSUME NEW f \in Seq(Int)
    PROVE  /\ DataUpTo(f)[0] = <<>>
           /\ \A n \in 1..Len(f) :
                DataUpTo(f)[n] = IF f[n] \in Frames THEN DataUpTo(f)[n - 1] ELSE Append(DataUpTo(f)[n - 1], f[n])
  <1> DEFINE g == DataUpTo(f)
  <1>1. g = [n \in 0..Len(f) |-> DataStep(f, g, n)]
    BY DataUpToIs
  <1> HIDE DEF g
  <1>2. Len(f) \in Nat
    OBVIOUS
  <1>3. g[0] = <<>>
    BY <1>1, <1>2 DEF DataStep
  <1>4. ASSUME NEW n \in 1..Len(f)
        PROVE  g[n] = IF f[n] \in Frames THEN g[n - 1] ELSE Append(g[n - 1], f[n])
    <2>1. n \in 0..Len(f) /\ n # 0
      BY <1>2
    <2>2. g[n] = DataStep(f, g, n)
      BY <1>1, <2>1
    <2>3. QED
      BY <2>1, <2>2 DEF DataStep
  <1>5. QED
    BY <1>3, <1>4 DEF g

LEMMA DataUpToType ==
    ASSUME NEW f \in Seq(Int)
    PROVE  \A n \in 0..Len(f) : DataUpTo(f)[n] \in Seq(Int)
  <1> DEFINE g == DataUpTo(f)
             T == {n \in 0..Len(f) : g[n] \notin Seq(Int)}
  <1>1. SUFFICES ASSUME T # {} PROVE FALSE
    OBVIOUS
  <1>2. T \in SUBSET Nat
    OBVIOUS
  <1>3. PICK x \in T : \A y \in T : x <= y
    <2> HIDE DEF T
    <2>1. QED
      BY <1>1, <1>2, LeastNat
  <1>4. x \in 0..Len(f) /\ g[x] \notin Seq(Int)
    OBVIOUS
  <1>5. g[0] = <<>> /\ \A n \in 1..Len(f) : g[n] = IF f[n] \in Frames THEN g[n - 1] ELSE Append(g[n - 1], f[n])
    BY DataUpToStep
  <1>6. x # 0
    <2>1. <<>> \in Seq(Int)
      OBVIOUS
    <2> HIDE DEF g
    <2>2. QED
      BY <1>4, <1>5, <2>1
  <1>7. x \in 1..Len(f) /\ x - 1 \in 0..Len(f) /\ ~(x <= x - 1)
    BY <1>4, <1>6
  <1>8. g[x - 1] \in Seq(Int)
    BY <1>3, <1>7
  <1>9. f[x] \in Int
    BY <1>7
  <1>10. Append(g[x - 1], f[x]) \in Seq(Int)
    BY <1>8, <1>9
  <1>11. QED
    BY <1>4, <1>5, <1>7, <1>8, <1>10

LEMMA ContentType ==
    ASSUME NEW f \in Seq(Int)
    PROVE  Content(f) \in Seq(Int)
  BY DataUpToType DEF Content

LEMMA Regroup == \A a, b, c \in Seq(Int) : (a \o b) \o c = a \o (b \o c)
  <1>1. ASSUME NEW a \in Seq(Int), NEW b \in Seq(Int), NEW c \in Seq(Int)
        PROVE  (a \o b) \o c = a \o (b \o c)
    BY ConcatAssociative
  <1>2. QED
    BY <1>1

\* Appending to the second of two sequences
LEMMA AppendJoin ==
    ASSUME NEW c \in Seq(Int), NEW p \in Seq(Int), NEW v \in Int
    PROVE  Append(c \o p, v) = c \o Append(p, v)
  <1>1. <<v>> \in Seq(Int) /\ c \o p \in Seq(Int)
    BY ConcatProperties
  <1>2. Append(c \o p, v) = (c \o p) \o <<v>>
    BY <1>1, AppendIsConcat
  <1>3. Append(p, v) = p \o <<v>>
    BY AppendIsConcat
  <1>4. (c \o p) \o <<v>> = c \o (p \o <<v>>)
    BY <1>1, ConcatAssociative
  <1>5. QED
    BY <1>2, <1>3, <1>4

\* Within the first of two sequences, the data is that of the first.
LEMMA DataOfFirst ==
    ASSUME NEW f \in Seq(Int), NEW t \in Seq(Int)
    PROVE  \A n \in 0..Len(f) : DataUpTo(f \o t)[n] = DataUpTo(f)[n]
  <1> DEFINE j == f \o t
             g == DataUpTo(f)
             h == DataUpTo(j)
             T == {n \in 0..Len(f) : h[n] # g[n]}
  <1>1. SUFFICES ASSUME T # {} PROVE FALSE
    OBVIOUS
  <1>2. T \in SUBSET Nat
    OBVIOUS
  <1>3. PICK x \in T : \A y \in T : x <= y
    <2> HIDE DEF T
    <2>1. QED
      BY <1>1, <1>2, LeastNat
  <1>4. x \in 0..Len(f) /\ h[x] # g[x]
    OBVIOUS
  <1>5. j \in Seq(Int) /\ Len(j) = Len(f) + Len(t) /\ \A i \in 1..Len(f) : j[i] = f[i]
    BY ConcatProperties
  <1> HIDE DEF j
  <1>6. g[0] = <<>> /\ \A n \in 1..Len(f) : g[n] = IF f[n] \in Frames THEN g[n - 1] ELSE Append(g[n - 1], f[n])
    BY DataUpToStep
  <1>7. h[0] = <<>> /\ \A n \in 1..Len(j) : h[n] = IF j[n] \in Frames THEN h[n - 1] ELSE Append(h[n - 1], j[n])
    BY <1>5, DataUpToStep
  <1>8. x # 0
    BY <1>4, <1>6, <1>7
  <1>9. x \in 1..Len(f) /\ x - 1 \in 0..Len(f) /\ ~(x <= x - 1) /\ x \in 1..Len(j)
    BY <1>4, <1>5, <1>8
  <1>10. h[x - 1] = g[x - 1]
    BY <1>3, <1>9
  <1>11. j[x] = f[x]
    BY <1>5, <1>9
  <1> HIDE DEF g, h, T
  <1>12. QED
    BY <1>4, <1>6, <1>7, <1>9, <1>10, <1>11

\* The data of two sequences is that of the first, then that of the second.
LEMMA ContentJoin ==
    ASSUME NEW f \in Seq(Int), NEW t \in Seq(Int)
    PROVE  Content(f \o t) = Content(f) \o Content(t)
  <1> DEFINE j == f \o t
             c == Content(f)
             g == DataUpTo(t)
             h == DataUpTo(j)
             T == {n \in 0..Len(t) : h[Len(f) + n] # c \o g[n]}
  <1>1. j \in Seq(Int) /\ Len(j) = Len(f) + Len(t) /\ \A i \in 1..Len(t) : j[Len(f) + i] = t[i]
    BY ConcatProperties
  <1>2. c \in Seq(Int) /\ Len(f) \in Nat /\ Len(t) \in Nat
    BY ContentType
  <1>3. g[0] = <<>> /\ \A n \in 1..Len(t) : g[n] = IF t[n] \in Frames THEN g[n - 1] ELSE Append(g[n - 1], t[n])
    BY DataUpToStep
  <1>4. \A n \in 1..Len(j) : h[n] = IF j[n] \in Frames THEN h[n - 1] ELSE Append(h[n - 1], j[n])
    BY <1>1, DataUpToStep
  <1>5. h[Len(f)] = c
    BY <1>2, DataOfFirst DEF Content
  <1>6. \A n \in 0..Len(t) : g[n] \in Seq(Int)
    BY DataUpToType
  <1>7. Content(j) = h[Len(f) + Len(t)] /\ Content(t) = g[Len(t)]
    BY <1>1 DEF Content
  <1> HIDE DEF j, c, g, h
  <1>8. T = {}
    <2>1. SUFFICES ASSUME T # {} PROVE FALSE
      OBVIOUS
    <2>2. T \in SUBSET Nat
      OBVIOUS
    <2>3. PICK x \in T : \A y \in T : x <= y
      <3> HIDE DEF T
      <3>1. QED
        BY <2>1, <2>2, LeastNat
    <2>4. x \in 0..Len(t) /\ h[Len(f) + x] # c \o g[x]
      OBVIOUS
    <2>5. x # 0
      <3>1. ASSUME x = 0 PROVE FALSE
        <4>1. Len(f) + x = Len(f)
          BY <1>2, <3>1
        <4>2. c \o <<>> = c
          BY <1>2, ConcatEmptySeq
        <4>3. QED
          BY <1>3, <1>5, <2>4, <3>1, <4>1, <4>2
      <3>2. QED
        BY <3>1
    <2>6. x \in 1..Len(t) /\ x - 1 \in 0..Len(t) /\ ~(x <= x - 1) /\ Len(f) + x \in 1..Len(j)
          /\ Len(f) + x - 1 = Len(f) + (x - 1)
      <3>1. Len(f) \in Nat /\ Len(t) \in Nat /\ Len(j) = Len(f) + Len(t) /\ x \in 0..Len(t)
        BY <1>1, <1>2, <2>4
      <3>2. x \in 1..Len(t) /\ x - 1 \in 0..Len(t) /\ ~(x <= x - 1)
        BY <2>5, <3>1, SMTT(30)
      <3>3. Len(f) + x \in 1..Len(j) /\ Len(f) + x - 1 = Len(f) + (x - 1)
        BY <3>1, <3>2, SMTT(30)
      <3>4. QED
        BY <3>2, <3>3
    <2>7. h[Len(f) + (x - 1)] = c \o g[x - 1]
      BY <2>3, <2>6
    <2>8. j[Len(f) + x] = t[x] /\ t[x] \in Int
      BY <1>1, <2>6
    <2>9. h[Len(f) + x] = IF t[x] \in Frames THEN c \o g[x - 1] ELSE Append(c \o g[x - 1], t[x])
      <3> DEFINE p == Len(f) + x
      <3>1. h[p] = IF j[p] \in Frames THEN h[p - 1] ELSE Append(h[p - 1], j[p])
        BY <1>4, <2>6
      <3>2. h[p - 1] = c \o g[x - 1] /\ j[p] = t[x]
        BY <2>6, <2>7, <2>8, SMTT(30)
      <3>3. QED
        BY <3>1, <3>2, Zenon
    <2>10. g[x] = IF t[x] \in Frames THEN g[x - 1] ELSE Append(g[x - 1], t[x])
      BY <1>3, <2>6
    <2>11. Append(c \o g[x - 1], t[x]) = c \o Append(g[x - 1], t[x])
      <3> DEFINE p == g[x - 1]
                 v == t[x]
      <3>1. p \in Seq(Int) /\ v \in Int /\ c \in Seq(Int)
        BY <1>2, <1>6, <2>6, <2>8
      <3> HIDE DEF p, v
      <3>2. Append(c \o p, v) = c \o Append(p, v)
        BY <3>1, AppendJoin
      <3>3. QED
        BY <3>2 DEF p, v
    <2> HIDE DEF T
    <2>12. QED
      BY <2>4, <2>9, <2>10, <2>11, Zenon
  <1>9. h[Len(f) + Len(t)] = c \o g[Len(t)]
    <2>1. Len(t) \in 0..Len(t)
      BY <1>2
    <2>2. Len(t) \notin T
      BY <1>8
    <2>3. QED
      BY <2>1, <2>2
  <1>10. QED
    BY <1>7, <1>9 DEF j, c

\* Bytes that are no frames are all data.
LEMMA ContentUnframed ==
    ASSUME NEW b \in Seq(Int), Unframed(b)
    PROVE  Content(b) = b
  <1> DEFINE g == DataUpTo(b)
             T == {n \in 0..Len(b) : g[n] # SubSeq(b, 1, n)}
  <1>1. Len(b) \in Nat
    OBVIOUS
  <1>2. g[0] = <<>> /\ \A n \in 1..Len(b) : g[n] = IF b[n] \in Frames THEN g[n - 1] ELSE Append(g[n - 1], b[n])
    BY DataUpToStep
  <1>3. Content(b) = g[Len(b)]
    BY DEF Content
  <1> HIDE DEF g
  <1>4. T = {}
    <2>1. SUFFICES ASSUME T # {} PROVE FALSE
      OBVIOUS
    <2>2. T \in SUBSET Nat
      OBVIOUS
    <2>3. PICK x \in T : \A y \in T : x <= y
      <3> HIDE DEF T
      <3>1. QED
        BY <2>1, <2>2, LeastNat
    <2>4. x \in 0..Len(b) /\ g[x] # SubSeq(b, 1, x)
      OBVIOUS
    <2>5. x # 0
      <3>1. SubSeq(b, 1, 0) = <<>>
        BY SubSeqEmpty
      <3>2. QED
        BY <1>2, <2>4, <3>1
    <2>6. x \in 1..Len(b) /\ x - 1 \in 0..Len(b) /\ ~(x <= x - 1) /\ x \in Nat /\ 1 \in 1..Len(b) /\ x \in 1..Len(b)
      BY <1>1, <2>4, <2>5
    <2>7. g[x - 1] = SubSeq(b, 1, x - 1)
      BY <2>3, <2>6
    <2>8. g[x] = Append(SubSeq(b, 1, x - 1), b[x])
      BY <1>2, <2>6, <2>7 DEF Unframed
    <2>9. SubSeq(b, 1, x) = SubSeq(b, 1, x - 1) \o <<b[x]>>
      BY <2>6, SubSeqRecursiveSecond
    <2>10. SubSeq(b, 1, x - 1) \in Seq(Int) /\ b[x] \in Int
      BY <2>6, FrontIs
    <2>11. QED
      BY <2>4, <2>8, <2>9, <2>10, AppendIsConcat
  <1>5. Len(b) \in 0..Len(b) /\ Len(b) \notin T
    BY <1>1, <1>4
  <1>6. g[Len(b)] = SubSeq(b, 1, Len(b))
    BY <1>5
  <1>7. QED
    BY <1>3, <1>6, SubSeqFull

\* Frames hold no data.
LEMMA ContentFrame ==
    ASSUME NEW x \in Frames
    PROVE  <<x>> \in Seq(Int) /\ Content(<<x>>) = <<>>
  <1> DEFINE f == <<x>>
  <1>1. f \in Seq(Int) /\ Len(f) = 1 /\ f[1] = x
    BY DEF Frames, Header, Trailer
  <1> HIDE DEF f
  <1>2. DataUpTo(f)[0] = <<>> /\ DataUpTo(f)[1] = DataUpTo(f)[1 - 1]
    BY <1>1, DataUpToStep
  <1>3. Content(f) = <<>>
    BY <1>1, <1>2 DEF Content
  <1>4. QED
    BY <1>1, <1>3 DEF f

LEMMA ContentEmpty == Content(<<>>) = <<>>
  <1>1. <<>> \in Seq(Int) /\ Len(<<>>) = 0
    OBVIOUS
  <1>2. DataUpTo(<<>>)[0] = <<>>
    BY <1>1, DataUpToStep
  <1>3. QED
    BY <1>1, <1>2 DEF Content

\* The parts of a sequence, put together
LEMMA SplitIs ==
    ASSUME NEW s \in Seq(Int), NEW n \in 0..Len(s)
    PROVE  /\ SubSeq(s, 1, n) \o SubSeq(s, n + 1, Len(s)) = s
           /\ SubSeq(s, 1, n) \in Seq(Int) /\ SubSeq(s, n + 1, Len(s)) \in Seq(Int)
           /\ Len(SubSeq(s, 1, n)) = n /\ Len(SubSeq(s, n + 1, Len(s))) = Len(s) - n
           /\ \A i \in 1..n : SubSeq(s, 1, n)[i] = s[i]
           /\ \A i \in 1..(Len(s) - n) : SubSeq(s, n + 1, Len(s))[i] = s[n + i]
  <1> DEFINE a == SubSeq(s, 1, n)
             b == SubSeq(s, n + 1, Len(s))
  <1>1. n \in Nat /\ n <= Len(s) /\ Len(s) \in Nat
    OBVIOUS
  <1>2. /\ a \in Seq(Int) /\ Len(a) = n /\ \A i \in 1..n : a[i] = s[i]
    <2>1. \A i \in 1..n : s[i] \in Int
      BY <1>1
    <2>2. /\ a \in Seq(Int) /\ Len(a) = (IF 1 <= n THEN n - 1 + 1 ELSE 0) /\ \A i \in 1..(n - 1 + 1) : a[i] = s[1 + i - 1]
      BY <1>1, <2>1, SubSeqProperties
    <2> HIDE DEF a
    <2>3. QED
      BY <1>1, <2>2
  <1>3. /\ b \in Seq(Int) /\ Len(b) = Len(s) - n /\ \A i \in 1..(Len(s) - n) : b[i] = s[n + i]
    <2>1. \A i \in (n + 1)..Len(s) : s[i] \in Int
      BY <1>1
    <2>2. /\ b \in Seq(Int) /\ Len(b) = (IF n + 1 <= Len(s) THEN Len(s) - (n + 1) + 1 ELSE 0)
          /\ \A i \in 1..(Len(s) - (n + 1) + 1) : b[i] = s[n + 1 + i - 1]
      BY <1>1, <2>1, SubSeqProperties, SMTT(30)
    <2> HIDE DEF b
    <2>3. Len(b) = Len(s) - n
      BY <1>1, <2>2
    <2>4. ASSUME NEW i \in 1..(Len(s) - n) PROVE b[i] = s[n + i]
      <3>1. i \in 1..(Len(s) - (n + 1) + 1) /\ n + 1 + i - 1 = n + i
        BY <1>1
      <3>2. QED
        BY <2>2, <3>1
    <2>5. QED
      BY <2>2, <2>3, <2>4
  <1> HIDE DEF a, b
  <1>4. a \o b \in Seq(Int) /\ Len(a \o b) = Len(s)
        /\ \A i \in 1..Len(s) : (a \o b)[i] = IF i <= n THEN a[i] ELSE b[i - n]
    <2>1. /\ a \o b \in Seq(Int) /\ Len(a \o b) = Len(a) + Len(b)
          /\ \A i \in 1..(Len(a) + Len(b)) : (a \o b)[i] = IF i <= Len(a) THEN a[i] ELSE b[i - Len(a)]
      BY <1>2, <1>3, ConcatProperties
    <2>2. Len(a) + Len(b) = Len(s)
      BY <1>1, <1>2, <1>3
    <2>3. QED
      BY <1>2, <2>1, <2>2
  <1>5. ASSUME NEW i \in 1..Len(s) PROVE (a \o b)[i] = s[i]
    <2>1. CASE i <= n
      BY <1>1, <1>2, <1>4, <2>1
    <2>2. CASE ~(i <= n)
      <3>1. i - n \in 1..(Len(s) - n) /\ n + (i - n) = i
        BY <1>1, <2>2
      <3>2. QED
        BY <1>3, <1>4, <2>2, <3>1
    <2>3. QED
      BY <2>1, <2>2
  <1>6. a \o b = s
    BY <1>4, <1>5, SeqEqual
  <1>7. QED
    BY <1>2, <1>3, <1>6 DEF a, b

\* So are the parts of what is unframed, and two unframed pieces together.
LEMMA UnframedParts ==
    ASSUME NEW s \in Seq(Int), Unframed(s), NEW n \in 0..Len(s)
    PROVE  Unframed(SubSeq(s, 1, n)) /\ Unframed(SubSeq(s, n + 1, Len(s)))
  <1> DEFINE a == SubSeq(s, 1, n)
             b == SubSeq(s, n + 1, Len(s))
  <1>1. /\ Len(a) = n /\ Len(b) = Len(s) - n
        /\ \A i \in 1..n : a[i] = s[i]
        /\ \A i \in 1..(Len(s) - n) : b[i] = s[n + i]
    BY SplitIs
  <1> HIDE DEF a, b
  <1>2. Len(s) \in Nat
    OBVIOUS
  <1>3. Unframed(a)
    BY <1>1, <1>2 DEF Unframed
  <1>4. Unframed(b)
    <2>1. ASSUME NEW i \in 1..Len(b) PROVE b[i] \notin Frames
      <3>1. n + i \in 1..Len(s) /\ i \in 1..(Len(s) - n)
        BY <1>1, <1>2
      <3>2. QED
        BY <1>1, <3>1 DEF Unframed
    <2>2. QED
      BY <2>1 DEF Unframed
  <1>5. QED
    BY <1>3, <1>4 DEF a, b

LEMMA UnframedJoin ==
    ASSUME NEW s \in Seq(Int), NEW t \in Seq(Int), Unframed(s), Unframed(t)
    PROVE  Unframed(s \o t)
  <1> DEFINE j == s \o t
  <1>1. Len(j) = Len(s) + Len(t)
        /\ \A i \in 1..(Len(s) + Len(t)) : j[i] = IF i <= Len(s) THEN s[i] ELSE t[i - Len(s)]
    BY ConcatProperties
  <1>2. Len(s) \in Nat /\ Len(t) \in Nat
    OBVIOUS
  <1> HIDE DEF j
  <1>3. ASSUME NEW i \in 1..Len(j) PROVE j[i] \notin Frames
    <2>1. i \in 1..(Len(s) + Len(t))
      BY <1>1
    <2>2. CASE i <= Len(s)
      BY <1>1, <1>2, <2>1, <2>2 DEF Unframed
    <2>3. CASE ~(i <= Len(s))
      <3>1. i - Len(s) \in 1..Len(t)
        BY <1>2, <2>1, <2>3
      <3>2. QED
        BY <1>1, <2>1, <2>3, <3>1 DEF Unframed
    <2>4. QED
      BY <2>2, <2>3
  <1>4. Unframed(j)
    BY <1>3 DEF Unframed
  <1>5. QED
    BY <1>4 DEF j

-----------------------------------------------------------------------------
(* What the caller wrote.                                                  *)

\* The bytes of positions p .. p + n - 1, of a file with zeros at z
Piece(p, n, z) == [i \in 1..n |-> IF p + i - 1 \in z THEN Zero ELSE p + i - 1]

LEMMA PieceType ==
    ASSUME NEW p \in Nat, NEW n \in Nat, NEW z
    PROVE  Piece(p, n, z) \in Seq(Int) /\ Len(Piece(p, n, z)) = n /\ Unframed(Piece(p, n, z))
  <1>1. \A i \in 1..n : Piece(p, n, z)[i] \in Int
    BY DEF Piece, Zero
  <1>2. Piece(p, n, z) \in Seq(Int) /\ Len(Piece(p, n, z)) = n
    BY <1>1 DEF Piece
  <1>3. ASSUME NEW i \in 1..n PROVE Piece(p, n, z)[i] \notin Frames
    BY DEF Piece, Frames, Zero, Header, Trailer
  <1>4. QED
    BY <1>2, <1>3 DEF Unframed

LEMMA WrittenIsPiece ==
    ASSUME pos \in Nat
    PROVE  Written = Piece(0, pos, zeros)
  <1>1. \A i \in 1..pos : 0 + i - 1 = i - 1
    OBVIOUS
  <1>2. QED
    BY <1>1 DEF Written, Piece

\* n bytes more
LEMMA PieceJoin ==
    ASSUME NEW p \in Nat, NEW n \in Nat, NEW z
    PROVE  Piece(0, p + n, z) = Piece(0, p, z) \o Piece(p, n, z)
  <1> DEFINE a == Piece(0, p, z)
             b == Piece(p, n, z)
             c == Piece(0, p + n, z)
             j == a \o b
  <1>1. a \in Seq(Int) /\ Len(a) = p /\ b \in Seq(Int) /\ Len(b) = n /\ c \in Seq(Int) /\ Len(c) = p + n
    BY PieceType
  <1>2. /\ \A i \in 1..p : a[i] = IF i - 1 \in z THEN Zero ELSE i - 1
        /\ \A i \in 1..n : b[i] = IF p + i - 1 \in z THEN Zero ELSE p + i - 1
        /\ \A i \in 1..(p + n) : c[i] = IF i - 1 \in z THEN Zero ELSE i - 1
    <2>1. \A i \in Nat : 0 + i - 1 = i - 1
      OBVIOUS
    <2>2. QED
      BY <2>1 DEF Piece
  <1> HIDE DEF a, b, c
  <1>3. j \in Seq(Int) /\ Len(j) = p + n /\ \A i \in 1..(p + n) : j[i] = IF i <= p THEN a[i] ELSE b[i - p]
    BY <1>1, ConcatProperties
  <1> HIDE DEF j
  <1>4. ASSUME NEW i \in 1..Len(c) PROVE c[i] = j[i]
    <2>1. i \in 1..(p + n)
      BY <1>1
    <2>2. CASE i <= p
      BY <1>2, <1>3, <2>1, <2>2
    <2>3. CASE ~(i <= p)
      <3>1. i - p \in 1..n /\ p + (i - p) - 1 = i - 1
        BY <2>1, <2>3
      <3>2. b[i - p] = IF i - 1 \in z THEN Zero ELSE i - 1
        BY <1>2, <3>1
      <3>3. QED
        BY <1>2, <1>3, <2>1, <2>3, <3>2
    <2>4. QED
      BY <2>2, <2>3
  <1>5. c = j
    BY <1>1, <1>3, <1>4, SeqEqual
  <1>6. QED
    BY <1>5 DEF a, b, c, j

\* Only the zeros before p matter to the first p bytes.
LEMMA PieceZeros ==
    ASSUME NEW p \in Nat, NEW y, NEW z, \A i \in 0..(p - 1) : i \in y <=> i \in z
    PROVE  Piece(0, p, y) = Piece(0, p, z)
  <1>1. ASSUME NEW i \in 1..p
        PROVE  (IF 0 + i - 1 \in y THEN Zero ELSE 0 + i - 1) = (IF 0 + i - 1 \in z THEN Zero ELSE 0 + i - 1)
    <2>1. 0 + i - 1 \in 0..(p - 1)
      OBVIOUS
    <2>2. QED
      BY <2>1
  <1>2. QED
    BY <1>1 DEF Piece

\* Bytes of the caller, where nothing was skipped
LEMMA PieceOfData ==
    ASSUME NEW p \in Nat, NEW n \in Nat, NEW z, \A i \in z : i \in Int /\ i < p
    PROVE  Piece(p, n, z) = Data(p, n)
  <1>1. ASSUME NEW i \in 1..n PROVE p + i - 1 \notin z
    <2>1. ~(p + i - 1 < p)
      OBVIOUS
    <2>2. QED
      BY <2>1
  <1>2. QED
    BY <1>1 DEF Piece, Data

\* Skipped bytes
LEMMA PieceOfZeros ==
    ASSUME NEW p \in Nat, NEW n \in Nat, NEW z, p..(p + n - 1) \subseteq z
    PROVE  Piece(p, n, z) = [i \in 1..n |-> Zero]
  <1>1. ASSUME NEW i \in 1..n PROVE p + i - 1 \in z
    <2>1. p + i - 1 \in p..(p + n - 1)
      OBVIOUS
    <2>2. QED
      BY <2>1
  <1>2. QED
    BY <1>1 DEF Piece

-----------------------------------------------------------------------------
(* Members.                                                                *)

\* The next byte of a file, and the one before it
LEMMA FrameOne ==
    ASSUME NEW s \in Seq(Int), NEW x \in Int, WellFramed(s), x = Header <=> Ends(s)
    PROVE  LET t == Append(s, x) IN
           t \in Seq(Int) /\ t # <<>> /\ WellFramed(t) /\ (Ends(t) <=> x = Trailer)
  <1> DEFINE t == Append(s, x)
  <1>1. t \in Seq(Int) /\ t # <<>> /\ Len(t) = Len(s) + 1 /\ t[Len(s) + 1] = x /\ \A i \in 1..Len(s) : t[i] = s[i]
    BY AppendProperties
  <1>2. Len(s) \in Nat /\ (s # <<>> => Len(s) # 0) /\ (s = <<>> => Len(s) = 0)
    BY EmptySeq
  <1> HIDE DEF t
  <1>3. t[1] = Header
    <2>1. CASE s = <<>>
      BY <1>1, <1>2, <2>1 DEF Ends
    <2>2. CASE s # <<>>
      <3>1. 1 \in 1..Len(s)
        BY <1>2, <2>2
      <3>2. QED
        BY <1>1, <2>2, <3>1 DEF WellFramed
    <2>3. QED
      BY <2>1, <2>2
  <1>4. ASSUME NEW i \in 1..(Len(t) - 1) PROVE t[i + 1] = Header <=> t[i] = Trailer
    <2>1. i \in 1..Len(s) /\ Len(s) # 0
      BY <1>1, <1>2
    <2>2. CASE i = Len(s)
      <3>1. t[i + 1] = x /\ t[i] = s[Len(s)] /\ s # <<>>
        BY <1>1, <1>2, <2>1, <2>2
      <3>2. QED
        BY <3>1 DEF Ends
    <2>3. CASE i # Len(s)
      <3>1. i \in 1..(Len(s) - 1) /\ i + 1 \in 1..Len(s)
        BY <1>2, <2>1, <2>3
      <3>2. QED
        BY <1>1, <2>1, <3>1 DEF WellFramed
    <2>4. QED
      BY <2>2, <2>3
  <1>5. WellFramed(t)
    BY <1>3, <1>4 DEF WellFramed
  <1>6. Ends(t) <=> x = Trailer
    BY <1>1 DEF Ends
  <1>7. QED
    BY <1>1, <1>5, <1>6 DEF t

\* A header begins a member.
LEMMA FrameHeader ==
    ASSUME NEW s \in Seq(Int), WellFramed(s), Ends(s)
    PROVE  LET t == s \o <<Header>> IN t \in Seq(Int) /\ t # <<>> /\ WellFramed(t) /\ ~Ends(t)
  <1>1. Header \in Int /\ Header # Trailer
    BY DEF Header, Trailer
  <1>2. s \o <<Header>> = Append(s, Header)
    BY <1>1, AppendIsConcat
  <1>3. QED
    BY <1>1, <1>2, FrameOne

\* A trailer ends it.
LEMMA FrameTrailer ==
    ASSUME NEW s \in Seq(Int), WellFramed(s), ~Ends(s)
    PROVE  LET t == s \o <<Trailer>> IN t \in Seq(Int) /\ t # <<>> /\ WellFramed(t) /\ Ends(t)
  <1>1. Trailer \in Int /\ Trailer # Header
    BY DEF Header, Trailer
  <1>2. s \o <<Trailer>> = Append(s, Trailer)
    BY <1>1, AppendIsConcat
  <1>3. QED
    BY <1>1, <1>2, FrameOne

\* Data goes inside.
LEMMA FrameData ==
    ASSUME NEW s \in Seq(Int), WellFramed(s), ~Ends(s), NEW b \in Seq(Int), Unframed(b)
    PROVE  LET t == s \o b IN t \in Seq(Int) /\ t # <<>> /\ WellFramed(t) /\ ~Ends(t)
  <1> DEFINE Fine(t) == t \in Seq(Int) /\ t # <<>> /\ WellFramed(t) /\ ~Ends(t)
             T == {n \in 0..Len(b) : ~Fine(s \o SubSeq(b, 1, n))}
  <1>1. Len(b) \in Nat
    OBVIOUS
  <1>2. Fine(s)
    BY DEF Ends
  <1> HIDE DEF Fine
  <1>3. T = {}
    <2>1. SUFFICES ASSUME T # {} PROVE FALSE
      OBVIOUS
    <2>2. T \in SUBSET Nat
      OBVIOUS
    <2>3. PICK x \in T : \A y \in T : x <= y
      <3> HIDE DEF T
      <3>1. QED
        BY <2>1, <2>2, LeastNat
    <2>4. x \in 0..Len(b) /\ ~Fine(s \o SubSeq(b, 1, x))
      OBVIOUS
    <2>5. x # 0
      <3>1. SubSeq(b, 1, 0) = <<>> /\ s \o <<>> = s
        BY SubSeqEmpty, ConcatEmptySeq
      <3>2. QED
        BY <1>2, <2>4, <3>1
    <2>6. x \in 1..Len(b) /\ x - 1 \in 0..Len(b) /\ ~(x <= x - 1) /\ 1 \in 1..Len(b)
      BY <1>1, <2>4, <2>5
    <2>7. Fine(s \o SubSeq(b, 1, x - 1))
      BY <2>3, <2>6
    <2> DEFINE p == SubSeq(b, 1, x - 1)
               q == s \o p
    <2>8. p \in Seq(Int) /\ b[x] \in Int /\ <<b[x]>> \in Seq(Int)
      BY <2>6, FrontIs
    <2>9. SubSeq(b, 1, x) = p \o <<b[x]>>
      BY <2>6, SubSeqRecursiveSecond
    <2>10. b[x] # Header /\ b[x] # Trailer
      BY <2>6 DEF Unframed, Frames
    <2> HIDE DEF p
    <2>11. s \o (p \o <<b[x]>>) = q \o <<b[x]>>
      BY <2>8, ConcatAssociative
    <2>12. Fine(q)
      BY <2>7 DEF p
    <2> HIDE DEF q
    <2>13. Fine(Append(q, b[x]))
      BY <2>8, <2>10, <2>12, FrameOne DEF Fine
    <2>14. Append(q, b[x]) = q \o <<b[x]>>
      BY <2>8, <2>12, AppendIsConcat DEF Fine
    <2>15. QED
      BY <2>4, <2>9, <2>11, <2>13, <2>14
  <1>4. Len(b) \in 0..Len(b) /\ Len(b) \notin T
    BY <1>1, <1>3
  <1>5. SubSeq(b, 1, Len(b)) = b
    BY SubSeqFull
  <1>6. Fine(s \o b)
    BY <1>4, <1>5
  <1>7. QED
    BY <1>6 DEF Fine

-----------------------------------------------------------------------------
(* Steps of writing, from a state where no call reported an error.         *)

Writes == IInv /\ mode = "write" /\ Kept

\* The sequences and numbers of such a state
LEMMA WritesNow ==
    ASSUME Writes
    PROVE  /\ file \in Seq(Int) /\ outp \in Seq(Int) /\ hold \in Seq(Int) /\ inp \in Seq(Int) /\ rest \in Seq(Int)
           /\ Stream \in Seq(Int) /\ Content(Stream) \in Seq(Int)
           /\ pos \in Nat /\ skip \in Nat /\ zn \in Nat /\ zeros \subseteq Nat /\ size \in Nat
           /\ zclear \in Int /\ zclear >= -1
           /\ pc \in {"idle"} \cup WritePlaces
           /\ after \in {"idle", "body", "zero", "zeroed", "moved", "params", "flushed", "closed"}
           /\ op \in {"none", "write", "putc", "printf", "flush", "params", "close"}
           /\ pc \in WritePlaces => zn <= skip
           /\ direct \in {-1, 0, 1} /\ reset \in BOOLEAN /\ member \in {"new", "busy", "done"}
  <1>1. IInv /\ mode = "write"
    BY DEF Writes
  <1>2. file \in Seq(Int) /\ outp \in Seq(Int) /\ hold \in Seq(Int) /\ inp \in Seq(Int) /\ rest \in Seq(Int)
        /\ zn \in Nat /\ zclear \in Int /\ zclear >= -1
    BY <1>1, WriteNumbers
  <1>3. Stream \in Seq(Int)
    <2>1. file \o outp \in Seq(Int)
      BY <1>2, JoinIs
    <2>2. QED
      BY <1>2, <2>1, JoinIs DEF Stream
  <1>4. Content(Stream) \in Seq(Int)
    BY <1>3, ContentType
  <1>5. pos \in Nat /\ skip \in Nat /\ size \in Nat
    BY <1>1, Numbers
  <1>6. zeros \subseteq Nat /\ reset \in BOOLEAN /\ member \in {"new", "busy", "done"}
    BY <1>1, WriteNow DEF SeenIs, DeflaterIs
  <1>7. pc \in {"idle"} \cup WritePlaces
        /\ after \in {"idle", "body", "zero", "zeroed", "moved", "params", "flushed", "closed"}
        /\ op \in {"none", "write", "putc", "printf", "flush", "params", "close"}
        /\ (pc \in WritePlaces => zn <= skip)
    BY <1>1, WriteNow DEF ControlIs
  <1>8. direct \in {-1, 0, 1}
    BY <1>1 DEF IInv, GzTypeOK
  <1>9. QED
    BY <1>2, <1>3, <1>4, <1>5, <1>6, <1>7, <1>8

\* Where the output stays as it is, outside the loop of gz_comp
LEMMA FramingSame ==
    ASSUME direct # 1 => Framing, UNCHANGED <<file, outp, hold, reset, member, direct>>,
           pc \notin {"write", "deflate"}, pc' \notin {"write", "deflate"}
    PROVE  direct' # 1 => Framing'
  <1>1. SUFFICES ASSUME direct # 1 PROVE Framing'
    OBVIOUS
  <1>2. Stream' = Stream
    BY DEF Stream
  <1>3. ~Finishing /\ ~HasTrailer(hold)
    BY <1>1 DEF Finishing, Framing
  <1>4. /\ WellFramed(Stream)
        /\ member = "new" => hold = <<>> /\ Ends(Stream)
        /\ member = "busy" => Stream # <<>> /\ ~Ends(Stream)
        /\ OnlyLast(hold)
        /\ member = "done" => hold = <<>> /\ Stream # <<>> /\ Ends(Stream) /\ reset
        /\ reset => member = "done"
    BY <1>1, <1>3 DEF Framing
  <1>5. /\ WellFramed(Stream)' /\ (Ends(Stream)' <=> Ends(Stream)) /\ (HasTrailer(hold)' <=> HasTrailer(hold))
        /\ OnlyLast(hold)'
    BY <1>2, <1>4 DEF WellFramed, Ends, HasTrailer, OnlyLast
  <1>6. QED
    BY <1>2, <1>3, <1>4, <1>5 DEF Framing

\* Where the input moves on, what was put out stays
LEMMA AccountedNext ==
    ASSUME Accounted, UNCHANGED <<file, outp, hold, direct>>,
           Content(Stream) \o inp' \o rest' = Written', Unframed(inp'), Unframed(rest'),
           rest' # <<>> => pc' = "moved" \/ (pc' \in CompPlaces /\ after' = "moved"),
           pc' = "moved" => inp' = <<>>,
           direct = 1 => pc' \notin {"write", "deflate"}
    PROVE  Accounted'
  <1>1. Stream' = Stream
    BY DEF Stream
  <1>2. Content(Stream)' = Content(Stream)
    BY <1>1 DEF Content, DataUpTo, Frames
  <1>3. direct' = 1 => outp' = <<>> /\ hold' = <<>> /\ pc' \notin {"write", "deflate"}
    BY DEF Accounted
  <1>4. Unframed(inp)' /\ Unframed(rest)'
    BY DEF Unframed, Frames
  <1> DEFINE c == Content(Stream)
  <1>5. Content(Stream)' \o inp' \o rest' = Written'
    BY <1>2
  <1>6. QED
    BY <1>3, <1>4, <1>5 DEF Accounted

\* n bytes more are written.
LEMMA WrittenMore ==
    ASSUME Writes, NEW n \in Nat, pos' = pos + n, zeros' = zeros
    PROVE  Written' = Written \o Piece(pos, n, zeros)
  <1>1. pos \in Nat /\ pos + n \in Nat
    BY WritesNow
  <1>2. Written = Piece(0, pos, zeros)
    BY <1>1, WrittenIsPiece
  <1>3. Written' = [i \in 1..(pos + n) |-> IF i - 1 \in zeros THEN Zero ELSE i - 1]
    BY DEF Written
  <1>4. Piece(0, pos + n, zeros) = [i \in 1..(pos + n) |-> IF i - 1 \in zeros THEN Zero ELSE i - 1]
    <2>1. \A i \in 1..(pos + n) : 0 + i - 1 = i - 1
      OBVIOUS
    <2>2. QED
      BY <2>1 DEF Piece
  <1>5. QED
    BY <1>1, <1>2, <1>3, <1>4, PieceJoin

\* Where nothing is skipped any more
LEMMA SeekOn ==
    ASSUME Writes, pc \in WritePlaces \ {"begin"}, ~Zeroing, NEW n \in Nat, pos' = pos + n,
           UNCHANGED <<zeros, skip, zn>>,
           pc' \notin {"zero", "zeroed"}, pc' \in CompPlaces => after' \notin {"zero", "zeroed"}
    PROVE  Seeking'
  <1>1. Seeking
    BY DEF Writes, Kept
  <1>2. skip = 0 /\ zn = 0
    <2>1. skip = 0
      BY <1>1 DEF Seeking
    <2>2. QED
      BY <2>1, WritesNow
  <1>3. Ahead = 0 /\ Ahead' = 0
    BY <1>2 DEF Ahead
  <1>4. zeros \subseteq 0..(pos + 0 - 1)
    BY <1>1, <1>3 DEF Seeking
  <1>5. zeros \subseteq 0..(pos + n + 0 - 1) /\ (pos + n)..(pos + n + 0 - 1) \subseteq zeros
    <2>1. pos \in Nat
      BY WritesNow
    <2>2. ASSUME NEW x \in zeros PROVE x \in 0..(pos + n + 0 - 1)
      <3>1. x \in 0..(pos + 0 - 1)
        BY <1>4
      <3>2. QED
        BY <2>1, <3>1
    <2>3. (pos + n)..(pos + n + 0 - 1) = {}
      BY <2>1
    <2>4. QED
      BY <2>2, <2>3
  <1>6. zeros' \subseteq 0..(pos' + Ahead' - 1) /\ pos'..(pos' + Ahead' - 1) \subseteq zeros'
    BY <1>3, <1>5
  <1>7. ~Zeroing' /\ skip' = 0 /\ zn' = 0
    BY <1>2 DEF Zeroing, CompPlaces
  <1>8. ~(pc' = "zeroed" \/ (pc' \in CompPlaces /\ after' = "zeroed"))
    OBVIOUS
  <1> HIDE DEF CompPlaces
  <1>9. QED
    BY <1>6, <1>7, <1>8, Zenon DEF Seeking, CompPlaces

\* A step within gz_comp, or its return
LEMMA SeekComp ==
    ASSUME Writes, pc \in CompPlaces, UNCHANGED <<zeros, pos, skip, zn, zclear, size, op>>,
           (pc' \in CompPlaces /\ after' = after) \/ CompReturn
    PROVE  Seeking'
  <1> DEFINE Zeroed == pc = "zeroed" \/ (pc \in CompPlaces /\ after = "zeroed")
  <1>1. pc \in WritePlaces \ {"begin"}
    BY DEF CompPlaces, WritePlaces
  <1>2. CASE ~Zeroing
    <2>1. pc' \notin {"zero", "zeroed"} /\ (pc' \in CompPlaces => after' \notin {"zero", "zeroed"})
      BY <1>2 DEF Zeroing, CompPlaces, CompReturn
    <2>2. pos' = pos + 0
      BY WritesNow
    <2>3. QED
      BY <1>1, <1>2, <2>1, <2>2, SeekOn
  <1>3. CASE Zeroing
    <2>1. after \in {"zero", "zeroed"}
      BY <1>3 DEF Zeroing, CompPlaces
    <2>2. pc' \in WritePlaces \ {"begin"} /\ Zeroing' /\ (Zeroed' <=> Zeroed)
      BY <2>1 DEF Zeroing, CompPlaces, CompReturn, WritePlaces
    <2>3. /\ zeros \subseteq 0..(pos + Ahead - 1) /\ pos..(pos + Ahead - 1) \subseteq zeros
          /\ zn # 0 => Zeroed
          /\ size > 0
          /\ skip = 0 \/ zclear = -1 \/ Lesser(size, skip - zn) <= zclear
          /\ Zeroed => zclear # -1
      BY <1>1, <1>3 DEF Seeking, Writes, Kept
    <2>4. Ahead' = Ahead
      BY <1>1, <2>2 DEF Ahead
    <2>5. zeros' \subseteq 0..(pos' + Ahead' - 1) /\ pos'..(pos' + Ahead' - 1) \subseteq zeros'
      BY <2>3, <2>4
    <2>6. /\ zn' # 0 => Zeroed'
          /\ size' > 0
          /\ skip' = 0 \/ zclear' = -1 \/ Lesser(size', skip' - zn') <= zclear'
          /\ Zeroed' => zclear' # -1
      BY <2>2, <2>3 DEF Lesser
    <2>7. QED
      BY <2>2, <2>5, <2>6, Zenon DEF Seeking
  <1>4. QED
    BY <1>2, <1>3

\* Between calls
LEMMA SeekIdle ==
    ASSUME Writes, pc = "idle", pc' = "idle", UNCHANGED <<pos, zeros>>
    PROVE  Seeking'
  <1>1. pc \notin WritePlaces /\ pc' \notin WritePlaces /\ ~Zeroing'
    BY DEF WritePlaces, Zeroing, CompPlaces
  <1>2. Ahead = 0 /\ Ahead' = 0
    BY <1>1 DEF Ahead
  <1>3. zeros \subseteq 0..(pos + Ahead - 1) /\ pos..(pos + Ahead - 1) \subseteq zeros
    BY DEF Seeking, Writes, Kept
  <1>4. zeros' \subseteq 0..(pos' + Ahead' - 1) /\ pos'..(pos' + Ahead' - 1) \subseteq zeros'
    BY <1>2, <1>3
  <1>5. QED
    BY <1>1, <1>4 DEF Seeking, CompPlaces

-----------------------------------------------------------------------------
(* The calls.                                                              *)

LEMMA StartKept ==
    ASSUME Writes, SeekRule = "buffered",
           NEW o \in {"write", "putc", "printf", "flush", "params", "close"}, NEW n \in Nat,
           NEW f \in Flushes \cup {"block"},
           o = "close" => f = "finish", o = "params" => f = "block", o = "flush" => f \in Flushes,
           Start(o, n, f)
    PROVE  Kept'
  <1>1. /\ pc = "idle" /\ (size > 0 \/ skip = 0 \/ o \in {"write", "printf"})
        /\ op' = o /\ flush' = f /\ pc' = "begin" /\ after' = "idle"
        /\ zeros' = zeros \cup pos..(pos + skip - 1)
        /\ zclear' = -1 /\ zn' = 0 /\ mode = "write"
        /\ UNCHANGED <<mode, size, direct, pos, skip, inp, rest, outp, reset, member, hold, file>>
    BY DEF Start, bufVars, defVars
  <1>2. zeros \subseteq 0..(pos + 0 - 1)
    <2>1. Ahead = 0
      BY <1>1 DEF Ahead, WritePlaces
    <2>2. QED
      BY <2>1 DEF Writes, Kept, Seeking
  <1>3. Accounted'
    <2>1. Accounted /\ rest = <<>>
      BY <1>1 DEF Writes, Kept, Accounted, CompPlaces
    <2> DEFINE z == zeros \cup pos..(pos + skip - 1)
    <2>2. \A i \in 0..(pos - 1) : i \in zeros <=> i \in z
      <3>1. ASSUME NEW i \in 0..(pos - 1) PROVE i \notin pos..(pos + skip - 1)
        BY WritesNow
      <3>2. QED
        BY <3>1
    <2> HIDE DEF z
    <2>3. Piece(0, pos, zeros) = Piece(0, pos, z)
      BY <2>2, WritesNow, PieceZeros
    <2>4. Written = Piece(0, pos, zeros)
      BY WritesNow, WrittenIsPiece
    <2>5. Written' = Piece(0, pos, z)
      <3>1. zeros' = z /\ pos' = pos
        BY <1>1 DEF z
      <3>2. Written' = [i \in 1..pos |-> IF i - 1 \in z THEN Zero ELSE i - 1]
        BY <3>1 DEF Written
      <3>3. \A i \in 1..pos : 0 + i - 1 = i - 1
        BY WritesNow
      <3>4. QED
        BY <3>2, <3>3 DEF Piece
    <2>6. Content(Stream) \o inp' \o rest' = Written'
      BY <1>1, <2>1, <2>3, <2>4, <2>5 DEF Accounted
    <2>7. QED
      BY <1>1, <2>1, <2>6, AccountedNext DEF Accounted
  <1>4. Seeking'
    <2>1. Ahead' = skip
      <3>1. Ahead' = skip' - zn'
        BY <1>1 DEF Ahead, WritePlaces
      <3>2. skip - 0 = skip
        BY WritesNow
      <3>3. QED
        BY <1>1, <3>1, <3>2
    <2>2. /\ zeros \cup pos..(pos + skip - 1) \subseteq 0..(pos + skip - 1)
          /\ pos..(pos + skip - 1) \subseteq zeros \cup pos..(pos + skip - 1)
      <3>1. pos \in Nat /\ skip \in Nat
        BY WritesNow
      <3>2. ASSUME NEW x \in zeros PROVE x \in 0..(pos + skip - 1)
        <4>1. x \in 0..(pos + 0 - 1)
          BY <1>2
        <4>2. QED
          BY <3>1, <4>1
      <3>3. pos..(pos + skip - 1) \subseteq 0..(pos + skip - 1)
        BY <3>1
      <3>4. QED
        BY <3>2, <3>3
    <2>3. zeros' \subseteq 0..(pos' + Ahead' - 1) /\ pos'..(pos' + Ahead' - 1) \subseteq zeros'
      BY <1>1, <2>1, <2>2
    <2>4. ~Zeroing' /\ pc' \notin CompPlaces
      BY <1>1 DEF Zeroing, CompPlaces
    <2>5. skip' = 0 \/ (zclear' = -1 /\ (size' > 0 \/ op' \in {"write", "printf"}))
      BY <1>1
    <2>6. QED
      BY <1>1, <2>3, <2>4, <2>5, Zenon DEF Seeking
  <1>5. Calls'
    BY <1>1 DEF Calls, CompPlaces
  <1>6. direct' # 1 => Framing'
    BY <1>1, FramingSame DEF Writes, Kept
  <1>7. Complete'
    BY <1>1 DEF Complete
  <1>8. QED
    BY <1>3, <1>4, <1>5, <1>6, <1>7 DEF Kept

LEMMA WriteSeekKept ==
    ASSUME Writes, WriteSeek
    PROVE  Kept'
  <1>1. /\ pc = "idle" /\ mode = "write"
        /\ UNCHANGED <<mode, size, direct, pos, pc, inp, rest, outp, reset, member, hold, file, zeros>>
        /\ UNCHANGED <<op, flush, after>>
    BY DEF WriteSeek, writeVars, bufVars, defVars, callVars, seenVars
  <1>2. Accounted'
    <2>1. Accounted
      BY DEF Writes, Kept
    <2>2. Written' = Written
      BY <1>1 DEF Written
    <2>3. Content(Stream) \o inp' \o rest' = Written'
      BY <1>1, <2>1, <2>2 DEF Accounted
    <2>4. QED
      BY <1>1, <2>1, <2>3, AccountedNext DEF Accounted
  <1>3. Seeking'
    BY <1>1, SeekIdle
  <1>4. Calls'
    BY <1>1 DEF Calls, CompPlaces, Writes, Kept
  <1>5. direct' # 1 => Framing'
    BY <1>1, FramingSame DEF Writes, Kept
  <1>6. Complete'
    <2>1. Complete
      BY DEF Writes, Kept
    <2>2. QED
      BY <1>1, <2>1 DEF Complete
  <1>7. QED
    BY <1>2, <1>3, <1>4, <1>5, <1>6 DEF Kept

-----------------------------------------------------------------------------
(* What comes before the body of a call.                                   *)

\* Where the input stays as it is
LEMMA AccountedSame ==
    ASSUME Accounted, UNCHANGED <<file, outp, hold, direct, inp, rest, pos, zeros>>,
           rest # <<>> => pc' = "moved" \/ (pc' \in CompPlaces /\ after' = "moved"),
           pc' = "moved" => inp = <<>>,
           direct = 1 => pc' \notin {"write", "deflate"}
    PROVE  Accounted'
  <1>1. Written' = Written
    BY DEF Written
  <1>2. Content(Stream) \o inp' \o rest' = Written' /\ Unframed(inp') /\ Unframed(rest')
    BY <1>1 DEF Accounted
  <1>3. QED
    BY <1>2, AccountedNext

LEMMA BeginKept ==
    ASSUME Writes, Begin, told' = FALSE
    PROVE  Kept'
  <1>1. /\ pc = "begin" /\ mode = "write"
        /\ UNCHANGED <<mode, direct, pos, skip, inp, rest, outp, reset, member, hold>>
        /\ UNCHANGED <<op, flush, zclear, zn, file, zeros>>
    BY DEF Begin, bufVars, defVars, Writes
  <1>2. \/ op \in {"write", "printf"} /\ size' = want /\ pc' = pc /\ after' = after
        \/ /\ ~(op \in {"write", "printf"} /\ size = 0)
           /\ pc' = (IF skip = 0 THEN "body" ELSE IF inp # <<>> THEN "comp" ELSE "zero")
           /\ after' = (IF skip = 0 THEN after ELSE "zero")
           /\ size' = size
    BY DEF Begin, WriteAlloc, Alloc, Fail
  <1>3. pc' \in {"begin", "body", "comp", "zero"} /\ (pc' = "comp" => after' = "zero")
    BY <1>1, <1>2
  <1>4. Accounted'
    <2>1. Accounted /\ rest = <<>>
      BY <1>1 DEF Writes, Kept, Accounted, CompPlaces
    <2>2. QED
      BY <1>1, <1>3, <2>1, AccountedSame
  <1>5. Seeking'
    <2>1. Seeking /\ Ahead = skip - zn
      BY <1>1 DEF Writes, Kept, Ahead, WritePlaces
    <2>2. zn = 0
      BY <1>1, <2>1 DEF Seeking, WritePlaces, CompPlaces
    <2>3. pc' \in WritePlaces /\ Ahead' = skip' - zn'
      BY <1>3 DEF Ahead, WritePlaces
    <2>4. Ahead' = Ahead
      BY <1>1, <2>1, <2>3
    <2>5. zeros' \subseteq 0..(pos' + Ahead' - 1) /\ pos'..(pos' + Ahead' - 1) \subseteq zeros'
      BY <1>1, <2>1, <2>4 DEF Seeking
    <2>6. skip = 0 \/ (zclear = -1 /\ (size > 0 \/ op \in {"write", "printf"}))
      BY <1>1, <2>1 DEF Seeking
    <2>7. ~(pc' = "zeroed" \/ (pc' \in CompPlaces /\ after' = "zeroed"))
      BY <1>3 DEF CompPlaces
    <2>8. CASE pc' = "begin"
      <3>1. op \in {"write", "printf"}
        BY <1>2, <2>8
      <3>2. skip' = 0 \/ (zclear' = -1 /\ (size' > 0 \/ op' \in {"write", "printf"}))
        BY <1>1, <2>6, <3>1
      <3>3. ~Zeroing' /\ zn' = 0
        BY <1>1, <2>2, <2>8 DEF Zeroing, CompPlaces
      <3>4. QED
        BY <2>5, <2>7, <2>8, <3>2, <3>3, Zenon DEF Seeking
    <2>9. CASE pc' # "begin"
      <3>1. /\ ~(op \in {"write", "printf"} /\ size = 0)
            /\ pc' = (IF skip = 0 THEN "body" ELSE IF inp # <<>> THEN "comp" ELSE "zero")
            /\ after' = (IF skip = 0 THEN after ELSE "zero")
            /\ size' = size
        BY <1>1, <1>2, <2>9
      <3>2. skip' = 0 \/ Zeroing'
        BY <1>1, <3>1 DEF Zeroing, CompPlaces
      <3>3. Zeroing' => skip # 0
        BY <3>1 DEF Zeroing, CompPlaces
      <3>4. skip # 0 => size > 0
        BY <2>6, <3>1, WritesNow
      <3>5. Zeroing' => size' > 0
        BY <3>1, <3>3, <3>4
      <3>6. zn' = 0 /\ (skip' = 0 \/ zclear' = -1)
        BY <1>1, <2>2, <2>6
      <3>7. QED
        BY <2>5, <2>7, <2>9, <3>2, <3>5, <3>6, Zenon DEF Seeking
    <2>10. QED
      BY <2>8, <2>9
  <1>6. Calls'
    BY <1>1, <1>3 DEF Calls, CompPlaces, Writes, Kept
  <1>7. direct' # 1 => Framing'
    BY <1>1, <1>3, FramingSame DEF Writes, Kept
  <1>8. Complete'
    BY <1>1, <1>3 DEF Complete
  <1>9. QED
    BY <1>4, <1>5, <1>6, <1>7, <1>8 DEF Kept

LEMMA ZeroRoundKept ==
    ASSUME Writes, ZeroRound
    PROVE  Kept'
  <1> DEFINE n == Lesser(size, skip)
             cleared == IF zclear = -1 THEN n ELSE zclear
             in == [i \in 1..n |-> IF i <= cleared THEN Zero ELSE Junk]
  <1>1. /\ pc = "zero" /\ mode = "write" /\ pc' = "comp" /\ after' = "zeroed"
        /\ zclear' = cleared /\ zn' = n /\ inp' = in /\ pos' = pos + n
        /\ UNCHANGED <<mode, size, direct, skip, rest, outp, reset, member, hold>>
        /\ UNCHANGED <<op, flush, file, zeros>>
    BY DEF ZeroRound, defVars, seenVars, Writes
  <1>2. n \in Nat /\ n <= size /\ n <= skip /\ n \in {size, skip}
    BY WritesNow, LesserIs
  <1>3. /\ Seeking /\ Ahead = skip - zn /\ zn = 0 /\ size > 0
        /\ skip = 0 \/ zclear = -1 \/ Lesser(size, skip - zn) <= zclear
    <2>1. Seeking
      BY DEF Writes, Kept
    <2>2. zn = 0 /\ size > 0 /\ Ahead = skip - zn
      BY <1>1, <2>1 DEF Seeking, WritePlaces, CompPlaces, Zeroing, Ahead
    <2>3. skip = 0 \/ zclear = -1 \/ Lesser(size, skip - zn) <= zclear
      BY <1>1, <2>1 DEF Seeking, WritePlaces
    <2>4. QED
      BY <2>1, <2>2, <2>3
  <1>4. skip - zn = skip
    BY <1>3, WritesNow
  <1>5. /\ zeros \subseteq 0..(pos + skip - 1) /\ pos..(pos + skip - 1) \subseteq zeros
    BY <1>3, <1>4 DEF Seeking
  <1>6. skip = 0 \/ zclear = -1 \/ n <= zclear
    BY <1>3, <1>4
  <1> HIDE DEF n
  <1>7. cleared \in Int /\ n <= cleared /\ cleared # -1
    <2>1. CASE zclear = -1
      BY <1>2, <2>1
    <2>2. CASE zclear # -1
      <3>1. skip = 0 => n = 0
        BY <1>2, WritesNow
      <3>2. zclear >= 0 /\ zclear \in Int
        BY <2>2, WritesNow
      <3>3. QED
        BY <1>2, <1>6, <2>2, <3>1, <3>2
    <2>3. QED
      BY <2>1, <2>2
  <1> HIDE DEF cleared
  <1>8. in = Piece(pos, n, zeros)
    <2>1. in = [i \in 1..n |-> Zero]
      <3>1. \A i \in 1..n : i <= cleared
        BY <1>2, <1>7
      <3>2. QED
        BY <3>1
    <2>2. pos..(pos + n - 1) \subseteq zeros
      <3>1. pos..(pos + n - 1) \subseteq pos..(pos + skip - 1)
        BY <1>2, WritesNow, SMTT(30)
      <3>2. QED
        BY <1>5, <3>1
    <2>3. pos \in Nat
      BY WritesNow
    <2>4. Piece(pos, n, zeros) = [i \in 1..n |-> Zero]
      BY <1>2, <2>2, <2>3, PieceOfZeros
    <2> HIDE DEF in
    <2>5. QED
      BY <2>1, <2>4
  <1> HIDE DEF in
  <1>9. Accounted'
    <2>1. Accounted /\ rest = <<>> /\ inp = <<>> /\ (direct = 1 => outp = <<>>)
      <3>1. inp = <<>>
        BY <1>1, WriteNow DEF Writes, BufferedIs
      <3>2. QED
        BY <1>1, <3>1 DEF Writes, Kept, Accounted, CompPlaces
    <2>2. Content(Stream) = Written
      <3>1. Content(Stream) \o <<>> \o <<>> = Written
        BY <2>1 DEF Accounted
      <3>2. Content(Stream) \o <<>> = Content(Stream)
        BY WritesNow, ConcatEmptySeq
      <3>3. QED
        BY <3>1, <3>2
    <2>3. Written' = Written \o Piece(pos, n, zeros)
      BY <1>1, <1>2, WrittenMore
    <2>4. in \in Seq(Int) /\ Unframed(in)
      BY <1>2, <1>8, WritesNow, PieceType
    <2>5. Content(Stream) \o in \o <<>> = Content(Stream) \o in
      <3>1. Content(Stream) \o in \in Seq(Int)
        BY <2>4, WritesNow, JoinIs
      <3>2. QED
        BY <3>1, ConcatEmptySeq
    <2>6. Content(Stream) \o inp' \o rest' = Written'
      BY <1>1, <1>8, <2>1, <2>2, <2>3, <2>5
    <2>7. QED
      BY <1>1, <2>1, <2>4, <2>6, AccountedNext DEF Accounted
  <1>10. Seeking'
    <2>1. Ahead' = skip - n
      BY <1>1 DEF Ahead, WritePlaces
    <2>2. pos + n + (skip - n) - 1 = pos + skip - 1
      BY <1>2, WritesNow, SMTT(30)
    <2>3. (pos + n)..(pos + skip - 1) \subseteq pos..(pos + skip - 1)
      BY <1>2, WritesNow, SMTT(30)
    <2>4. pos' + Ahead' - 1 = pos + skip - 1
      BY <1>1, <2>1, <2>2
    <2>5. zeros' \subseteq 0..(pos' + Ahead' - 1) /\ pos'..(pos' + Ahead' - 1) \subseteq zeros'
      BY <1>1, <1>5, <2>3, <2>4
    <2>6. Lesser(size, skip - n) <= cleared
      <3>1. Lesser(size, skip - n) <= n
        BY <1>2, WritesNow, SMTT(30) DEF Lesser
      <3>2. Lesser(size, skip - n) \in Int
        BY <1>2, WritesNow DEF Lesser
      <3>3. QED
        BY <1>2, <1>7, <3>1, <3>2
    <2>7. Lesser(size', skip' - zn') <= zclear' /\ zclear' # -1 /\ size' > 0
      BY <1>1, <1>3, <1>7, <2>6
    <2>8. Zeroing' /\ pc' \in CompPlaces /\ after' = "zeroed" /\ pc' # "begin"
      BY <1>1 DEF Zeroing, CompPlaces
    <2>9. QED
      BY <2>5, <2>7, <2>8, Zenon DEF Seeking
  <1>11. Calls'
    BY <1>1 DEF Calls, CompPlaces, Writes, Kept
  <1>12. direct' # 1 => Framing'
    BY <1>1, FramingSame DEF Writes, Kept
  <1>13. Complete'
    BY <1>1 DEF Complete
  <1>14. QED
    BY <1>9, <1>10, <1>11, <1>12, <1>13 DEF Kept

LEMMA ZeroDoneKept ==
    ASSUME Writes, ZeroDone
    PROVE  Kept'
  <1>1. /\ pc = "zeroed" /\ mode = "write" /\ skip' = skip - zn /\ zn' = 0
        /\ UNCHANGED <<mode, size, direct, pos, inp, rest, outp, reset, member, hold>>
        /\ UNCHANGED <<op, flush, after, file, zeros>>
        /\ IF skip' > 0 THEN pc' = "zero" /\ zclear' = zclear ELSE pc' = "body" /\ zclear' = -1
    BY DEF ZeroDone, bufVars, defVars, seenVars, Writes
  <1>2. pc' \in {"zero", "body"}
    BY <1>1
  <1>3. Accounted'
    <2>1. Accounted /\ rest = <<>>
      BY <1>1 DEF Writes, Kept, Accounted, CompPlaces
    <2>2. QED
      BY <1>1, <1>2, <2>1, AccountedSame
  <1>4. Seeking'
    <2>1. /\ Seeking /\ Ahead = skip - zn /\ size > 0 /\ zclear # -1
      BY <1>1 DEF Writes, Kept, Seeking, Ahead, WritePlaces, Zeroing
    <2>2. skip = 0 \/ Lesser(size, skip - zn) <= zclear
      BY <1>1, <2>1 DEF Seeking, WritePlaces
    <2> DEFINE s == skip - zn
    <2>3. s \in Nat /\ s - 0 = s /\ (skip = 0 => s = 0)
      BY <1>1, WritesNow DEF WritePlaces
    <2>4. Ahead' = s
      <3>1. Ahead' = skip' - zn'
        BY <1>2 DEF Ahead, WritePlaces
      <3>2. QED
        BY <1>1, <2>3, <3>1
    <2>5. zeros' \subseteq 0..(pos' + Ahead' - 1) /\ pos'..(pos' + Ahead' - 1) \subseteq zeros'
      BY <1>1, <2>1, <2>4 DEF Seeking
    <2> HIDE DEF s
    <2>6. skip' = s
      BY <1>1 DEF s
    <2>7. CASE s > 0
      <3>1. pc' = "zero" /\ zclear' = zclear
        BY <1>1, <2>6, <2>7
      <3>2. Lesser(size, s - 0) <= zclear
        BY <2>2, <2>3, <2>7 DEF s
      <3>3. Lesser(size', skip' - zn') <= zclear' /\ size' > 0
        BY <1>1, <2>1, <2>6, <3>1, <3>2
      <3>4. Zeroing' /\ ~(pc' = "zeroed" \/ (pc' \in CompPlaces /\ after' = "zeroed"))
        BY <3>1 DEF Zeroing, CompPlaces
      <3>5. pc' # "begin" /\ zn' = 0
        BY <1>1, <3>1
      <3>6. QED
        BY <2>5, <3>3, <3>4, <3>5, Zenon DEF Seeking
    <2>8. CASE ~(s > 0)
      <3>1. s = 0
        BY <2>3, <2>8
      <3>2. pc' = "body" /\ skip' = 0 /\ zclear' = -1
        BY <1>1, <2>6, <2>8, <3>1
      <3>3. ~Zeroing' /\ ~(pc' = "zeroed" \/ (pc' \in CompPlaces /\ after' = "zeroed"))
        BY <3>2 DEF Zeroing, CompPlaces
      <3>4. pc' # "begin" /\ zn' = 0
        BY <1>1, <3>2
      <3>5. QED
        BY <2>5, <3>2, <3>3, <3>4, Zenon DEF Seeking
    <2>9. QED
      BY <2>7, <2>8
  <1>5. Calls'
    BY <1>1, <1>2 DEF Calls, CompPlaces, Writes, Kept
  <1>6. direct' # 1 => Framing'
    BY <1>1, <1>2, FramingSame DEF Writes, Kept
  <1>7. Complete'
    BY <1>1, <1>2 DEF Complete
  <1>8. QED
    BY <1>3, <1>4, <1>5, <1>6, <1>7 DEF Kept

-----------------------------------------------------------------------------
(* The bodies.                                                             *)

\* No seek is pending where a body runs, and all input lies in one piece.
LEMMA BodyNow ==
    ASSUME Writes, Body
    PROVE  /\ pc = "body" /\ pc \in WritePlaces \ {"begin"} /\ ~Zeroing /\ rest = <<>>
           /\ \A i \in zeros : i \in Int /\ i < pos
           /\ Content(Stream) \o inp = Written /\ Unframed(inp)
           /\ UNCHANGED <<mode, size, direct, skip, outp, reset, member, hold>>
           /\ UNCHANGED <<flush, zn, file, zeros>>
  <1>1. /\ pc = "body" /\ UNCHANGED <<mode, size, direct, skip, outp, reset, member, hold>>
        /\ UNCHANGED <<flush, zn, file, zeros>>
    BY DEF Body, seenVars
  <1>2. pc \in WritePlaces \ {"begin"} /\ ~Zeroing
    BY <1>1 DEF WritePlaces, Zeroing, CompPlaces
  <1>3. Accounted /\ Seeking
    BY DEF Writes, Kept
  <1>4. rest = <<>>
    BY <1>1, <1>3 DEF Accounted, CompPlaces
  <1>5. skip = 0 /\ zn = 0
    <2>1. skip = 0
      BY <1>2, <1>3 DEF Seeking
    <2>2. QED
      BY <1>2, <2>1, WritesNow
  <1>6. \A i \in zeros : i \in Int /\ i < pos
    <2>1. Ahead = 0
      BY <1>5 DEF Ahead
    <2>2. zeros \subseteq 0..(pos + 0 - 1)
      BY <1>3, <2>1 DEF Seeking
    <2>3. ASSUME NEW i \in zeros PROVE i \in Int /\ i < pos
      <3>1. i \in 0..(pos + 0 - 1) /\ pos \in Nat
        BY <2>2, WritesNow
      <3>2. QED
        BY <3>1
    <2>4. QED
      BY <2>3
  <1>7. Content(Stream) \o inp = Written /\ Unframed(inp)
    <2>1. Content(Stream) \o inp \o <<>> = Written /\ Unframed(inp)
      BY <1>3, <1>4 DEF Accounted
    <2>2. Content(Stream) \o inp \in Seq(Int)
      BY WritesNow, JoinIs
    <2>3. QED
      BY <2>1, <2>2, ConcatEmptySeq
  <1>8. QED
    BY <1>1, <1>2, <1>4, <1>6, <1>7

\* The next n bytes of the caller, behind the input
LEMMA DataMore ==
    ASSUME Writes, Body, NEW n \in Nat, pos' = pos + n
    PROVE  LET i == inp \o Data(pos, n) IN
           i \in Seq(Int) /\ Unframed(i) /\ Content(Stream) \o i = Written'
  <1> DEFINE d == Data(pos, n)
  <1>1. pos \in Nat
    BY WritesNow
  <1>2. d = Piece(pos, n, zeros)
    BY <1>1, BodyNow, PieceOfData
  <1>3. d \in Seq(Int) /\ Unframed(d)
    BY <1>1, <1>2, PieceType
  <1>4. Written' = Written \o d
    BY <1>2, BodyNow, WrittenMore
  <1> HIDE DEF d
  <1>5. inp \o d \in Seq(Int) /\ Unframed(inp \o d)
    BY <1>3, BodyNow, WritesNow, JoinIs, UnframedJoin
  <1>6. Content(Stream) \o (inp \o d) = (Content(Stream) \o inp) \o d
    <2>1. Content(Stream) \in Seq(Int) /\ inp \in Seq(Int)
      BY WritesNow
    <2>2. QED
      BY <1>3, <2>1, Regroup, Zenon
  <1>7. Content(Stream) \o (inp \o d) = Written'
    BY <1>4, <1>6, BodyNow
  <1>8. QED
    BY <1>5, <1>7 DEF d

\* What a body leaves behind
LEMMA BodyKept ==
    ASSUME Writes, Body, NEW n \in Nat, pos' = pos + n,
           Content(Stream) \o inp' \o rest' = Written', Unframed(inp'), Unframed(rest'),
           rest' # <<>> => pc' = "comp" /\ after' = "moved",
           pc' \in {"idle", "begin", "comp", "params"},
           pc' = "comp" => \/ after' \in {"idle", "body"} /\ op' = "write"
                           \/ after' = "moved" /\ op' = "printf"
                           \/ after' = "params" /\ op' = "params"
                           \/ after' = "flushed" /\ op' = "flush"
                           \/ after' = "closed" /\ op' = "close",
           pc' = "params" => op' = "params",
           pc' = "idle" => op' # "flush",
           op' \in {op, "write"}
    PROVE  Kept'
  <1>1. Accounted /\ Calls
    BY DEF Writes, Kept
  <1>2. Accounted'
    BY <1>1, BodyNow, AccountedNext DEF CompPlaces
  <1>3. Seeking'
    <2>1. pc' \notin {"zero", "zeroed"} /\ (pc' \in CompPlaces => after' \notin {"zero", "zeroed"})
      BY DEF CompPlaces
    <2>2. QED
      BY <2>1, BodyNow, SeekOn
  <1>4. Calls'
    <2>1. /\ op = "close" => flush = "finish"
          /\ op = "params" => flush = "block"
          /\ op = "flush" => flush \in Flushes
      BY <1>1 DEF Calls
    <2>2. flush' = flush
      BY BodyNow
    <2>3. QED
      BY <2>1, <2>2 DEF Calls, CompPlaces
  <1>5. direct' # 1 => Framing'
    BY BodyNow, FramingSame DEF Writes, Kept
  <1>6. Complete'
    BY BodyNow DEF Complete, Writes
  <1>7. QED
    BY <1>2, <1>3, <1>4, <1>5, <1>6 DEF Kept

\* Where the rest stays empty
LEMMA NoRest ==
    ASSUME Writes, Body, rest' = rest, inp' \in Seq(Int), Content(Stream) \o inp' = Written'
    PROVE  /\ Content(Stream) \o inp' \o rest' = Written' /\ Unframed(rest') /\ rest' = <<>>
  <1> DEFINE i == inp'
  <1>1. rest' = <<>>
    BY BodyNow
  <1>2. Content(Stream) \o i \in Seq(Int)
    BY WritesNow, JoinIs
  <1>3. Content(Stream) \o i \o <<>> = Content(Stream) \o i
    BY <1>2, ConcatEmptySeq
  <1>4. Unframed(<<>>)
    BY DEF Unframed
  <1>5. QED
    BY <1>1, <1>3, <1>4

LEMMA FillKept ==
    ASSUME Writes, Body, NEW n \in Nat, Fill(n), rest' = rest
    PROVE  /\ pos' = pos + n /\ Unframed(inp') /\ rest' = <<>> /\ Unframed(rest')
           /\ Content(Stream) \o inp' \o rest' = Written'
  <1>1. pos' = pos + n /\ inp' = inp \o Data(pos, n)
    BY DEF Fill
  <1>2. inp' \in Seq(Int) /\ Unframed(inp') /\ Content(Stream) \o inp' = Written'
    BY <1>1, DataMore
  <1>3. QED
    BY <1>1, <1>2, NoRest

\* A body that reads nothing of the caller
LEMMA NoFill ==
    ASSUME Writes, Body, UNCHANGED <<inp, pos, rest>>
    PROVE  /\ pos' = pos + 0 /\ Unframed(inp') /\ rest' = <<>> /\ Unframed(rest')
           /\ Content(Stream) \o inp' \o rest' = Written'
  <1>1. pos' = pos + 0
    BY WritesNow
  <1>2. Written' = Written
    BY BodyNow DEF Written
  <1>3. inp' \in Seq(Int) /\ Content(Stream) \o inp' = Written'
    BY <1>2, BodyNow, WritesNow
  <1>4. Unframed(inp')
    BY BodyNow
  <1>5. QED
    BY <1>1, <1>3, <1>4, NoRest

LEMMA WriteSmallKept ==
    ASSUME Writes, Body, WriteSmall
    PROVE  Kept'
  <1> DEFINE copy == Lesser(Room, left)
  <1>1. /\ op = "write" /\ left < size /\ Fill(copy)
        /\ rest' = rest /\ op' = op
        /\ (pc' = "comp" /\ after' = "body") \/ pc' = "idle"
    BY DEF WriteSmall, CallComp, Return
  <1>2. copy \in Nat
    <2>1. FillAt = Len(inp) /\ (inp # <<>> => Len(inp) <= size)
      BY <1>1, BodyStart DEF Writes
    <2>2. Room \in Nat /\ left \in Nat
      <3>1. inp = <<>> => Len(inp) = 0
        OBVIOUS
      <3>2. size \in Nat /\ Len(inp) \in Nat /\ left \in Nat
        BY WritesNow, WriteNumbers DEF Writes
      <3>3. QED
        BY <2>1, <3>1, <3>2 DEF Room
    <2>3. QED
      BY <2>2, LesserIs
  <1> HIDE DEF copy
  <1>3. /\ pos' = pos + copy /\ Unframed(inp') /\ rest' = <<>> /\ Unframed(rest')
        /\ Content(Stream) \o inp' \o rest' = Written'
    BY <1>1, <1>2, FillKept
  <1>4. QED
    BY <1>1, <1>2, <1>3, BodyKept

LEMMA WriteLargeKept ==
    ASSUME Writes, Body, WriteLarge
    PROVE  Kept'
  <1>1. CASE inp # <<>>
    <2>1. op = "write" /\ op' = op /\ UNCHANGED <<inp, pos, rest>> /\ pc' = "comp" /\ after' = "body"
      BY <1>1 DEF WriteLarge, CallComp
    <2>2. QED
      BY <2>1, NoFill, BodyKept
  <1>2. CASE inp = <<>>
    <2>1. /\ op = "write" /\ op' = op /\ rest' = rest /\ pc' = "comp" /\ after' = "idle"
          /\ inp' = Data(pos, left) /\ pos' = pos + left
      BY <1>2 DEF WriteLarge, CallComp
    <2>2. left \in Nat /\ pos \in Nat
      BY WritesNow, WriteNumbers DEF Writes
    <2>3. inp \o Data(pos, left) = Data(pos, left)
      BY <1>2, <2>2, DataIs, ConcatEmptySeq
    <2>4. inp' \in Seq(Int) /\ Unframed(inp') /\ Content(Stream) \o inp' = Written'
      BY <2>1, <2>2, <2>3, DataMore
    <2>5. Content(Stream) \o inp' \o rest' = Written' /\ Unframed(rest') /\ rest' = <<>>
      BY <2>1, <2>4, NoRest
    <2>6. QED
      BY <2>1, <2>2, <2>4, <2>5, BodyKept
  <1>3. QED
    BY <1>1, <1>2

LEMMA PutcBodyKept ==
    ASSUME Writes, Body, PutcBody
    PROVE  Kept'
  <1>1. /\ op = "putc" /\ rest' = rest
        /\ \/ Fill(1) /\ pc' = "idle" /\ op' = op
           \/ op' = "write" /\ pc' = "begin" /\ UNCHANGED <<inp, pos>>
    BY DEF PutcBody, Return
  <1>2. CASE Fill(1) /\ pc' = "idle" /\ op' = op
    BY <1>1, <1>2, FillKept, BodyKept
  <1>3. CASE op' = "write" /\ pc' = "begin" /\ UNCHANGED <<inp, pos>>
    BY <1>1, <1>3, NoFill, BodyKept
  <1>4. QED
    BY <1>1, <1>2, <1>3

LEMMA PrintfBodyKept ==
    ASSUME Writes, Body, PrintfBody
    PROVE  Kept'
  <1> DEFINE d == Data(pos, left)
             all == inp \o d
             at == IF inp = <<>> THEN 0 ELSE noff
             mem == [i \in 1..at |-> Junk] \o all
             more == Len(all) - size
  <1>1. /\ op = "printf" /\ op' = op
        /\ CASE left >= size -> Return /\ UNCHANGED <<inp, noff, pos, rest>>
             [] left < size /\ more < 0 -> Fill(left) /\ Return /\ UNCHANGED rest
             [] OTHER -> /\ inp' = SubSeq(all, 1, size) /\ noff' = at /\ pos' = pos + left
                         /\ rest' = SubSeq(mem, size + 1, size + more)
                         /\ CallComp("moved")
    BY DEF PrintfBody
  <1>2. /\ left \in Nat /\ pos \in Nat /\ inp \in Seq(Int) /\ Len(inp) \in Nat /\ size \in Nat
    BY WritesNow, WriteNumbers DEF Writes
  <1>3. at = 0
    BY <1>1, BodyStart DEF Writes
  <1>4. d \in Seq(Int) /\ Len(d) = left
    BY <1>2, DataIs
  <1>5. all = inp \o Data(pos, left)
    OBVIOUS
  <1> HIDE DEF d
  <1>6. all \in Seq(Int) /\ Len(all) = Len(inp) + left
    BY <1>2, <1>4, JoinIs
  <1> HIDE DEF all, at
  <1>7. mem = all
    <2>1. [i \in 1..at |-> Junk] = <<>>
      BY <1>3
    <2>2. QED
      BY <1>6, <2>1, ConcatEmptySeq
  <1> HIDE DEF mem, more
  <1>8. CASE left >= size
    <2>1. Return /\ UNCHANGED <<inp, noff, pos, rest>>
      BY <1>1, <1>2, <1>8
    <2>2. pc' = "idle"
      BY <2>1 DEF Return
    <2>3. QED
      BY <1>1, <2>1, <2>2, NoFill, BodyKept
  <1>9. CASE left < size /\ more < 0
    <2>1. Fill(left) /\ pc' = "idle" /\ rest' = rest
      BY <1>1, <1>2, <1>9 DEF Return
    <2>2. QED
      BY <1>1, <1>2, <2>1, FillKept, BodyKept
  <1>10. CASE left < size /\ ~(more < 0)
    <2>1. /\ inp' = SubSeq(all, 1, size) /\ pos' = pos + left
          /\ rest' = SubSeq(mem, size + 1, size + more) /\ pc' = "comp" /\ after' = "moved"
      BY <1>1, <1>2, <1>10 DEF CallComp
    <2>2. size \in 0..Len(all) /\ size + more = Len(all)
      BY <1>2, <1>6, <1>10 DEF more
    <2>3. Unframed(all) /\ Content(Stream) \o all = Written'
      BY <1>2, <1>5, <2>1, DataMore
    <2> DEFINE a == SubSeq(all, 1, size)
               b == SubSeq(all, size + 1, Len(all))
    <2>4. a \o b = all /\ a \in Seq(Int) /\ b \in Seq(Int)
      BY <1>6, <2>2, SplitIs
    <2>5. Unframed(a) /\ Unframed(b)
      BY <1>6, <2>2, <2>3, UnframedParts
    <2>6. inp' = a /\ rest' = b
      BY <1>7, <2>1, <2>2
    <2> HIDE DEF a, b
    <2>7. Content(Stream) \o a \o b = Content(Stream) \o (a \o b)
      <3>1. Content(Stream) \in Seq(Int)
        BY WritesNow
      <3>2. QED
        BY <2>4, <3>1, Regroup, Zenon
    <2>8. Content(Stream) \o inp' \o rest' = Written'
      BY <2>3, <2>4, <2>6, <2>7
    <2>9. QED
      BY <1>1, <1>2, <2>1, <2>5, <2>6, <2>8, BodyKept
  <1>11. QED
    BY <1>2, <1>8, <1>9, <1>10

LEMMA FlushBodyKept ==
    ASSUME Writes, Body, FlushBody
    PROVE  Kept'
  <1>1. /\ op \in {"flush", "close"} /\ op' = op /\ UNCHANGED <<inp, pos, rest>>
        /\ pc' = "comp" /\ after' = (IF op = "close" THEN "closed" ELSE "flushed")
    BY DEF FlushBody, CallComp
  <1>2. QED
    BY <1>1, NoFill, BodyKept

LEMMA ParamsBodyKept ==
    ASSUME Writes, Body, ParamsBody
    PROVE  Kept'
  <1>1. /\ op = "params" /\ op' = op /\ UNCHANGED <<inp, pos, rest>>
        /\ pc' = "params" \/ (pc' = "comp" /\ after' = "params")
    BY DEF ParamsBody, CallComp
  <1>2. QED
    BY <1>1, NoFill, BodyKept

LEMMA BodiesKept ==
    ASSUME Writes, Body
    PROVE  Kept'
  BY WriteSmallKept, WriteLargeKept, PutcBodyKept, PrintfBodyKept, FlushBodyKept, ParamsBodyKept DEF Body

-----------------------------------------------------------------------------
(* The ends of gzprintf, gzsetparams and gzclose.                          *)

LEMMA MovedKept ==
    ASSUME Writes, Moved
    PROVE  Kept'
  <1>1. /\ pc = "moved" /\ inp' = rest /\ rest' = <<>> /\ pc' = "idle" /\ mode = "write"
        /\ UNCHANGED <<mode, size, direct, pos, skip, outp, reset, member, hold>>
        /\ UNCHANGED <<op, flush, after, zn, file, zeros>>
    BY DEF Moved, defVars, callVars, seenVars, Writes
  <1>2. Accounted /\ Seeking /\ Calls /\ inp = <<>> /\ op = "printf"
    BY <1>1 DEF Writes, Kept, Accounted, Calls
  <1>3. Accounted'
    <2>1. Content(Stream) \o <<>> \o rest = Written
      BY <1>2 DEF Accounted
    <2>2. Content(Stream) \o <<>> = Content(Stream) /\ Content(Stream) \o rest \o <<>> = Content(Stream) \o rest
      <3>1. Content(Stream) \o rest \in Seq(Int) /\ Content(Stream) \in Seq(Int)
        BY WritesNow, JoinIs
      <3>2. QED
        BY <3>1, ConcatEmptySeq
    <2>3. Written' = Written
      BY <1>1 DEF Written
    <2>4. Content(Stream) \o inp' \o rest' = Written'
      BY <1>1, <2>1, <2>2, <2>3
    <2>5. Unframed(inp') /\ Unframed(rest')
      BY <1>1, <1>2 DEF Accounted, Unframed
    <2>6. QED
      BY <1>1, <1>2, <2>4, <2>5, AccountedNext
  <1>4. Seeking'
    <2>1. pc \in WritePlaces \ {"begin"} /\ ~Zeroing
      BY <1>1 DEF WritePlaces, Zeroing, CompPlaces
    <2>2. pos' = pos + 0
      BY <1>1, WritesNow
    <2>3. QED
      BY <1>1, <2>1, <2>2, SeekOn DEF CompPlaces
  <1>5. Calls'
    BY <1>1, <1>2 DEF Calls, CompPlaces
  <1>6. direct' # 1 => Framing'
    BY <1>1, FramingSame DEF Writes, Kept
  <1>7. Complete'
    BY <1>1, <1>2 DEF Complete
  <1>8. QED
    BY <1>3, <1>4, <1>5, <1>6, <1>7 DEF Kept

\* What was held goes out in the same order.
LEMMA ParamsKept ==
    ASSUME Writes, Params
    PROVE  Kept'
  <1>1. /\ pc = "params" /\ pc' = "idle" /\ mode = "write"
        /\ UNCHANGED <<mode, size, direct, pos, skip, inp, rest, reset, member>>
        /\ UNCHANGED <<op, flush, after, zn, file, zeros>>
    BY DEF Params, callVars, seenVars, Writes
  <1>2. PICK e \in 0..Len(hold) : outp' = outp \o SubSeq(hold, 1, e) /\ hold' = SubSeq(hold, e + 1, Len(hold))
    BY DEF Params
  <1> DEFINE a == SubSeq(hold, 1, e)
             b == SubSeq(hold, e + 1, Len(hold))
  <1>3. /\ file \in Seq(Int) /\ outp \in Seq(Int) /\ hold \in Seq(Int) /\ Len(hold) \in Nat
    BY WritesNow
  <1>4. a \o b = hold /\ a \in Seq(Int) /\ b \in Seq(Int) /\ Len(b) = Len(hold) - e
        /\ \A i \in 1..(Len(hold) - e) : b[i] = hold[e + i]
    BY <1>3, SplitIs
  <1>5. outp' = outp \o a /\ hold' = b
    BY <1>2
  <1>6. hold = <<>> => a = <<>> /\ b = <<>>
    <2>1. ASSUME hold = <<>> PROVE e = 0 /\ Len(hold) = 0
      BY <2>1
    <2>2. QED
      BY <1>3, <2>1, SubSeqEmpty
  <1>7. ~HasTrailer(hold) => ~HasTrailer(b)
    <2>1. ASSUME NEW i \in 1..Len(b), b[i] = Trailer PROVE HasTrailer(hold)
      <3>1. i \in 1..(Len(hold) - e) /\ e + i \in 1..Len(hold)
        BY <1>3, <1>4
      <3>2. QED
        BY <1>4, <2>1, <3>1 DEF HasTrailer
    <2>2. QED
      BY <2>1 DEF HasTrailer
  <1> HIDE DEF a, b
  <1>8. Stream' = Stream
    <2>1. file \o (outp \o a) = (file \o outp) \o a
      <3>1. a \in Seq(Int) /\ outp \in Seq(Int) /\ file \in Seq(Int)
        BY <1>3, <1>4
      <3>2. QED
        BY <3>1, Regroup, ZenonT(30)
    <2> DEFINE f == file \o outp
    <2>2. f \in Seq(Int)
      BY <1>3, JoinIs
    <2> HIDE DEF f
    <2>3. (f \o a) \o b = f \o (a \o b)
      BY <1>4, <2>2, Regroup, Zenon
    <2>4. file' \o outp' \o hold' = (f \o a) \o b
      BY <1>1, <1>5, <2>1 DEF f
    <2>5. QED
      BY <1>4, <2>3, <2>4 DEF Stream, f
  <1>9. Accounted /\ Seeking /\ Calls /\ op = "params" /\ rest = <<>>
    BY <1>1 DEF Writes, Kept, Accounted, Calls, CompPlaces
  <1>10. Accounted'
    <2>1. Content(Stream)' = Content(Stream)
      BY <1>8 DEF Content, DataUpTo, Frames
    <2>2. Written' = Written
      BY <1>1 DEF Written
    <2>3. Content(Stream)' \o inp' \o rest' = Written'
      BY <1>1, <1>9, <2>1, <2>2 DEF Accounted
    <2>4. Unframed(inp)' /\ Unframed(rest)'
      BY <1>1, <1>9 DEF Accounted, Unframed, Frames
    <2>5. direct' = 1 => outp' = <<>> /\ hold' = <<>>
      BY <1>1, <1>5, <1>6, <1>9 DEF Accounted
    <2>6. QED
      BY <1>1, <1>9, <2>3, <2>4, <2>5 DEF Accounted
  <1>11. Seeking'
    <2>1. pc \in WritePlaces \ {"begin"} /\ ~Zeroing
      BY <1>1 DEF WritePlaces, Zeroing, CompPlaces
    <2>2. pos' = pos + 0
      BY <1>1, WritesNow
    <2>3. QED
      BY <1>1, <2>1, <2>2, SeekOn DEF CompPlaces
  <1>12. Calls'
    BY <1>1, <1>9 DEF Calls, CompPlaces
  <1>13. direct' # 1 => Framing'
    <2>1. SUFFICES ASSUME direct # 1 PROVE Framing'
      BY <1>1
    <2>2. Framing /\ ~Finishing
      BY <1>1, <2>1 DEF Writes, Kept, Finishing
    <2>3. ~HasTrailer(hold) /\ ~HasTrailer(b)
      BY <1>7, <2>2 DEF Framing
    <2>4. ~HasTrailer(hold') /\ OnlyLast(hold')
      <3>1. OnlyLast(b)
        <4>1. \A i \in 1..(Len(b) - 1) : i \in 1..Len(b)
          BY <1>4
        <4>2. QED
          BY <2>3, <4>1 DEF HasTrailer, OnlyLast
      <3>2. QED
        BY <1>5, <2>3, <3>1
    <2>5. /\ WellFramed(Stream)
          /\ member = "new" => hold = <<>> /\ Ends(Stream)
          /\ member = "busy" => Stream # <<>> /\ ~Ends(Stream)
          /\ member = "done" => hold = <<>> /\ Stream # <<>> /\ Ends(Stream) /\ reset
          /\ reset => member = "done"
      BY <2>2, <2>3 DEF Framing
    <2>6. /\ WellFramed(Stream)' /\ (Ends(Stream)' <=> Ends(Stream)) /\ ~HasTrailer(hold)' /\ OnlyLast(hold)'
      BY <1>8, <2>4, <2>5 DEF WellFramed, Ends, HasTrailer, OnlyLast
    <2>7. hold = <<>> => hold' = <<>>
      BY <1>5, <1>6
    <2>8. QED
      BY <1>1, <1>8, <2>5, <2>6, <2>7 DEF Framing
  <1>14. Complete'
    BY <1>1, <1>9 DEF Complete
  <1>15. QED
    BY <1>10, <1>11, <1>12, <1>13, <1>14 DEF Kept

LEMMA ClosedKept ==
    ASSUME Writes, Closed
    PROVE  Kept' /\ op' = "close"
  <1>1. /\ pc = "closed" /\ mode' = "closed" /\ pc' = "idle"
        /\ UNCHANGED <<size, direct, pos, skip, inp, rest, outp, reset, member, hold>>
        /\ UNCHANGED <<op, flush, after, zn, file, zeros>>
    BY DEF Closed, bufVars, defVars, callVars
  <1>2. Accounted /\ Seeking /\ Calls /\ Complete /\ op = "close"
    BY <1>1 DEF Writes, Kept, Calls
  <1>3. Accounted'
    BY <1>1, <1>2, AccountedSame DEF Accounted, CompPlaces
  <1>4. Seeking'
    <2>1. pc \in WritePlaces \ {"begin"} /\ ~Zeroing
      BY <1>1 DEF WritePlaces, Zeroing, CompPlaces
    <2>2. pos' = pos + 0
      BY <1>1, WritesNow
    <2>3. QED
      BY <1>1, <2>1, <2>2, SeekOn DEF CompPlaces
  <1>5. Calls'
    BY <1>1, <1>2 DEF Calls, CompPlaces
  <1>6. direct' # 1 => Framing'
    BY <1>1, FramingSame DEF Writes, Kept
  <1>7. Complete'
    <2>1. Stream' = Stream
      BY <1>1 DEF Stream
    <2>2. inp = <<>> /\ rest = <<>> /\ outp = <<>> /\ hold = <<>> /\ (direct # 1 => Stream # <<>> /\ Ends(Stream))
      BY <1>1, <1>2 DEF Complete
    <2>3. QED
      BY <1>1, <2>1, <2>2 DEF Complete, Ends
  <1>8. QED
    BY <1>1, <1>2, <1>3, <1>4, <1>5, <1>6, <1>7 DEF Kept

-----------------------------------------------------------------------------
(* gz_comp.                                                                *)

\* What gz_comp leaves behind, at each round and at its return
LEMMA CompKept ==
    ASSUME Writes, pc \in CompPlaces, Seeking', NEW s, Stream' = s,
           UNCHANGED <<mode, zeros, pos, rest, op, flush, direct>>,
           Content(s) \o inp' \o rest = Written, Unframed(inp'),
           \/ pc' \in CompPlaces /\ after' = after
           \/ /\ CompReturn /\ inp' = <<>>
              /\ CompFlush \in {"sync", "finish"} => outp' = <<>> /\ hold' = <<>>
              /\ CompFlush = "finish" /\ direct # 1 => s # <<>> /\ Ends(s),
           direct = 1 => outp' = <<>> /\ hold' = <<>> /\ pc' \notin {"write", "deflate"},
           direct # 1 => Framing'
    PROVE  Kept'
  <1>1. Accounted /\ Calls /\ mode = "write" /\ pc # "moved"
    BY DEF Writes, Kept, CompPlaces
  <1>2. after \in {"idle", "body", "zero", "zeroed", "moved", "params", "flushed", "closed"}
        /\ op \in {"none", "write", "putc", "printf", "flush", "params", "close"}
    BY WritesNow
  <1>3. /\ after \in {"idle", "body"} => op = "write"
        /\ after = "moved" => op = "printf"
        /\ after = "params" => op = "params"
        /\ after = "flushed" => op = "flush"
        /\ after = "closed" => op = "close"
        /\ op = "close" => flush = "finish"
        /\ op = "params" => flush = "block"
        /\ op = "flush" => flush \in Flushes
    BY <1>1 DEF Calls
  <1>4. \/ pc' \in CompPlaces /\ after' = after
        \/ pc' = (IF after = "flushed" THEN "idle" ELSE after) /\ after' = "idle" /\ inp' = <<>>
    BY DEF CompReturn
  <1>5. rest # <<>> => after = "moved"
    BY <1>1 DEF Accounted
  <1>6. Accounted'
    <2>1. Written' = Written
      BY DEF Written
    <2>2. Content(Stream)' = Content(s)
      BY DEF Content, DataUpTo, Frames
    <2>3. Content(Stream)' \o inp' \o rest' = Written'
      BY <2>1, <2>2
    <2>4. Unframed(inp)' /\ Unframed(rest)'
      BY <1>1 DEF Accounted, Unframed, Frames
    <2>5. rest' # <<>> => pc' = "moved" \/ (pc' \in CompPlaces /\ after' = "moved")
      BY <1>4, <1>5
    <2>6. pc' = "moved" => inp' = <<>>
      BY <1>4 DEF CompPlaces
    <2>7. QED
      BY <2>3, <2>4, <2>5, <2>6 DEF Accounted
  <1>7. Calls'
    <2>1. pc' \in CompPlaces => after' = after
      BY <1>2, <1>4 DEF CompPlaces
    <2>2. (pc' = "moved" => op = "printf") /\ (pc' = "params" => op = "params") /\ (pc' = "closed" => op = "close")
      BY <1>2, <1>3, <1>4 DEF CompPlaces
    <2>3. QED
      BY <1>3, <2>1, <2>2, Zenon DEF Calls, CompPlaces, Flushes
  <1>8. Complete'
    <2>1. SUFFICES ASSUME pc' = "closed" \/ (pc' = "idle" /\ op' = "flush" /\ flush' # "none")
                   PROVE  /\ inp' = <<>> /\ rest' = <<>> /\ outp' = <<>> /\ hold' = <<>>
                          /\ pc' = "closed" /\ direct' # 1 => Stream' # <<>> /\ Ends(Stream')
      <3>1. mode' # "closed"
        BY <1>1
      <3>2. Ends(Stream)' <=> Ends(Stream')
        BY DEF Ends
      <3>3. QED
        BY <3>1, <3>2 DEF Complete
    <2>2. pc' \notin CompPlaces
      BY <2>1 DEF CompPlaces
    <2>3. (after = "closed" \/ (after = "flushed" /\ flush # "none")) /\ inp' = <<>> /\ (pc' = "closed" => after = "closed")
      BY <1>2, <1>3, <1>4, <2>1, <2>2
    <2>4. CompFlush \in {"sync", "finish"} /\ (pc' = "closed" => CompFlush = "finish")
      BY <1>3, <2>3 DEF CompFlush, Flushes
    <2>5. outp' = <<>> /\ hold' = <<>> /\ (pc' = "closed" /\ direct # 1 => s # <<>> /\ Ends(s))
      BY <2>2, <2>4
    <2>6. QED
      BY <1>5, <2>3, <2>5
  <1>9. QED
    BY <1>6, <1>7, <1>8 DEF Kept

LEMMA CompStepKept ==
    ASSUME Writes, Comp, told' = FALSE
    PROVE  Kept'
  <1>1. /\ pc = "comp" /\ pc \in CompPlaces /\ mode = "write" /\ ended' = FALSE
        /\ UNCHANGED <<mode, direct, pos, skip, rest, outp>>
        /\ UNCHANGED <<op, flush, zclear, zn, zeros>>
    BY DEF Comp, Writes, CompPlaces
  <1>2. Accounted /\ Seeking /\ Calls /\ (direct # 1 => Framing)
    BY DEF Writes, Kept
  <1>3. size \in Nat
    BY WritesNow
  <1>4. pc' = pc => pc' \notin {"write", "deflate"}
    BY <1>1
  <1>5. CompReturn => pc' \notin {"write", "deflate"}
    BY WritesNow DEF CompReturn
  <1> DEFINE Small == size = 0
             Plainly == size > 0 /\ direct = 1
             Nothing == size > 0 /\ direct = 0 /\ reset /\ inp = <<>> /\ CompFlush = "none"
  <1>6. CASE Small
    <2>1. WriteAlloc /\ UNCHANGED <<inp, reset, member, hold, file>>
      BY <1>6 DEF Comp
    <2>2. UNCHANGED <<pc, after>>
      BY <2>1 DEF WriteAlloc, Fail
    <2>3. ~Zeroing
      BY <1>2, <1>6 DEF Seeking
    <2>4. Seeking'
      <3>1. pc \in WritePlaces \ {"begin"} /\ pos' = pos + 0
        BY <1>1, WritesNow DEF WritePlaces
      <3>2. pc' \notin {"zero", "zeroed"} /\ (pc' \in CompPlaces => after' \notin {"zero", "zeroed"})
        BY <1>1, <2>2, <2>3 DEF Zeroing
      <3>3. QED
        BY <1>1, <2>3, <3>1, <3>2, SeekOn
    <2>5. Stream' = Stream
      BY <1>1, <2>1 DEF Stream
    <2>6. direct' # 1 => Framing'
      BY <1>1, <1>2, <2>1, <2>2, FramingSame
    <2>7. Content(Stream) \o inp' \o rest = Written /\ Unframed(inp')
          /\ (direct = 1 => outp' = <<>> /\ hold' = <<>> /\ pc' \notin {"write", "deflate"})
      BY <1>1, <1>2, <2>1, <2>2 DEF Accounted
    <2>8. QED
      BY <1>1, <2>2, <2>4, <2>5, <2>6, <2>7, CompKept
  <1>7. CASE Plainly
    <2>1. UNCHANGED <<size, reset, member, hold>> /\ \E got1 \in 0..Len(inp) : Direct(got1)
      BY <1>3, <1>7 DEF Comp
    <2>2. PICK n \in 0..Len(inp) : Direct(n)
      BY <2>1
    <2>3. n = Len(inp)
      <3>1. ~(n < Len(inp))
        BY <2>2 DEF Direct, Fail
      <3>2. inp \in Seq(Int)
        BY WritesNow
      <3>3. Len(inp) \in Nat
        BY <3>2
      <3>4. QED
        BY <3>1, <3>3
    <2>4. file' = file \o inp /\ inp' = <<>> /\ CompReturn
      <3>1. inp \in Seq(Int)
        BY WritesNow
      <3>2. ~(n < Len(inp)) /\ SubSeq(inp, 1, Len(inp)) = inp
        BY <2>3, <3>1, SubSeqFull
      <3>3. QED
        BY <2>2, <2>3, <3>2 DEF Direct
    <2>5. Seeking'
      BY <1>1, <2>1, <2>4, SeekComp
    <2>6. outp = <<>> /\ hold = <<>> /\ Content(Stream) \o inp \o rest = Written /\ Unframed(inp)
      BY <1>2, <1>7 DEF Accounted
    <2> DEFINE f == file \o inp
    <2>7. file \in Seq(Int) /\ inp \in Seq(Int) /\ rest \in Seq(Int) /\ f \in Seq(Int)
      BY WritesNow, JoinIs
    <2>8. Stream = file /\ Stream' = f
      <3>1. Stream = file \o <<>> \o <<>>
        BY <2>6 DEF Stream
      <3>2. Stream' = f \o <<>> \o <<>>
        BY <1>1, <2>1, <2>4, <2>6 DEF Stream
      <3> HIDE DEF f
      <3>3. file \o <<>> = file /\ f \o <<>> = f
        BY <2>7, ConcatEmptySeq
      <3>4. QED
        BY <3>1, <3>2, <3>3
    <2>9. Content(f) = Content(file) \o inp
      <3>1. Content(f) = Content(file) \o Content(inp)
        BY <2>7, ContentJoin
      <3>2. Content(inp) = inp
        BY <2>6, <2>7, ContentUnframed
      <3>3. QED
        BY <3>1, <3>2
    <2> HIDE DEF f
    <2>10. Content(f) \o inp' \o rest = Written
      <3>1. Content(f) \o <<>> = Content(f)
        BY <2>7, ContentType, ConcatEmptySeq
      <3>2. QED
        BY <2>4, <2>6, <2>8, <2>9, <3>1
    <2>11. Unframed(inp')
      BY <2>4 DEF Unframed
    <2>12. QED
      BY <1>1, <1>5, <1>7, <2>1, <2>4, <2>5, <2>6, <2>8, <2>10, <2>11, CompKept
  <1>8. CASE Nothing
    <2>1. CompReturn /\ UNCHANGED <<size, err, told, inp, reset, member, hold, file>>
      BY <1>3, <1>8 DEF Comp
    <2>2. Seeking'
      BY <1>1, <2>1, SeekComp
    <2>3. Stream' = Stream
      BY <1>1, <2>1 DEF Stream
    <2>4. direct' # 1 => Framing'
      BY <1>1, <1>2, <1>5, <2>1, FramingSame
    <2>5. Content(Stream) \o inp' \o rest = Written /\ Unframed(inp')
      BY <1>2, <2>1 DEF Accounted
    <2>6. QED
      BY <1>1, <1>8, <2>1, <2>2, <2>3, <2>4, <2>5, CompKept
  <1>9. CASE ~Small /\ ~Plainly /\ ~Nothing
    <2>1. /\ reset' = FALSE /\ member' = (IF reset THEN "new" ELSE member)
          /\ hold' = (IF reset THEN <<>> ELSE hold)
          /\ pc' = "write" /\ UNCHANGED <<size, err, told, inp, file, after>>
      BY <1>9 DEF Comp
    <2>2. direct # 1
      BY <1>3, <1>9
    <2>3. Framing /\ ~Finishing
      BY <1>1, <1>2, <2>2 DEF Finishing
    <2>4. /\ WellFramed(Stream) /\ ~HasTrailer(hold) /\ OnlyLast(hold)
          /\ member = "new" => hold = <<>> /\ Ends(Stream)
          /\ member = "busy" => Stream # <<>> /\ ~Ends(Stream)
          /\ member = "done" => hold = <<>> /\ Stream # <<>> /\ Ends(Stream) /\ reset
          /\ reset => member = "done"
      BY <2>3 DEF Framing
    <2>5. hold' = hold
      BY <2>1, <2>4
    <2>6. Stream' = Stream
      BY <1>1, <2>1, <2>5 DEF Stream
    <2>7. member' # "done" /\ (member' = "new" => hold = <<>> /\ Ends(Stream)) /\ (member' = "busy" => Stream # <<>> /\ ~Ends(Stream))
      BY <2>1, <2>4
    <2>8. Framing'
      <3>1. WellFramed(Stream)' /\ (Ends(Stream)' <=> Ends(Stream)) /\ ~HasTrailer(hold)' /\ OnlyLast(hold)'
        BY <2>4, <2>5, <2>6 DEF WellFramed, Ends, HasTrailer, OnlyLast
      <3>2. QED
        BY <2>1, <2>5, <2>6, <2>7, <3>1 DEF Framing
    <2>9. Seeking'
      BY <1>1, <2>1, SeekComp DEF CompPlaces
    <2>10. Content(Stream) \o inp' \o rest = Written /\ Unframed(inp')
      BY <1>2, <2>1 DEF Accounted
    <2>11. QED
      BY <1>1, <2>1, <2>2, <2>6, <2>8, <2>9, <2>10, CompKept DEF CompPlaces
  <1>10. QED
    BY <1>6, <1>7, <1>8, <1>9

\* The output buffer is written whole, or an error is reported.
LEMMA CompWriteKept ==
    ASSUME Writes, CompWrite, told' = FALSE
    PROVE  Kept'
  <1>1. /\ pc = "write" /\ pc \in CompPlaces /\ mode = "write"
        /\ UNCHANGED <<mode, size, direct, pos, skip, inp, rest, reset, member, hold>>
        /\ UNCHANGED <<op, flush, ended, zclear, zn, zeros>>
    BY DEF CompWrite, Writes, CompPlaces, defVars
  <1>2. Accounted /\ Seeking /\ Calls /\ direct # 1 /\ Framing
    BY <1>1 DEF Writes, Kept, Accounted
  <1>3. /\ outp \in Seq(Int) /\ file \in Seq(Int) /\ hold \in Seq(Int) /\ Len(outp) \in Nat
    BY WritesNow
  <1>4. \/ ~WriteOut /\ pc' = "deflate" /\ UNCHANGED <<outp, file, after>>
        \/ WriteOut /\ pc' = "deflate" /\ after' = after /\ outp' = <<>> /\ file' = file \o outp
    <2>1. CASE ~WriteOut
      BY <2>1 DEF CompWrite
    <2>2. CASE WriteOut
      <3>1. PICK n \in 0..Len(outp) :
              /\ file' = file \o SubSeq(outp, 1, n)
              /\ IF Incomplete(n, Len(outp))
                 THEN Fail /\ UNCHANGED <<outp, nout>>
                 ELSE /\ outp' = <<>> /\ nout' = (IF nout = size THEN 0 ELSE nout)
                      /\ pc' = "deflate" /\ UNCHANGED <<err, told, after>>
        BY <2>2 DEF CompWrite
      <3>2. ~Incomplete(n, Len(outp))
        BY <3>1 DEF Fail
      <3>3. n = Len(outp)
        BY <1>3, <3>2 DEF Incomplete
      <3>4. SubSeq(outp, 1, Len(outp)) = outp
        BY <1>3, SubSeqFull
      <3>5. QED
        BY <2>2, <3>1, <3>2, <3>3, <3>4
    <2>3. QED
      BY <2>1, <2>2
  <1>5. pc' = "deflate" /\ pc' \in CompPlaces /\ after' = after
    BY <1>4 DEF CompPlaces
  <1>6. Stream' = Stream
    <2>1. CASE UNCHANGED <<outp, file>>
      BY <1>1, <2>1 DEF Stream
    <2>2. CASE outp' = <<>> /\ file' = file \o outp
      <3> DEFINE f == file \o outp
      <3>1. f \in Seq(Int)
        BY <1>3, JoinIs
      <3>2. Stream' = f \o <<>> \o hold /\ Stream = f \o hold
        BY <1>1, <2>2 DEF Stream
      <3> HIDE DEF f
      <3>3. f \o <<>> = f
        BY <3>1, ConcatEmptySeq
      <3>4. QED
        BY <3>2, <3>3
    <2>3. QED
      BY <1>4, <2>1, <2>2
  <1>7. CompFlush' = CompFlush
    BY <1>1, <1>5 DEF CompFlush
  <1>8. Framing'
    <2>1. WriteOut => outp' = <<>>
      BY <1>4
    <2>2. ~reset /\ (member = "done" => ended /\ Finishing)
      BY <1>1, <1>2 DEF Framing
    <2>3. CompFlush \in {"sync", "block"} => outp' = <<>>
      BY <2>1 DEF WriteOut
    <2>4. member = "done" => outp' = <<>>
      BY <2>1, <2>2 DEF WriteOut, Finishing
    <2>5. Finishing => Finishing'
      BY <1>1, <1>5, <1>6, <1>7 DEF Finishing, Ends
    <2>6. /\ WellFramed(Stream)' /\ (Ends(Stream)' <=> Ends(Stream)) /\ (HasTrailer(hold)' <=> HasTrailer(hold))
          /\ OnlyLast(hold)'
      BY <1>1, <1>2, <1>6 DEF WellFramed, Ends, HasTrailer, OnlyLast, Framing
    <2>7. /\ member = "new" => hold = <<>> /\ Ends(Stream)
          /\ member = "busy" => Stream # <<>> /\ (HasTrailer(hold) \/ ~Ends(Stream))
          /\ (HasTrailer(hold) => member = "busy" /\ Finishing)
          /\ member = "done" => hold = <<>> /\ Stream # <<>> /\ Ends(Stream)
      BY <1>2 DEF Framing
    <2>8. QED
      BY <1>1, <1>5, <1>6, <1>7, <2>2, <2>3, <2>4, <2>5, <2>6, <2>7 DEF Framing
  <1>9. Seeking'
    BY <1>1, <1>5, SeekComp
  <1>10. Content(Stream) \o inp' \o rest = Written /\ Unframed(inp')
    BY <1>1, <1>2 DEF Accounted
  <1>11. QED
    BY <1>1, <1>2, <1>5, <1>6, <1>8, <1>9, <1>10, CompKept

-----------------------------------------------------------------------------
(* deflate.                                                                *)

LEMMA NoTrailerJoin ==
    ASSUME NEW a \in Seq(Int), NEW b \in Seq(Int), ~HasTrailer(a), ~HasTrailer(b)
    PROVE  ~HasTrailer(a \o b)
  <1> DEFINE j == a \o b
  <1>1. Len(j) = Len(a) + Len(b)
        /\ \A i \in 1..(Len(a) + Len(b)) : j[i] = IF i <= Len(a) THEN a[i] ELSE b[i - Len(a)]
    BY ConcatProperties
  <1>2. Len(a) \in Nat /\ Len(b) \in Nat
    OBVIOUS
  <1> HIDE DEF j
  <1>3. ASSUME NEW i \in 1..Len(j) PROVE j[i] # Trailer
    <2>1. i \in 1..(Len(a) + Len(b))
      BY <1>1
    <2>2. CASE i <= Len(a)
      BY <1>1, <1>2, <2>1, <2>2 DEF HasTrailer
    <2>3. CASE ~(i <= Len(a))
      <3>1. i - Len(a) \in 1..Len(b)
        BY <1>2, <2>1, <2>3
      <3>2. QED
        BY <1>1, <2>1, <2>3, <3>1 DEF HasTrailer
    <2>4. QED
      BY <2>2, <2>3
  <1>4. ~HasTrailer(j)
    BY <1>3 DEF HasTrailer
  <1>5. QED
    BY <1>4 DEF j

LEMMA NoTrailer ==
    ASSUME NEW q \in Seq(Int), ~HasTrailer(q)
    PROVE  OnlyLast(q)
  <1>1. \A i \in 1..(Len(q) - 1) : i \in 1..Len(q)
    OBVIOUS
  <1>2. QED
    BY <1>1 DEF HasTrailer, OnlyLast

LEMMA TrailerBehind ==
    ASSUME NEW q \in Seq(Int), ~HasTrailer(q)
    PROVE  OnlyLast(q \o <<Trailer>>) /\ HasTrailer(q \o <<Trailer>>) /\ q \o <<Trailer>> \in Seq(Int)
  <1> DEFINE t == Append(q, Trailer)
  <1>1. Trailer \in Int
    BY DEF Trailer
  <1>2. q \o <<Trailer>> = t
    BY <1>1, AppendIsConcat
  <1>3. t \in Seq(Int) /\ Len(t) = Len(q) + 1 /\ t[Len(q) + 1] = Trailer /\ \A i \in 1..Len(q) : t[i] = q[i]
    BY <1>1, AppendProperties
  <1>4. Len(q) \in Nat
    OBVIOUS
  <1> HIDE DEF t
  <1>5. OnlyLast(t) /\ HasTrailer(t)
    <2>1. \A i \in 1..(Len(t) - 1) : i \in 1..Len(q)
      BY <1>3, <1>4
    <2>2. Len(q) + 1 \in 1..Len(t)
      BY <1>3, <1>4
    <2>3. OnlyLast(t)
      BY <1>3, <2>1 DEF OnlyLast, HasTrailer
    <2>4. HasTrailer(t)
      BY <1>3, <2>2 DEF HasTrailer
    <2>5. QED
      BY <2>3, <2>4
  <1>6. QED
    BY <1>2, <1>3, <1>5

\* What is left of the pool when e bytes of it went out
LEMMA TakenOut ==
    ASSUME NEW p \in Seq(Int), OnlyLast(p), NEW e \in 0..Len(p)
    PROVE  LET h == SubSeq(p, e + 1, Len(p))
               out == \E i \in 1..e : p[i] = Trailer IN
           /\ OnlyLast(h) /\ (HasTrailer(h) => HasTrailer(p))
           /\ out => h = <<>> /\ HasTrailer(p) /\ e > 0
           /\ HasTrailer(p) => out \/ HasTrailer(h)
  <1> DEFINE h == SubSeq(p, e + 1, Len(p))
             out == \E i \in 1..e : p[i] = Trailer
  <1>1. Len(h) = Len(p) - e /\ \A i \in 1..(Len(p) - e) : h[i] = p[e + i]
    BY SplitIs
  <1>2. Len(p) \in Nat /\ e \in Nat /\ e <= Len(p)
    OBVIOUS
  <1>3. e = Len(p) => h = <<>>
    BY <1>2, SubSeqEmpty
  <1> HIDE DEF h
  <1>4. ASSUME NEW i \in 1..Len(h) PROVE e + i \in 1..Len(p) /\ h[i] = p[e + i]
    BY <1>1, <1>2
  <1>5. OnlyLast(h)
    <2>1. ASSUME NEW i \in 1..(Len(h) - 1) PROVE h[i] # Trailer
      <3>1. i \in 1..Len(h) /\ e + i \in 1..(Len(p) - 1)
        BY <1>1, <1>2
      <3>2. QED
        BY <1>4, <3>1 DEF OnlyLast
    <2>2. QED
      BY <2>1 DEF OnlyLast
  <1>6. HasTrailer(h) => HasTrailer(p)
    BY <1>4 DEF HasTrailer
  <1>7. ASSUME NEW i \in 1..e, p[i] = Trailer PROVE h = <<>> /\ HasTrailer(p) /\ e > 0
    <2>1. i \in 1..Len(p) /\ e > 0
      BY <1>2
    <2>2. i \notin 1..(Len(p) - 1)
      BY <1>7 DEF OnlyLast
    <2>3. e = Len(p)
      BY <1>2, <2>1, <2>2
    <2>4. QED
      BY <1>3, <1>7, <2>1, <2>3 DEF HasTrailer
  <1>8. ASSUME NEW i \in 1..Len(p), p[i] = Trailer PROVE out \/ HasTrailer(h)
    <2>1. CASE i <= e
      <3>1. i \in 1..e
        BY <1>2, <2>1
      <3>2. QED
        BY <1>8, <3>1
    <2>2. CASE ~(i <= e)
      <3>1. i - e \in 1..(Len(p) - e) /\ e + (i - e) = i
        BY <1>2, <2>2
      <3>2. h[i - e] = Trailer /\ i - e \in 1..Len(h)
        BY <1>1, <1>8, <3>1
      <3>3. QED
        BY <3>2 DEF HasTrailer
    <2>3. QED
      BY <2>1, <2>2
  <1>9. HasTrailer(p) => out \/ HasTrailer(h)
    BY <1>8 DEF HasTrailer
  <1>10. QED
    BY <1>5, <1>6, <1>7, <1>9 DEF h

\* The member goes on behind what is there, with the input that was consumed.
LEMMA PoolGoesOn ==
    ASSUME Writes, pc = "deflate", member # "done", NEW c \in 0..Len(inp)
    PROVE  LET s == (file \o outp) \o Pool(c) IN
           /\ Pool(c) \in Seq(Int) /\ OnlyLast(Pool(c))
           /\ s # <<>> /\ WellFramed(s)
           /\ Content(s) \o SubSeq(inp, c + 1, Len(inp)) \o rest = Written
           /\ HasTrailer(Pool(c)) <=> Ends(s)
           /\ HasTrailer(Pool(c)) <=> CompFlush = "finish" /\ c = Len(inp)
  <1> DEFINE p == Pool(c)
             f == file \o outp
             s == f \o p
             head == IF member = "new" THEN <<Header>> ELSE <<>>
             part == SubSeq(inp, 1, c)
             more == SubSeq(inp, c + 1, Len(inp))
             last == CompFlush = "finish" /\ c = Len(inp)
             tail == IF CompFlush = "finish" /\ c = Len(inp) /\ \A i \in 1..Len(hold) : hold[i] # Trailer
                     THEN <<Trailer>> ELSE <<>>
             Data0 == Content(Stream)
  <1>1. Accounted /\ direct # 1 /\ Framing
    BY DEF Writes, Kept, Accounted
  <1>2. /\ file \in Seq(Int) /\ outp \in Seq(Int) /\ hold \in Seq(Int) /\ inp \in Seq(Int) /\ rest \in Seq(Int)
        /\ Stream \in Seq(Int) /\ Data0 \in Seq(Int)
    BY WritesNow
  <1>3. f \in Seq(Int) /\ Stream = f \o hold
    BY <1>2, JoinIs DEF Stream
  <1>4. p = head \o hold \o part \o tail
    BY DEF Pool
  <1>5. part \o more = inp /\ part \in Seq(Int) /\ more \in Seq(Int) /\ Unframed(part)
    BY <1>1, <1>2, SplitIs, UnframedParts DEF Accounted
  <1>6. Data0 \o inp \o rest = Written
    BY <1>1 DEF Accounted
  <1>7. member \in {"new", "busy"}
    BY WritesNow
  <1> HIDE DEF f
  <1>8. CASE HasTrailer(hold)
    <2>1. member = "busy" /\ Finishing
      BY <1>1, <1>8 DEF Framing
    <2>2. inp = <<>> /\ CompFlush = "finish" /\ Ends(Stream)
      BY <2>1 DEF Finishing
    <2>3. c = 0 /\ Len(inp) = 0
      BY <2>2
    <2>4. head = <<>> /\ part = <<>> /\ more = <<>>
      BY <1>2, <2>1, <2>3, SubSeqEmpty
    <2>5. tail = <<>>
      BY <1>8 DEF HasTrailer
    <2> HIDE DEF head, part, tail
    <2>6. p = hold
      <3>1. <<>> \o hold = hold /\ hold \o <<>> = hold
        BY <1>2, ConcatEmptySeq
      <3>2. QED
        BY <1>4, <2>4, <2>5, <3>1
    <2> HIDE DEF p, more
    <2>7. s = Stream
      BY <1>3, <2>6
    <2>8. p \in Seq(Int) /\ OnlyLast(p)
      BY <1>1, <1>2, <2>6 DEF Framing
    <2>9. s # <<>> /\ WellFramed(s)
      BY <1>1, <2>1, <2>7 DEF Framing
    <2>10. Content(s) \o more \o rest = Written
      BY <1>6, <2>2, <2>4, <2>7
    <2>11. HasTrailer(p) /\ Ends(s) /\ last
      BY <1>8, <2>2, <2>3, <2>6, <2>7
    <2> HIDE DEF last
    <2>12. QED
      BY <2>8, <2>9, <2>10, <2>11 DEF f, p, more, last
  <1>9. CASE ~HasTrailer(hold)
    <2> DEFINE t1 == f \o (head \o hold)
               q == head \o hold \o part
               t2 == t1 \o part
    <2>1. <<Header>> \in Seq(Int) /\ <<Trailer>> \in Seq(Int) /\ <<>> \in Seq(Int)
      BY DEF Header, Trailer
    <2>2. head \in Seq(Int) /\ ~HasTrailer(head)
      <3>1. ~HasTrailer(<<Header>>)
        BY DEF HasTrailer, Header, Trailer
      <3>2. ~HasTrailer(<<>>)
        BY DEF HasTrailer
      <3>3. QED
        BY <2>1, <3>1, <3>2
    <2>3. head \o hold \in Seq(Int) /\ ~HasTrailer(head \o hold)
      <3> HIDE DEF head
      <3>1. QED
        BY <1>2, <1>9, <2>2, JoinIs, NoTrailerJoin
    <2>4. t1 \in Seq(Int) /\ t1 # <<>> /\ WellFramed(t1) /\ ~Ends(t1) /\ Content(t1) = Data0
      <3>1. CASE member = "new"
        <4>1. hold = <<>> /\ Ends(Stream) /\ WellFramed(Stream)
          BY <1>1, <3>1 DEF Framing
        <4>2. <<Header>> \o <<>> = <<Header>> /\ f \o <<>> = f
          BY <1>3, <2>1, ConcatEmptySeq
        <4>3. Stream = f /\ t1 = Stream \o <<Header>>
          BY <1>3, <3>1, <4>1, <4>2
        <4>4. Content(Stream \o <<Header>>) = Data0 \o Content(<<Header>>)
          BY <1>2, <2>1, ContentJoin
        <4>5. Content(<<Header>>) = <<>>
          BY ContentFrame DEF Frames
        <4>6. Data0 \o <<>> = Data0
          BY <1>2, ConcatEmptySeq
        <4>7. LET t == Stream \o <<Header>> IN t \in Seq(Int) /\ t # <<>> /\ WellFramed(t) /\ ~Ends(t)
          BY <1>2, <4>1, FrameHeader
        <4> HIDE DEF t1, Data0
        <4>8. QED
          BY <4>3, <4>4, <4>5, <4>6, <4>7
      <3>2. CASE member = "busy"
        <4>1. Stream # <<>> /\ ~Ends(Stream) /\ WellFramed(Stream)
          BY <1>1, <1>9, <3>2 DEF Framing
        <4>2. <<>> \o hold = hold
          BY <1>2, ConcatEmptySeq
        <4>3. t1 = Stream
          BY <1>3, <3>2, <4>2
        <4> HIDE DEF t1
        <4>4. QED
          BY <1>2, <4>1, <4>3
      <3>3. QED
        BY <1>7, <3>1, <3>2
    <2> HIDE DEF head
    <2>5. q \in Seq(Int) /\ ~HasTrailer(q)
      <3>1. ~HasTrailer(part)
        BY <1>5 DEF Unframed, HasTrailer, Frames
      <3> HIDE DEF part
      <3>2. QED
        BY <1>5, <2>3, <3>1, JoinIs, NoTrailerJoin
    <2>6. f \o q = t2
      <3> DEFINE g == head \o hold
      <3> HIDE DEF part
      <3>1. g \in Seq(Int)
        BY <2>3
      <3> HIDE DEF g
      <3>2. (f \o g) \o part = f \o (g \o part)
        BY <1>3, <1>5, <3>1, Regroup, Zenon
      <3>3. QED
        BY <3>2 DEF g
    <2> HIDE DEF t1
    <2>7. t2 \in Seq(Int) /\ t2 # <<>> /\ WellFramed(t2) /\ ~Ends(t2)
      BY <1>5, <2>4, FrameData
    <2>8. Content(t2) = Data0 \o part
      <3>1. Content(t2) = Content(t1) \o Content(part)
        BY <1>5, <2>4, ContentJoin
      <3>2. Content(part) = part
        BY <1>5, ContentUnframed
      <3>3. QED
        BY <2>4, <3>1, <3>2
    <2>9. Content(t2) \o more \o rest = Written
      <3> HIDE DEF part, more, Data0, t2
      <3>1. (Data0 \o part) \o more = Data0 \o (part \o more)
        <4>1. Data0 \in Seq(Int) /\ part \in Seq(Int) /\ more \in Seq(Int)
          BY <1>2, <1>5
        <4>2. QED
          BY <4>1, Regroup, Zenon
      <3>2. QED
        BY <1>5, <1>6, <2>8, <3>1
    <2>10. tail = (IF last THEN <<Trailer>> ELSE <<>>)
      BY <1>9 DEF HasTrailer
    <2>11. p = q \o tail
      BY <1>4
    <2> HIDE DEF tail, q, t2, p, more
    <2>12. CASE last
      <3>1. p = q \o <<Trailer>>
        BY <2>10, <2>11, <2>12
      <3>2. p \in Seq(Int) /\ OnlyLast(p) /\ HasTrailer(p)
        BY <2>5, <3>1, TrailerBehind
      <3>3. s = t2 \o <<Trailer>>
        <4>1. (f \o q) \o <<Trailer>> = f \o (q \o <<Trailer>>)
          BY <1>3, <2>1, <2>5, Regroup, Zenon
        <4>2. QED
          BY <2>6, <3>1, <4>1
      <3>4. LET t == t2 \o <<Trailer>> IN t \in Seq(Int) /\ t # <<>> /\ WellFramed(t) /\ Ends(t)
        BY <2>7, FrameTrailer
      <3>5. Content(s) = Content(t2)
        <4>1. Content(t2 \o <<Trailer>>) = Content(t2) \o Content(<<Trailer>>)
          BY <2>1, <2>7, ContentJoin
        <4>2. Content(<<Trailer>>) = <<>>
          BY ContentFrame DEF Frames
        <4>3. Content(t2) \o <<>> = Content(t2)
          BY <2>7, ContentType, ConcatEmptySeq
        <4>4. QED
          BY <3>3, <4>1, <4>2, <4>3
      <3>6. Content(s) \o more \o rest = Written
        BY <2>9, <3>5
      <3> HIDE DEF last
      <3>7. s # <<>> /\ WellFramed(s) /\ Ends(s)
        BY <3>3, <3>4
      <3> HIDE DEF s
      <3>8. QED
        BY <2>12, <3>2, <3>6, <3>7 DEF f, p, more, last, s
    <2>13. CASE ~last
      <3>1. p = q
        <4>1. q \o <<>> = q
          BY <2>5, ConcatEmptySeq
        <4>2. QED
          BY <2>10, <2>11, <2>13, <4>1
      <3>2. p \in Seq(Int) /\ OnlyLast(p) /\ ~HasTrailer(p)
        BY <2>5, <3>1, NoTrailer
      <3>3. s = t2
        BY <2>6, <3>1
      <3>4. Content(s) \o more \o rest = Written /\ s # <<>> /\ WellFramed(s) /\ ~Ends(s)
        BY <2>7, <2>9, <3>3
      <3> HIDE DEF last, s
      <3>5. QED
        BY <2>13, <3>2, <3>4 DEF f, p, more, last, s
    <2>14. QED
      BY <2>12, <2>13
  <1>10. QED
    BY <1>8, <1>9

LEMMA CompDeflateKept ==
    ASSUME Writes, CompDeflate
    PROVE  Kept'
  <1>1. /\ pc = "deflate" /\ pc \in CompPlaces /\ mode = "write" /\ size \in Nat
        /\ UNCHANGED <<mode, size, direct, pos, skip, rest>>
        /\ UNCHANGED <<op, flush, zclear, zn, file, zeros, told>>
    BY WritesNow DEF CompDeflate, Writes, CompPlaces, seenVars
  <1>2. PICK c \in 0..Len(inp), e \in 0..size :
          /\ Deflate(c, e)
          /\ IF e > 0 THEN pc' = "write" /\ UNCHANGED <<reset, after>>
             ELSE CompReturn /\ reset' = (CompFlush = "finish")
          /\ ended' = (e > 0 /\ member' = "done")
    BY DEF CompDeflate
  <1> DEFINE room == size - nout
             pool == IF member = "done" THEN <<>> ELSE Pool(c)
             most == Lesser(room, Len(pool))
             more == SubSeq(inp, c + 1, Len(inp))
             out  == SubSeq(pool, 1, e)
             left0 == SubSeq(pool, e + 1, Len(pool))
             f == file \o outp
             s == f \o pool
             gone == \E i \in 1..e : pool[i] = Trailer
  <1>3. /\ e <= most /\ (c = Len(inp) \/ e = room)
        /\ CASE CompFlush = "none" -> e \in {0, most}
             [] CompFlush = "block" -> e >= Lesser(room, Len(pool) - 1)
             [] OTHER -> e = most
        /\ inp' = more /\ outp' = outp \o out /\ hold' = left0
        /\ member' = (IF member = "done" \/ gone THEN "done" ELSE "busy")
    BY <1>2 DEF Deflate
  <1>4. Accounted /\ Framing /\ direct # 1
    BY <1>1 DEF Writes, Kept, Accounted
  <1>5. /\ ~reset /\ (member = "done" => hold = <<>> /\ Stream # <<>> /\ Ends(Stream) /\ Finishing /\ outp = <<>>)
        /\ (CompFlush \in {"sync", "block"} => outp = <<>>)
    BY <1>1, <1>4 DEF Framing
  <1>6. /\ file \in Seq(Int) /\ outp \in Seq(Int) /\ hold \in Seq(Int) /\ inp \in Seq(Int) /\ rest \in Seq(Int)
    BY WritesNow
  <1>7. room \in Nat /\ room > 0
    <2>1. nout \in Nat /\ nout < size
      BY <1>1, WriteNumbers, WriteNow DEF Writes, BufferedIs
    <2>2. QED
      BY <1>1, <2>1
  <1>8. f \in Seq(Int) /\ Stream = f \o hold
    BY <1>6, JoinIs DEF Stream
  \* The pool, whether the member goes on or is ended
  <1>9. /\ pool \in Seq(Int) /\ OnlyLast(pool) /\ s # <<>> /\ WellFramed(s)
        /\ Content(s) \o more \o rest = Written
        /\ member # "done" => (HasTrailer(pool) <=> Ends(s))
        /\ member # "done" => (HasTrailer(pool) <=> CompFlush = "finish" /\ c = Len(inp))
        /\ member = "done" => pool = <<>> /\ Ends(s) /\ CompFlush = "finish" /\ ~HasTrailer(pool)
    <2>1. CASE member = "done"
      <3>1. pool = <<>>
        BY <2>1
      <3>2. s = Stream
        BY <1>5, <1>8, <2>1, <3>1
      <3>3. inp = <<>> /\ CompFlush = "finish"
        BY <1>5, <2>1 DEF Finishing
      <3>4. more = <<>>
        <4>1. c = 0 /\ Len(inp) = 0
          BY <3>3
        <4>2. QED
          BY <1>6, <4>1, SubSeqEmpty
      <3>5. <<>> \in Seq(Int) /\ OnlyLast(<<>>) /\ ~HasTrailer(<<>>)
        BY DEF OnlyLast, HasTrailer
      <3>6. Content(Stream) \o <<>> \o rest = Written
        BY <1>4, <3>3 DEF Accounted
      <3>7. WellFramed(Stream) /\ Stream # <<>> /\ Ends(Stream)
        BY <1>4, <1>5, <2>1 DEF Framing
      <3> HIDE DEF pool, s, more
      <3>8. QED
        BY <2>1, <3>1, <3>2, <3>3, <3>4, <3>5, <3>6, <3>7
    <2>2. CASE member # "done"
      <3>1. pool = Pool(c)
        BY <2>2
      <3> HIDE DEF pool
      <3>2. QED
        BY <1>1, <2>2, <3>1, PoolGoesOn
    <2>3. QED
      BY <2>1, <2>2
  <1> HIDE DEF pool
  <1>10. e \in 0..Len(pool) /\ most \in {room, Len(pool)} /\ Len(pool) \in Nat
    <2>1. Len(pool) \in Nat
      BY <1>9
    <2>2. most <= room /\ most <= Len(pool) /\ most \in {room, Len(pool)}
      BY <1>7, <2>1, LesserIs
    <2> HIDE DEF most, room
    <2>3. e <= Len(pool)
      BY <1>3, <1>7, <2>1, <2>2, SMTT(30)
    <2>4. QED
      BY <2>1, <2>2, <2>3
  <1>11. out \o left0 = pool /\ out \in Seq(Int) /\ left0 \in Seq(Int)
    BY <1>9, <1>10, SplitIs
  <1>12. /\ OnlyLast(left0) /\ (HasTrailer(left0) => HasTrailer(pool))
         /\ gone => left0 = <<>> /\ HasTrailer(pool) /\ e > 0
         /\ HasTrailer(pool) => gone \/ HasTrailer(left0)
    BY <1>9, <1>10, TakenOut
  <1> HIDE DEF out, left0, gone, f, more
  <1>13. Stream' = s
    <2>1. Stream' = file \o (outp \o out) \o left0
      BY <1>1, <1>3 DEF Stream
    <2>2. file \o (outp \o out) = f \o out
      <3>1. file \in Seq(Int) /\ outp \in Seq(Int) /\ out \in Seq(Int)
        BY <1>6, <1>11
      <3>2. QED
        BY <3>1, Regroup, Zenon DEF f
    <2>3. (f \o out) \o left0 = f \o (out \o left0)
      BY <1>8, <1>11, Regroup, Zenon
    <2>4. QED
      BY <1>11, <2>1, <2>2, <2>3
  \* A flush that outputs nothing has nothing left.
  <1>14. e = 0 => /\ c = Len(inp) /\ inp' = <<>>
                  /\ CompFlush \in {"sync", "finish"} => pool = <<>> /\ left0 = <<>>
    <2>1. SUFFICES ASSUME e = 0
                   PROVE  /\ c = Len(inp) /\ inp' = <<>>
                          /\ CompFlush \in {"sync", "finish"} => pool = <<>> /\ left0 = <<>>
      OBVIOUS
    <2>2. c = Len(inp)
      BY <1>3, <1>7, <2>1
    <2>3. inp' = <<>>
      BY <1>3, <1>6, <2>2, SubSeqEmpty DEF more
    <2>4. ASSUME CompFlush \in {"sync", "finish"} PROVE pool = <<>> /\ left0 = <<>>
      <3>1. e = most
        BY <1>3, <2>4
      <3>2. most # room
        BY <1>7, <2>1, <3>1
      <3>3. Len(pool) = 0
        BY <1>10, <2>1, <3>1, <3>2
      <3>4. pool = <<>>
        BY <1>9, <3>3, EmptySeq
      <3>5. left0 = <<>>
        BY <1>9, <2>1, <3>3, SubSeqEmpty DEF left0
      <3>6. QED
        BY <3>4, <3>5
    <2>5. QED
      BY <2>2, <2>3, <2>4
  \* The last round of a finish is the one that finds the member ended.
  <1>15. e = 0 /\ CompFlush = "finish" => member = "done"
    <2>1. SUFFICES ASSUME e = 0, CompFlush = "finish", member # "done" PROVE FALSE
      OBVIOUS
    <2>2. HasTrailer(pool) /\ pool = <<>>
      BY <1>9, <1>14, <2>1
    <2>3. QED
      BY <2>2 DEF HasTrailer
  <1>16. e > 0 => member # "done"
    <2>1. SUFFICES ASSUME e > 0, member = "done" PROVE FALSE
      OBVIOUS
    <2>2. Len(pool) = 0
      BY <1>9, <2>1
    <2>3. QED
      BY <1>10, <2>1, <2>2
  <1>17. e = 0 \/ e > 0
    OBVIOUS
  <1> HIDE DEF s, most, room
  <1>18. Ends(s) /\ member # "done" => CompFlush = "finish" /\ inp' = <<>> /\ e > 0
    <2>1. SUFFICES ASSUME Ends(s), member # "done" PROVE CompFlush = "finish" /\ inp' = <<>> /\ e > 0
      OBVIOUS
    <2>2. CompFlush = "finish" /\ c = Len(inp)
      BY <1>9, <2>1
    <2>3. inp' = <<>>
      BY <1>3, <1>6, <2>2, SubSeqEmpty DEF more
    <2>4. QED
      BY <1>15, <1>17, <2>1, <2>2, <2>3
  <1>19. e > 0 => pc' = "write" /\ after' = after /\ CompFlush' = CompFlush /\ reset' = FALSE
    BY <1>1, <1>2, <1>5 DEF CompFlush
  <1>20. e = 0 => CompReturn /\ reset' = (CompFlush = "finish") /\ pc' \notin {"write", "deflate"}
    <2>1. after \notin {"write", "deflate"}
      BY WritesNow
    <2>2. e = 0 => CompReturn /\ reset' = (CompFlush = "finish")
      BY <1>2
    <2>3. QED
      BY <2>1, <2>2 DEF CompReturn
  <1>21. Framing'
    <2>1. WellFramed(Stream)' /\ (Ends(Stream)' <=> Ends(s)) /\ OnlyLast(hold)' /\ Stream' # <<>>
          /\ (HasTrailer(hold)' <=> HasTrailer(left0))
      BY <1>3, <1>9, <1>12, <1>13 DEF WellFramed, Ends, OnlyLast, HasTrailer
    <2>2. member' \in {"busy", "done"}
      BY <1>3
    <2>3. Ends(s) /\ member # "done" => Finishing'
      <3>1. Ends(s) /\ member # "done" => pc' = "write" /\ CompFlush' = "finish" /\ inp' = <<>>
        BY <1>18, <1>19
      <3>2. QED
        BY <2>1, <3>1 DEF Finishing
    <2>4. member' = "busy" => HasTrailer(left0) \/ ~Ends(s)
      BY <1>3, <1>9, <1>12
    <2>5. HasTrailer(left0) => member' = "busy" /\ Finishing'
      <3>1. HasTrailer(left0) => HasTrailer(pool) /\ left0 # <<>>
        BY <1>12 DEF HasTrailer
      <3>2. HasTrailer(left0) => member # "done" /\ Ends(s) /\ ~gone
        BY <1>9, <1>12, <3>1
      <3>3. QED
        BY <1>3, <2>3, <3>2
    <2>6. member' = "done" => /\ left0 = <<>> /\ Ends(s) /\ (reset' \/ Finishing')
                              /\ (pc' = "write" => ended')
      <3>1. CASE member = "done"
        <4>1. e = 0
          BY <1>16, <1>17, <3>1
        <4>2. CompFlush = "finish" /\ Ends(s)
          BY <1>9, <3>1
        <4>3. reset' /\ pc' # "write" /\ left0 = <<>>
          BY <1>14, <1>20, <4>1, <4>2
        <4>4. QED
          BY <4>2, <4>3
      <3>2. CASE member # "done"
        <4>1. member' = "done" => gone
          BY <1>3, <3>2
        <4>2. gone => left0 = <<>> /\ Ends(s) /\ e > 0
          BY <1>9, <1>12, <3>2
        <4>3. e > 0 /\ member' = "done" => ended'
          BY <1>2
        <4>4. QED
          BY <2>3, <3>2, <4>1, <4>2, <4>3
      <3>3. QED
        BY <3>1, <3>2
    <2>7. reset' => member' = "done" /\ pc' \notin {"write", "deflate"}
      <3>1. reset' => e = 0 /\ CompFlush = "finish"
        BY <1>17, <1>19, <1>20
      <3>2. QED
        BY <1>3, <1>15, <1>20, <3>1
    <2>8. pc' # "deflate"
      BY <1>17, <1>19, <1>20
    <2>9. hold' = left0
      BY <1>3
    <2>10. QED
      BY <2>1, <2>2, <2>4, <2>5, <2>6, <2>7, <2>8, <2>9, Zenon DEF Framing
  <1>22. Seeking'
    <2>1. (pc' \in CompPlaces /\ after' = after) \/ CompReturn
      BY <1>17, <1>19, <1>20 DEF CompPlaces
    <2>2. QED
      BY <1>1, <2>1, SeekComp
  <1>23. Unframed(inp')
    BY <1>3, <1>4, <1>6, UnframedParts DEF Accounted, more
  <1>24. Content(s) \o inp' \o rest = Written
    BY <1>3, <1>9
  <1>25. \/ pc' \in CompPlaces /\ after' = after
         \/ /\ CompReturn /\ inp' = <<>>
            /\ CompFlush \in {"sync", "finish"} => outp' = <<>> /\ hold' = <<>>
            /\ CompFlush = "finish" /\ direct # 1 => s # <<>> /\ Ends(s)
    <2>1. CASE e > 0
      BY <1>19, <2>1 DEF CompPlaces
    <2>2. CASE e = 0
      <3>1. CompReturn /\ inp' = <<>>
        BY <1>14, <1>20, <2>2
      <3>2. ASSUME CompFlush \in {"sync", "finish"} PROVE outp' = <<>> /\ hold' = <<>>
        <4>1. outp = <<>>
          BY <1>5, <1>15, <2>2, <3>2
        <4>2. left0 = <<>> /\ pool = <<>>
          BY <1>14, <2>2, <3>2
        <4>3. out = <<>>
          BY <2>2, <4>2, SubSeqEmpty DEF out
        <4>4. QED
          BY <1>3, <4>1, <4>2, <4>3
      <3>3. CompFlush = "finish" => s # <<>> /\ Ends(s)
        BY <1>9, <1>15, <2>2
      <3>4. QED
        BY <3>1, <3>2, <3>3
    <2>3. QED
      BY <1>17, <2>1, <2>2
  <1>26. QED
    BY <1>1, <1>4, <1>13, <1>21, <1>22, <1>23, <1>24, <1>25, CompKept

-----------------------------------------------------------------------------
(* Every step.                                                             *)

\* Reading takes place in a file that is read.
LEMMA ReadModes ==
    ASSUME IInv, Reading
    PROVE  mode = "read" /\ mode' \in {"read", "closed"} /\ op' = op
  <1>1. op' = op
    BY DEF Reading, writeVars, callVars
  <1>2. pc \in ReadPlaces => mode = "read"
    BY DEF IInv, Placed
  <1>3. CASE \/ gzread \/ gzgets \/ gzgetcSlow \/ gzungetc \/ gzdirect
    <2>1. mode = "read" /\ mode' = mode
      BY <1>3 DEF gzread, gzgets, gzgetcSlow, gzungetc, gzdirect, BeginRead
    <2>2. QED
      BY <1>1, <2>1
  <1>4. CASE gzgetc \/ gzrewind \/ ReadSeek \/ gzclearerr \/ gzclose_r
    BY <1>1, <1>4 DEF gzgetc, gzrewind, ReadSeek, gzclearerr, gzclose_r
  <1>5. CASE Peek \/ Push \/ Skip \/ Read \/ Gets \/ FetchStep
    <2>1. pc \in ReadPlaces /\ mode' = mode
      BY <1>5 DEF Peek, Push, Skip, Read, Gets, FetchStep, ReadPlaces
    <2>2. QED
      BY <1>1, <1>2, <2>1
  <1>6. CASE Decomp \/ Decomped
    <2>1. pc \in ReadPlaces /\ mode' = mode
      BY <1>6 DEF Decomp, Decomped, ReadPlaces
    <2>2. QED
      BY <1>1, <1>2, <2>1
  <1>7. QED
    BY <1>3, <1>4, <1>5, <1>6 DEF Reading, ReadNext

\* A call of the caller
LEMMA StartsAre ==
    ASSUME gzwrite \/ gzputc \/ gzprintf \/ gzflush \/ gzsetparams \/ gzclose_w
    PROVE  \E o \in {"write", "putc", "printf", "flush", "params", "close"}, n \in Nat,
              f \in Flushes \cup {"block"} :
             /\ o = "close" => f = "finish"
             /\ o = "params" => f = "block"
             /\ o = "flush" => f \in Flushes
             /\ Start(o, n, f)
  <1> DEFINE Ok(o, n, f) ==
               /\ o \in {"write", "putc", "printf", "flush", "params", "close"} /\ n \in Nat
               /\ f \in Flushes \cup {"block"}
               /\ o = "close" => f = "finish"
               /\ o = "params" => f = "block"
               /\ o = "flush" => f \in Flushes
               /\ Start(o, n, f)
  <1>1. Lens \subseteq Nat /\ 0 \in Nat /\ 1 \in Nat
    BY WriteAssumption
  <1>2. "none" \in Flushes /\ "finish" \in Flushes
    BY DEF Flushes
  <1>3. gzwrite => \E n \in Nat : Ok("write", n, "none")
    BY <1>1, <1>2 DEF gzwrite
  <1>4. gzputc => Ok("putc", 1, "none")
    BY <1>1, <1>2 DEF gzputc
  <1>5. gzprintf => \E n \in Nat : Ok("printf", n, "none")
    BY <1>1, <1>2 DEF gzprintf
  <1>6. gzflush => \E f \in Flushes : Ok("flush", 0, f)
    BY <1>1 DEF gzflush
  <1>7. gzsetparams => Ok("params", 0, "block")
    BY <1>1 DEF gzsetparams
  <1>8. gzclose_w => Ok("close", 0, "finish")
    BY <1>1, <1>2 DEF gzclose_w
  <1> HIDE DEF Ok
  <1>9. \E o, n, f : Ok(o, n, f)
    BY <1>3, <1>4, <1>5, <1>6, <1>7, <1>8
  <1>10. QED
    BY <1>9 DEF Ok

\* Writing takes place in a file that is written, and an error that was reported stays reported.
LEMMA WriteModes ==
    ASSUME IInv, Writing
    PROVE  mode = "write" /\ told' \in {told, TRUE} /\ (mode' = "write" \/ (mode' = "closed" /\ Closed))
  <1>1. pc \in WritePlaces => mode = "write"
    BY DEF IInv, Placed
  <1>2. CASE gzwrite \/ gzputc \/ gzprintf \/ gzflush \/ gzsetparams \/ gzclose_w
    BY <1>2, StartsAre DEF Start
  <1>3. CASE WriteSeek
    BY <1>3 DEF WriteSeek, writeVars, seenVars
  <1>4. CASE Begin
    <2>1. told' \in {told, TRUE}
      BY <1>4 DEF Begin, WriteAlloc, Fail
    <2>2. QED
      BY <1>1, <1>4, <2>1 DEF Begin, WritePlaces
  <1>5. CASE ZeroRound \/ ZeroDone \/ Body \/ Moved \/ Params
    BY <1>1, <1>5 DEF ZeroRound, ZeroDone, Body, Moved, Params, WritePlaces, seenVars
  <1>6. CASE Comp
    <2>1. told' \in {told, TRUE}
      BY <1>6 DEF Comp, WriteAlloc, Direct, Fail
    <2>2. QED
      BY <1>1, <1>6, <2>1 DEF Comp, WritePlaces
  <1>7. CASE CompWrite
    <2>1. told' \in {told, TRUE}
      BY <1>7 DEF CompWrite, Fail
    <2>2. QED
      BY <1>1, <1>7, <2>1 DEF CompWrite, WritePlaces
  <1>8. CASE CompDeflate
    BY <1>1, <1>8 DEF CompDeflate, WritePlaces, seenVars
  <1>9. CASE Closed
    BY <1>1, <1>9 DEF Closed, WritePlaces
  <1>10. QED
    BY <1>2, <1>3, <1>4, <1>5, <1>6, <1>7, <1>8, <1>9 DEF Writing, WriteNext

LEMMA WritingKept ==
    ASSUME Writes, SeekRule = "buffered", Writing, told' = FALSE
    PROVE  Kept'
  <1>1. CASE gzwrite \/ gzputc \/ gzprintf \/ gzflush \/ gzsetparams \/ gzclose_w
    BY <1>1, StartsAre, StartKept
  <1>2. CASE Closed
    BY <1>2, ClosedKept
  <1>3. QED
    BY <1>1, <1>2, WriteSeekKept, BeginKept, ZeroRoundKept, ZeroDoneKept, BodiesKept, MovedKept, ParamsKept,
       CompStepKept, CompWriteKept, CompDeflateKept DEF Writing, WriteNext

\* Where nothing of it changes
LEMMA KeptSame ==
    ASSUME Kept, UNCHANGED <<mode, size, direct, pos, skip, pc, writeVars>>
    PROVE  Kept'
  <1>1. /\ UNCHANGED <<mode, size, direct, pos, skip, pc, inp, rest, outp, reset, member, hold>>
        /\ UNCHANGED <<op, flush, after, ended, zclear, zn, file, zeros, told>>
    BY DEF writeVars, bufVars, defVars, callVars, seenVars
  <1>2. Stream' = Stream
    BY <1>1 DEF Stream
  <1>3. Content(Stream)' = Content(Stream)
    BY <1>2 DEF Content, DataUpTo, Frames
  <1>4. Accounted'
    <2>1. Written' = Written
      BY <1>1 DEF Written
    <2>2. Unframed(inp)' /\ Unframed(rest)'
      BY <1>1 DEF Kept, Accounted, Unframed, Frames
    <2>3. Content(Stream)' \o inp' \o rest' = Written'
      BY <1>1, <1>3, <2>1 DEF Kept, Accounted
    <2>4. QED
      BY <1>1, <2>2, <2>3 DEF Kept, Accounted, CompPlaces
  <1>5. Seeking'
    <2>1. Ahead' = Ahead /\ (Zeroing' <=> Zeroing)
      BY <1>1 DEF Ahead, Zeroing, CompPlaces, WritePlaces
    <2>2. Seeking
      BY DEF Kept
    <2>3. zeros' \subseteq 0..(pos' + Ahead' - 1) /\ pos'..(pos' + Ahead' - 1) \subseteq zeros'
      BY <1>1, <2>1, <2>2 DEF Seeking
    <2>4. Lesser(size', skip' - zn') = Lesser(size, skip - zn)
      BY <1>1
    <2>5. skip' = 0 \/ zclear' = -1 \/ Lesser(size', skip' - zn') <= zclear' \/ pc \notin WritePlaces
      <3>1. skip = 0 \/ zclear = -1 \/ Lesser(size, skip - zn) <= zclear \/ pc \notin WritePlaces
        BY <2>2 DEF Seeking
      <3>2. QED
        BY <1>1, <3>1
    <2>6. Zeroing' => size' > 0
      BY <1>1, <2>1, <2>2 DEF Seeking
    <2>7. pc = "begin" => skip' = 0 \/ (zclear' = -1 /\ (size' > 0 \/ op' \in {"write", "printf"}))
      BY <1>1, <2>2 DEF Seeking
    <2>8. /\ pc \in WritePlaces /\ zn' # 0 => pc = "zeroed" \/ (pc \in CompPlaces /\ after = "zeroed")
          /\ pc \in WritePlaces \ {"begin"} => skip' = 0 \/ Zeroing'
          /\ (pc = "zeroed" \/ (pc \in CompPlaces /\ after = "zeroed")) => zclear' # -1
      BY <1>1, <2>1, <2>2 DEF Seeking
    <2>9. pc' = pc /\ after' = after
      BY <1>1
    <2>10. QED
      BY <2>3, <2>5, <2>6, <2>7, <2>8, <2>9, Zenon DEF Seeking, WritePlaces, CompPlaces
  <1>6. Calls'
    BY <1>1 DEF Kept, Calls, CompPlaces
  <1>7. direct' # 1 => Framing'
    <2>1. SUFFICES ASSUME direct # 1 PROVE Framing'
      BY <1>1
    <2>2. Framing
      BY <2>1 DEF Kept
    <2>3. WellFramed(Stream)' /\ (Ends(Stream)' <=> Ends(Stream)) /\ OnlyLast(hold)'
          /\ (HasTrailer(hold)' <=> HasTrailer(hold))
      BY <1>1, <1>2, <2>2 DEF Framing, WellFramed, Ends, OnlyLast, HasTrailer
    <2>4. CompFlush' = CompFlush
      BY <1>1 DEF CompFlush
    <2>5. Finishing' <=> Finishing
      BY <1>1, <2>3, <2>4 DEF Finishing
    <2>6. QED
      BY <1>1, <1>2, <2>2, <2>3, <2>4, <2>5 DEF Framing
  <1>8. Complete'
    BY <1>1, <1>2 DEF Kept, Complete, Ends
  <1>9. QED
    BY <1>4, <1>5, <1>6, <1>7, <1>8 DEF Kept

LEMMA LossStep ==
    ASSUME IInv, IInv', LossInv, SeekRule = "buffered", [Next]_vars
    PROVE  LossInv'
  <1>1. mode \in {"read", "write", "closed"}
    BY DEF IInv, GzTypeOK
  <1>2. told' \in BOOLEAN
    BY DEF IInv, WriteInv, WriteTypeOK
  <1>3. CASE Reading
    <2>1. mode = "read" /\ mode' \in {"read", "closed"} /\ op' = op
      BY <1>3, ReadModes
    <2>2. op' = "none"
      BY <2>1 DEF LossInv
    <2>3. QED
      BY <2>1, <2>2 DEF LossInv
  <1>4. CASE Writing
    <2>1. mode = "write" /\ told' \in {told, TRUE} /\ (mode' = "write" \/ (mode' = "closed" /\ Closed))
      BY <1>4, WriteModes
    <2>2. SUFFICES ASSUME ~told'
                   PROVE  Kept' /\ (mode' = "closed" => op' = "close")
      BY <2>1 DEF LossInv
    <2>3. Writes
      <3>1. ~told
        BY <2>1, <2>2, Zenon
      <3>2. Kept
        BY <2>1, <3>1 DEF LossInv
      <3>3. QED
        BY <2>1, <3>2 DEF Writes
    <2>4. Kept'
      BY <1>2, <1>4, <2>2, <2>3, WritingKept
    <2>5. mode' = "closed" => op' = "close"
      BY <2>1, <2>3, ClosedKept
    <2>6. QED
      BY <2>4, <2>5
  <1>5. CASE Sizing \/ UNCHANGED vars
    <2>1. UNCHANGED <<mode, size, direct, pos, skip, pc, writeVars>>
      BY <1>5 DEF Sizing, Buffer, vars, gzVars
    <2>2. UNCHANGED <<mode, op, told>>
      BY <2>1 DEF writeVars, callVars, seenVars
    <2>3. Kept => Kept'
      BY <2>1, KeptSame
    <2>4. QED
      BY <2>2, <2>3 DEF LossInv
  <1>6. QED
    BY <1>3, <1>4, <1>5 DEF Next

LEMMA LossInit == Init => LossInv
  <1> SUFFICES ASSUME Init PROVE LossInv
    OBVIOUS
  <1>1. /\ mode \in {"read", "write"} /\ pos = 0 /\ skip = 0 /\ pc = "idle"
    BY DEF Init, Open
  <1>2. /\ inp = <<>> /\ rest = <<>> /\ outp = <<>> /\ reset = FALSE /\ member = "new" /\ hold = <<>>
        /\ op = "none" /\ flush = "none" /\ after = "idle" /\ zn = 0 /\ file = <<>> /\ zeros = {}
    BY DEF Init, WriteInit
  <1>3. Stream = <<>>
    <2>1. <<>> \o <<>> \o <<>> = <<>>
      OBVIOUS
    <2>2. QED
      BY <1>2, <2>1 DEF Stream
  <1>4. Accounted
    <2>1. Written = <<>>
      BY <1>1 DEF Written
    <2>2. Content(Stream) \o inp \o rest = <<>>
      <3>1. <<>> \o <<>> \o <<>> = <<>>
        OBVIOUS
      <3>2. QED
        BY <1>2, <1>3, <3>1, ContentEmpty
    <2>3. QED
      BY <1>1, <1>2, <2>1, <2>2 DEF Accounted, Unframed
  <1>5. Seeking
    <2>1. Ahead = 0 /\ ~Zeroing /\ pc \notin WritePlaces /\ pc \notin CompPlaces
      BY <1>1 DEF Ahead, Zeroing, WritePlaces, CompPlaces
    <2>2. pos + Ahead - 1 = -1
      BY <1>1, <2>1
    <2>3. zeros \subseteq 0..(pos + Ahead - 1) /\ pos..(pos + Ahead - 1) \subseteq zeros
      BY <1>1, <1>2, <2>2
    <2>4. QED
      BY <1>1, <2>1, <2>3 DEF Seeking
  <1>6. Calls
    BY <1>1, <1>2 DEF Calls, CompPlaces
  <1>7. Framing
    BY <1>1, <1>2, <1>3 DEF Framing, WellFramed, Ends, HasTrailer, OnlyLast
  <1>8. Complete
    BY <1>1, <1>2 DEF Complete
  <1>9. QED
    BY <1>1, <1>2, <1>4, <1>5, <1>6, <1>7, <1>8 DEF LossInv, Kept

\* Where the file has to be complete, it holds all.
LEMMA FileIs ==
    ASSUME IInv, Kept, mode = "closed" \/ (pc = "idle" /\ op = "flush" /\ flush # "none")
    PROVE  /\ Content(file) = Written
           /\ mode = "closed" /\ direct = 0 => Framed(file)
  <1>1. inp = <<>> /\ rest = <<>> /\ outp = <<>> /\ hold = <<>>
    BY DEF Kept, Complete
  <1>2. file \in Seq(Int)
    BY DEF IInv, WriteInv, WriteTypeOK
  <1>3. Stream = file
    <2>1. file \o <<>> = file
      BY <1>2, ConcatEmptySeq
    <2>2. QED
      BY <1>1, <2>1 DEF Stream
  <1>4. Content(file) = Written
    <2>1. Content(file) \o <<>> \o <<>> = Written
      BY <1>1, <1>3 DEF Kept, Accounted
    <2>2. Content(file) \o <<>> = Content(file)
      BY <1>2, ContentType, ConcatEmptySeq
    <2>3. QED
      BY <2>1, <2>2
  <1>5. ASSUME mode = "closed", direct = 0 PROVE Framed(file)
    <2>1. file # <<>> /\ Ends(file) /\ WellFramed(file)
      BY <1>3, <1>5 DEF Kept, Complete, Framing
    <2>2. QED
      BY <2>1 DEF Ends, WellFramed, Framed
  <1>6. QED
    BY <1>4, <1>5

\* gzwrite, gzputc, gzprintf, gzflush, gzseek, gzsetparams, gzclose_w: when no
\* call reported an error, the closed file, and the file after a gzflush, holds
\* every byte that was written, in order, zeros where the caller seeked, in
\* complete gzip members at the end: for all buffer sizes and lengths, however
\* deflate holds back its output and wherever write() fails or is short.  No
\* seek is the first thing asked of a file without buffers (SeekRule): gz_zero
\* would read size before gz_comp has allocated, as ZeroRound does with "any".
THEOREM NothingLost ==
    ASSUME SeekRule = "buffered"
    PROVE  Spec => []NoSilentLoss
  <1>1. Init => IInv /\ LossInv
    BY InitIs, LossInit
  <1>2. IInv /\ LossInv /\ [Next]_vars => (IInv /\ LossInv)'
    <2>1. SUFFICES ASSUME IInv, LossInv, [Next]_vars PROVE IInv' /\ LossInv'
      OBVIOUS
    <2>2. IInv'
      BY <2>1, NextStep, StutterStep
    <2>3. QED
      BY <2>1, <2>2, LossStep
  <1>3. IInv /\ LossInv => NoSilentLoss
    <2>1. SUFFICES ASSUME IInv, LossInv, ~told,
                          (mode = "closed" /\ op = "close") \/ (pc = "idle" /\ op = "flush" /\ flush # "none")
                   PROVE  Content(file) = Written /\ (mode = "closed" /\ direct = 0 => Framed(file))
      BY DEF NoSilentLoss
    <2>2. mode \in {"read", "write", "closed"}
      BY <2>1 DEF IInv, GzTypeOK
    <2>3. Kept
      BY <2>1, <2>2 DEF LossInv
    <2>4. QED
      BY <2>1, <2>3, FileIs
  <1>4. QED
    BY <1>1, <1>2, <1>3, PTL DEF Spec
=============================================================================
