--------------------------- MODULE InflateLemmas ---------------------------
(***************************************************************************)
(* The inductive invariant of inflate(), part by part, and the lemmas its  *)
(* proof rests on: what NEEDBITS pulls, what one iteration of inflate_fast *)
(* does to its counters, what updatewindow leaves in the circular window   *)
(* and what a match reads of it.  InflateProofs puts them together.        *)
(***************************************************************************)
EXTENDS Inflate, WellFoundedInduction, TLAPS

(* Types.                                                                  *)

SymKinds == {"none", "text", "len", "rep", "zero", "lit", "end", "dist"}
FaultNames == {"nobits", "overread", "overrun", "misread", "stall", "rewind", "syncbuf"}

ControlTypes ==
  /\ mode \in Modes /\ pc \in {"idle", "run", "leave"} /\ fast \in {"no", "full", "safe"}
  /\ ret \in {"ok", "end", "data"} /\ flush \in {"none", "finish", "block", "trees"}
  /\ last \in BOOLEAN /\ havedict \in BOOLEAN /\ valid \in {"ok", "open", "bad"}
  /\ wrap \subseteq {"zlib", "gzip", "check"} /\ req \in Requests

FlagsType == flags \in [kind : {"none", "zlib", "gzip"}, f : SUBSET Fields]
CheckValues == [of : {"data", "head", "dict"}, n : Int]
CheckType == check \in CheckValues
HeadValues == [on : BOOLEAN, done : {-1, 0, 1}, exlen : Nat, extra : Int, name : Nat, comment : Nat]
HeadType == head \in HeadValues
SymType == sym \in [k : SymKinds, n : Nat, x : Nat]
RecordTypes == FlagsType /\ CheckType /\ HeadType /\ SymType

InTypes == bits \in Nat /\ have \in Nat /\ in \in Nat
OutTypes == out \in Nat /\ left \in 0..out
CountTypes == hist \in Nat /\ total \in Nat /\ put \in Nat /\ hdr \in Nat
CodeTypes ==
  /\ length \in Nat /\ offset \in Nat /\ extra \in 0..13
  /\ ncode \in 0..19 /\ nlen \in 0..316 /\ lens \in 0..316
NumberTypes == InTypes /\ OutTypes /\ CountTypes /\ CodeTypes

Types == ControlTypes /\ RecordTypes /\ NumberTypes

(* Where a call stands: inflate_fast runs in LEN only, outside it no more   *)
(* input is left than the call was given, and a call that ends without an   *)
(* error ran out of input or of space (or was asked to stop at a block).    *)
InCall ==
  /\ pc = "idle" => in = 0 /\ out = 0 /\ have = 0 /\ left = 0
  /\ fast # "no" => pc = "run" /\ mode = "LEN"
  /\ fast = "no" => have <= in
  /\ pc = "run" => mode # "SYNC"
  /\ pc # "leave" => ret = "ok"
  /\ ret # "ok" => mode \in {"DONE", "BAD"}
  /\ pc = "leave" /\ ret = "ok" /\ flush = "none" => have = 0 \/ left = 0

\* The code or text a call ended in the middle of belongs to the mode.
Begun ==
  /\ sym.k = "text" => \/ mode = "NAME" /\ "name" \in flags.f /\ sym.n > 0
                       \/ mode = "COMMENT" /\ "comment" \in flags.f /\ sym.n > 0
  /\ sym.k = "dist" => mode = "DIST" /\ sym.n <= 15 /\ sym.x <= 13
  /\ sym.k \in {"rep", "zero"} => mode = "CODELENS"
  /\ sym.k = "len" => mode \in {"CODELENS", "LEN"}
  /\ sym.k \in {"lit", "end"} => mode = "LEN"
  /\ sym.k # "none" /\ mode = "LEN" => sym.n \in 1..15 /\ sym.x \in 0..5
  /\ sym.k # "none" /\ mode = "CODELENS" => lens < nlen /\ sym.n <= 12

\* The counts of a table descriptor and of inflateSync
Counting ==
  /\ mode = "LENLENS" => lens <= ncode /\ nlen >= 1
  /\ mode = "CODELENS" => lens <= nlen
  /\ mode = "SYNC" => lens \in 0..3
  /\ mode = "LENEXT" => extra <= 5

Calling == InCall /\ Begun /\ Counting

(* Bits in the accumulator: fewer than the mode asked for, or what one      *)
(* NEEDBITS leaves, or what inflatePrime put in.                             *)
HeldInCode ==
  /\ fast = "no" => bits <= 39
  /\ sym.k \notin {"none", "text"} /\ fast = "no" => bits < sym.n
  /\ mode \in {"CODELENS", "DIST"} /\ sym.k = "none" => bits <= 7
  /\ mode \in {"LEN_", "LEN"} /\ sym.k = "none" /\ fast = "no" => bits <= 7 \/ bits + 3 <= PrimeMax

HeldInHeader ==
  /\ mode = "HEAD" => bits <= 16 /\ (wrap = {} => bits <= PrimeMax)
  /\ mode \in {"FLAGS", "OS", "EXLEN", "HCRC"} => bits <= 15
  /\ mode \in {"TIME", "DICTID"} => bits <= 31
  /\ mode \in {"EXTRA", "NAME", "COMMENT", "DICT"} => bits = 0
  /\ mode = "EXLEN" /\ "extra" \notin flags.f => bits = 0
  /\ mode = "HCRC" /\ "hcrc" \notin flags.f => bits = 0

HeldInBlock ==
  /\ mode \in {"TYPE", "TYPEDO"} => bits <= 16 /\ (bits <= 7 \/ bits <= PrimeMax)
  /\ mode = "STORED" => bits <= 31
  /\ mode \in {"COPY_", "COPY"} => bits = 0
  /\ mode = "TABLE" => bits <= 13
  /\ mode \in {"LENLENS", "LENEXT", "MATCH", "LIT"} => bits <= 7
  /\ mode = "DISTEXT" => bits <= 7 \/ bits < extra

Buffered == HeldInCode /\ HeldInHeader /\ HeldInBlock

\* Inside inflate_fast, at the top of the loop: enough is loaded for the lookup, and
\* less than a byte more than the caller's input is in the accumulator, the begun code
\* or primed bits excepted.
Margins ==
  fast # "no" =>
    /\ bits \in Root..63 /\ (have >= INFLATE_FAST_MIN_HAVE \/ (have >= 8 /\ bits >= 56)) /\ left >= FastRoom(fast)
    /\ IF sym.k = "none" THEN 8 * have + bits <= 8 * in + 7 \/ 8 * have + bits + 3 <= 8 * in + PrimeMax
       ELSE 8 * have + bits < 8 * in + sym.n

NoBitFaults == faults \cap {"nobits", "overread", "overrun", "rewind", "syncbuf"} = {}

\* Bytes put out by this call so far, and by all
Made == out - left
Counted ==
  /\ put = total + Made /\ Made <= hist
  /\ mode \in HeadModes => Made = 0 /\ put = 0
  /\ mode \in {"LENGTH", "DONE"} /\ wrap # {} => Made = 0

\* The window's sizes and indices: wnext is whave until the window is full.
Shape ==
  /\ window \in [0..(WindowOf[MaxWBits] - 1) -> Int]
  /\ wbits \in 0..(MaxWBits + 1)
  /\ wbits = MaxWBits + 1 => mode = "BAD" /\ wsize = 0 /\ req.wbits = 0
  /\ req.wbits # 0 => wbits = req.wbits
  /\ mode = "HEAD" => wbits = req.wbits
  /\ mode = "HEAD" /\ wbits = 0 => wsize = 0 /\ wrap # {}
  /\ wsize = 0 => whave = 0 /\ wnext = 0
  /\ wsize # 0 => wbits <= MaxWBits /\ wsize = WindowOf[wbits] /\ wnext \in 0..(wsize - 1) /\ whave \in 0..wsize
                  /\ (whave < wsize => wnext = whave)

\* the history before this call
Base == hist - Made

\* n bytes of window w hold the end of a history of b bytes, in a circle of ws
\* bytes that ends before index next
Holds(w, ws, next, n, b) ==
  \A i \in 0..(n - 1) : w[i] = IF i < next THEN (b - next) + i ELSE (b - ws) + (i - next)

\* While output is still to come the window holds the history before this call, as much
\* of it as it is large.
Content ==
  mode \in HeadModes \cup BlockModes =>
    whave = Min2(Base, WSizeNow) /\ Holds(window, wsize, wnext, whave, Base)

\* The check value covers the header so far, or the output up to this call.
Sums ==
  /\ "check" \in wrap /\ mode = "FLAGS" => check = [of |-> "head", n |-> hdr]
  /\ "check" \in wrap /\ "hcrc" \in flags.f /\ mode \in {"TIME", "OS", "EXLEN", "EXTRA", "NAME", "COMMENT", "HCRC"}
       => check = [of |-> "head", n |-> hdr]
  /\ "check" \in wrap /\ mode \in BlockModes \cup {"CHECK"} => check = [of |-> "data", n |-> put - Made]
  /\ wrap # {} => wrap \cap {"zlib", "gzip"} # {}

\* Only a stream that may be refused is, and a match under way is as far back as it was
\* judged to be.
Judged ==
  /\ mode = "BAD" => valid # "ok"
  /\ mode = "MATCH" => \/ valid = "ok" /\ offset <= hist /\ offset <= WindowOf[wbits]
                       \/ valid = "open" 
                       \/ valid = "bad" /\ ("check" \in wrap => offset > hist)
  /\ valid = "bad" /\ "check" \in wrap => mode \in {"BAD", "SYNC", "MATCH"}
  /\ "stall" \notin faults

\* What the caller's gz_header holds of the fields that came so far
Saved ==
  /\ HeaderSaved
  /\ mode \in HeadModes => head.done # 1
  /\ mode = "HEAD" => length = 0
  /\ mode \in {"HEAD", "FLAGS", "TIME", "OS", "EXLEN"} => head.extra = 0
  /\ head.on /\ "extra" \in flags.f =>
       /\ mode = "EXTRA" => length <= head.exlen /\ head.extra = Min2(head.exlen - length, ExtraMax)
       /\ mode \in {"NAME", "COMMENT", "HCRC"} => head.extra = Min2(head.exlen, ExtraMax)
  /\ head.on /\ "name" \in flags.f /\ mode \in {"COMMENT", "HCRC"} => \E r \in TextLens : head.name = Min2(r, TextMax)
  /\ head.on /\ "comment" \in flags.f /\ mode \in {"HCRC"} => \E r \in TextLens : head.comment = Min2(r, TextMax)
  /\ mode \in {"NAME", "COMMENT"} =>
       IF sym.k = "text" THEN head.on => \E r \in TextLens : sym.n <= r /\ length = Min2(r - sym.n, TextMax)
       ELSE length = 0

\* The inductive invariant
IInv ==
  /\ Types /\ Calling /\ Buffered /\ Margins /\ NoBitFaults /\ CopiesRight
  /\ Counted /\ Shape /\ Content /\ Sums /\ Judged /\ Saved

-----------------------------------------------------------------------------
(* Window sizes, and the search for a marker.                              *)

\* Every nonempty set of naturals has a least element.
LEMMA LeastNat ==
    ASSUME NEW T \in SUBSET Nat, T # {}
    PROVE  \E x \in T : \A y \in T : x <= y
  <1> DEFINE R == {ss \in Nat \X Nat : ss[1] < ss[2]}
  <1>0. IsWellFoundedOn(R, Nat)
    BY NatLessThanWellFounded, Zenon DEF OpToRel
  <1>1. \A x, y \in Nat : x < y => <<x, y>> \in R
    OBVIOUS
  <1> HIDE DEF R
  <1>2. PICK x \in T : \A y \in T : ~(<<y, x>> \in R)
    BY <1>0, WFMin
  <1>3. ASSUME NEW y \in T PROVE x <= y
    <2>1. x \in Nat /\ y \in Nat
      OBVIOUS
    <2>2. ~(y < x)
      BY <1>1, <1>2, <2>1
    <2>3. QED
      BY <2>1, <2>2
  <1>4. QED
    BY <1>3

\* The powers of two are there up to any exponent.
LEMMA PowersExist ==
    ASSUME NEW n \in Nat
    PROVE  \E g : g = [w \in 0..n |-> IF w = 0 THEN 1 ELSE 2 * g[w - 1]]
  <1> DEFINE Ok(k) == \E g : g = [w \in 0..k |-> IF w = 0 THEN 1 ELSE 2 * g[w - 1]]
             T == {k \in Nat : ~Ok(k)}
  <1>1. SUFFICES T = {}
    OBVIOUS
  <1>2. SUFFICES ASSUME T # {} PROVE FALSE
    OBVIOUS
  <1>3. T \in SUBSET Nat
    OBVIOUS
  <1>4. PICK x \in T : \A y \in T : x <= y
    <2> HIDE DEF T
    <2>1. QED
      BY <1>2, <1>3, LeastNat
  <1>5. x \in Nat /\ ~Ok(x)
    OBVIOUS
  <1>6. CASE x = 0
    <2> DEFINE g == [w \in 0..0 |-> 1]
    <2>1. g = [w \in 0..0 |-> IF w = 0 THEN 1 ELSE 2 * g[w - 1]]
      OBVIOUS
    <2>2. Ok(0)
      BY <2>1
    <2>3. QED
      BY <1>5, <1>6, <2>2
  <1>7. CASE x # 0
    <2>1. x - 1 \in Nat /\ ~(x <= x - 1)
      BY <1>5, <1>7
    <2>2. Ok(x - 1)
      BY <1>4, <2>1
    <2>3. PICK g : g = [w \in 0..(x - 1) |-> IF w = 0 THEN 1 ELSE 2 * g[w - 1]]
      BY <2>2
    <2> DEFINE e == [w \in 0..x |-> IF w = x THEN 2 * g[x - 1] ELSE g[w]]
               r == [w \in 0..x |-> IF w = 0 THEN 1 ELSE 2 * e[w - 1]]
    <2>4. ASSUME NEW w \in 0..x PROVE e[w] = r[w]
      <3>1. CASE w = 0
        <4>1. 0 \in 0..(x - 1)
          BY <1>5, <2>1
        <4>2. g[0] = 1
          BY <2>3, <4>1
        <4>3. QED
          BY <3>1, <4>2, <1>7
      <3>2. CASE w # 0 /\ w # x
        <4>1. w \in 0..(x - 1) /\ w - 1 \in 0..x /\ w - 1 # x
          BY <1>5, <3>2
        <4>2. g[w] = 2 * g[w - 1]
          BY <2>3, <3>2, <4>1
        <4>3. e[w] = g[w] /\ e[w - 1] = g[w - 1]
          BY <3>2, <4>1
        <4>4. QED
          BY <3>2, <4>2, <4>3
      <3>3. CASE w = x
        <4>1. x - 1 \in 0..x /\ x - 1 # x
          BY <1>5, <2>1
        <4>2. e[x - 1] = g[x - 1]
          BY <4>1
        <4>3. QED
          BY <1>7, <3>3, <4>2
      <3>4. QED
        BY <3>1, <3>2, <3>3
    <2>5. e = r
      BY <2>4
    <2>6. Ok(x)
      BY <2>5
    <2>7. QED
      BY <1>5, <2>6
  <1>8. QED
    BY <1>6, <1>7

\* WindowOf is the function its definition says.
LEMMA WindowOfIs ==
  WindowOf = [w \in 0..MaxWBits |-> IF w = 0 THEN 1 ELSE 2 * WindowOf[w - 1]]
  <1>1. MaxWBits \in Nat
    BY InflateAssumption
  <1>2. \E g : g = [w \in 0..MaxWBits |-> IF w = 0 THEN 1 ELSE 2 * g[w - 1]]
    BY <1>1, PowersExist
  <1>3. QED
    BY <1>2, Zenon DEF WindowOf

\* Window sizes are positive and none is larger than the largest.
LEMMA WindowSizes ==
  /\ \A w \in 0..MaxWBits : WindowOf[w] \in Nat \ {0} /\ WindowOf[w] <= WindowOf[MaxWBits]
  /\ WindowOf[MaxWBits] \in Nat \ {0}
  <1> DEFINE T == {w \in Nat : w <= MaxWBits /\ ~(WindowOf[w] \in Nat \ {0})}
             S == {k \in Nat : k <= MaxWBits /\ ~(WindowOf[MaxWBits - k] <= WindowOf[MaxWBits])}
  <1>1. MaxWBits \in Nat
    BY InflateAssumption
  <1>2. \A w \in 0..MaxWBits : WindowOf[w] = IF w = 0 THEN 1 ELSE 2 * WindowOf[w - 1]
    BY WindowOfIs
  <1>3. T = {}
    <2>1. SUFFICES ASSUME T # {} PROVE FALSE
      OBVIOUS
    <2>2. T \in SUBSET Nat
      OBVIOUS
    <2>3. PICK x \in T : \A y \in T : x <= y
      <3> HIDE DEF T
      <3>1. QED
        BY <2>1, <2>2, LeastNat
    <2>4. x \in 0..MaxWBits /\ ~(WindowOf[x] \in Nat \ {0})
      BY <1>1
    <2>5. x # 0
      BY <1>2, <2>4
    <2>6. x - 1 \in Nat /\ x - 1 <= MaxWBits /\ ~(x <= x - 1)
      BY <1>1, <2>4, <2>5
    <2>7. WindowOf[x - 1] \in Nat \ {0}
      BY <2>3, <2>6
    <2>8. WindowOf[x] = 2 * WindowOf[x - 1]
      BY <1>2, <2>4, <2>5
    <2>9. QED
      BY <2>4, <2>7, <2>8
  <1>4. \A w \in 0..MaxWBits : WindowOf[w] \in Nat \ {0}
    BY <1>1, <1>3
  <1>5. S = {}
    <2>1. SUFFICES ASSUME S # {} PROVE FALSE
      OBVIOUS
    <2>2. S \in SUBSET Nat
      OBVIOUS
    <2>3. PICK x \in S : \A y \in S : x <= y
      <3> HIDE DEF S
      <3>1. QED
        BY <2>1, <2>2, LeastNat
    <2>4. x \in 0..MaxWBits /\ ~(WindowOf[MaxWBits - x] <= WindowOf[MaxWBits])
      BY <1>1
    <2>5. WindowOf[MaxWBits] \in Nat
      BY <1>1, <1>4
    <2>6. x # 0
      <3>1. ASSUME x = 0 PROVE FALSE
        <4>1. MaxWBits - x = MaxWBits
          BY <1>1, <3>1
        <4>2. QED
          BY <2>4, <2>5, <4>1
      <3>2. QED
        BY <3>1
    <2>7. x - 1 \in Nat /\ x - 1 <= MaxWBits /\ ~(x <= x - 1)
      BY <1>1, <2>4, <2>6
    <2>8. WindowOf[MaxWBits - (x - 1)] <= WindowOf[MaxWBits]
      BY <2>3, <2>7
    <2> DEFINE v == MaxWBits - x
    <2>9. v \in 0..MaxWBits /\ v + 1 \in 0..MaxWBits /\ v + 1 = MaxWBits - (x - 1) /\ v + 1 # 0 /\ (v + 1) - 1 = v
      BY <1>1, <2>4, <2>6
    <2>10. WindowOf[v + 1] = 2 * WindowOf[v]
      <3> HIDE DEF v
      <3>1. WindowOf[v + 1] = 2 * WindowOf[(v + 1) - 1]
        BY <1>2, <2>9
      <3>2. QED
        BY <2>9, <3>1
    <2>11. WindowOf[v] \in Nat /\ WindowOf[v + 1] <= WindowOf[MaxWBits]
      BY <1>4, <2>8, <2>9
    <2>12. QED
      BY <2>4, <2>5, <2>10, <2>11
  <1>6. \A w \in 0..MaxWBits : WindowOf[w] <= WindowOf[MaxWBits]
    <2>1. TAKE w \in 0..MaxWBits
    <2>2. MaxWBits - w \in Nat /\ MaxWBits - w <= MaxWBits /\ MaxWBits - (MaxWBits - w) = w
      BY <1>1
    <2>3. MaxWBits - w \notin S
      BY <1>5
    <2>4. QED
      BY <2>2, <2>3
  <1>7. QED
    BY <1>1, <1>4, <1>6

\* The definition of syncsearch's counts over the first n bytes, in terms of them
Counts(got, buf, n, g) ==
  [i \in 0..n |-> IF i = 0 THEN got ELSE IF g[i-1] = 4 THEN 4 ELSE SyncStep(g[i-1], buf[i])]

\* The search that syncsearch makes is there for every buffer.
LEMMA SearchExists ==
    ASSUME NEW got, NEW buf, NEW n \in Nat
    PROVE  \E g : g = Counts(got, buf, n, g)
  <1> DEFINE Adv(a, i) == IF a = 4 THEN 4 ELSE SyncStep(a, buf[i])
             Ok(k) == \E g : g = [i \in 0..k |-> IF i = 0 THEN got ELSE Adv(g[i-1], i)]
             T == {k \in Nat : ~Ok(k)}
  <1>0. ASSUME Ok(n) PROVE \E g : g = Counts(got, buf, n, g)
    BY <1>0 DEF Counts
  <1> HIDE DEF Adv
  <1>1. SUFFICES T = {}
    BY <1>0
  <1>2. SUFFICES ASSUME T # {} PROVE FALSE
    OBVIOUS
  <1>3. T \in SUBSET Nat
    OBVIOUS
  <1>4. PICK x \in T : \A y \in T : x <= y
    <2> HIDE DEF T
    <2>1. QED
      BY <1>2, <1>3, LeastNat
  <1>5. x \in Nat /\ ~Ok(x)
    OBVIOUS
  <1>6. CASE x = 0
    <2> DEFINE g == [i \in 0..0 |-> got]
    <2>1. g = [i \in 0..0 |-> IF i = 0 THEN got ELSE Adv(g[i-1], i)]
      OBVIOUS
    <2>2. Ok(0)
      BY <2>1
    <2>3. QED
      BY <1>5, <1>6, <2>2
  <1>7. CASE x # 0
    <2>1. x - 1 \in Nat /\ ~(x <= x - 1)
      BY <1>5, <1>7
    <2>2. Ok(x - 1)
      BY <1>4, <2>1
    <2>3. PICK g : g = [i \in 0..(x - 1) |-> IF i = 0 THEN got ELSE Adv(g[i-1], i)]
      BY <2>2
    <2> DEFINE e == [i \in 0..x |-> IF i = x THEN Adv(g[x - 1], x) ELSE g[i]]
               r == [i \in 0..x |-> IF i = 0 THEN got ELSE Adv(e[i-1], i)]
    <2>4. ASSUME NEW w \in 0..x PROVE e[w] = r[w]
      <3>1. CASE w = 0
        <4>1. 0 \in 0..(x - 1)
          BY <1>5, <2>1
        <4>2. g[0] = got
          BY <2>3, <4>1
        <4>3. QED
          BY <3>1, <4>2, <1>7
      <3>2. CASE w # 0 /\ w # x
        <4>1. w \in 0..(x - 1) /\ w - 1 \in 0..x /\ w - 1 # x
          BY <1>5, <3>2
        <4>2. g[w] = Adv(g[w - 1], w)
          BY <2>3, <3>2, <4>1
        <4>3. e[w] = g[w] /\ e[w - 1] = g[w - 1]
          BY <3>2, <4>1
        <4>4. QED
          BY <3>2, <4>2, <4>3
      <3>3. CASE w = x
        <4>1. x - 1 \in 0..x /\ x - 1 # x
          BY <1>5, <2>1
        <4>2. e[x - 1] = g[x - 1]
          BY <4>1
        <4>3. QED
          BY <1>7, <3>3, <4>2
      <3>4. QED
        BY <3>1, <3>2, <3>3
    <2>5. e = r
      BY <2>4
    <2>6. Ok(x)
      BY <2>5
    <2>7. QED
      BY <1>5, <2>6
  <1>8. QED
    BY <1>6, <1>7

\* syncsearch never counts beyond the four bytes of the marker.
LEMMA SyncRange ==
    ASSUME NEW got \in 0..4, NEW buf \in Seq({0, 255, 1})
    PROVE  syncsearch(got, buf) \in 0..4
  <1> DEFINE F(g) == Counts(got, buf, Len(buf), g)
             f == CHOOSE g : g = F(g)
             T == {i \in Nat : i <= Len(buf) /\ ~(f[i] \in 0..4)}
  <1>1. Len(buf) \in Nat
    OBVIOUS
  <1>2. \E g : g = F(g)
    BY <1>1, SearchExists, Zenon
  <1>3. f = F(f)
    BY <1>2, Zenon
  <1>4. syncsearch(got, buf) = f[Len(buf)]
    BY DEF syncsearch, Counts
  <1>5. \A i \in 0..Len(buf) : f[i] = IF i = 0 THEN got ELSE
                         IF f[i-1] = 4 THEN 4 ELSE SyncStep(f[i-1], buf[i])
    <2> HIDE DEF f
    <2>1. QED
      BY <1>3 DEF Counts
  <1> HIDE DEF f
  <1>6. SUFFICES ASSUME T # {} PROVE FALSE
    BY <1>1, <1>4
  <1>7. T \in SUBSET Nat
    OBVIOUS
  <1>8. PICK x \in T : \A y \in T : x <= y
    <2> HIDE DEF T
    <2>1. QED
      BY <1>6, <1>7, LeastNat
  <1>9. x \in 0..Len(buf) /\ ~(f[x] \in 0..4)
    BY <1>1
  <1>10. x # 0
    BY <1>5, <1>9
  <1>11. x - 1 \in Nat /\ x - 1 <= Len(buf) /\ ~(x <= x - 1) /\ x \in 1..Len(buf)
    BY <1>1, <1>9, <1>10
  <1>12. f[x - 1] \in 0..4
    BY <1>8, <1>11
  <1>13. f[x] = IF f[x-1] = 4 THEN 4 ELSE SyncStep(f[x-1], buf[x])
    BY <1>5, <1>9, <1>10
  <1>14. buf[x] \in {0, 255, 1}
    BY <1>11
  <1>15. ASSUME NEW a \in 0..4, NEW c \in {0, 255, 1}, a # 4 PROVE SyncStep(a, c) \in 0..4
    BY <1>15 DEF SyncStep
  <1>16. QED
    BY <1>9, <1>12, <1>13, <1>14, <1>15

-----------------------------------------------------------------------------
(* Bits pulled by NEEDBITS.                                                *)

\* NEEDBITS(n) with enough input pulls no more than there is, and less than a byte
\* stays behind if it pulls any.
LEMMA PulledIs ==
    ASSUME InTypes, NEW n \in Nat, Enough(n)
    PROVE  /\ Pulled(n) \in Nat /\ Pulled(n) <= have /\ bits + 8 * Pulled(n) >= n
           /\ bits + 8 * Pulled(n) - n \in Nat
           /\ (bits >= n /\ Pulled(n) = 0) \/ (bits < n /\ bits + 8 * Pulled(n) <= n + 7)
  <1>1. bits \in Nat /\ have \in Nat /\ bits + 8 * have >= n
    BY DEF InTypes, Enough
  <1>2. CASE bits >= n
    BY <1>1, <1>2 DEF Pulled
  <1>3. CASE ~(bits >= n)
    <2>1. Pulled(n) = (n - bits + 7) \div 8
      BY <1>3 DEF Pulled
    <2>2. QED
      BY <1>1, <1>3, <2>1
  <1>4. QED
    BY <1>2, <1>3

\* NEEDBITS(n), then DROPBITS(d)
LEMMA NeedIs ==
    ASSUME InTypes, NEW n \in Nat, NEW d \in Nat, d <= n, Enough(n), Need(n, d)
    PROVE  /\ have' \in Nat /\ have' <= have /\ bits' \in Nat
           /\ \/ bits >= n /\ bits' = bits - d /\ have' = have
              \/ bits < n /\ bits' <= n + 7 - d
  <1>1. /\ Pulled(n) \in Nat /\ Pulled(n) <= have /\ bits + 8 * Pulled(n) >= n
        /\ (bits >= n /\ Pulled(n) = 0) \/ (bits < n /\ bits + 8 * Pulled(n) <= n + 7)
    BY PulledIs
  <1>2. PICK p \in Nat :
          /\ p = Pulled(n) /\ p <= have /\ bits + 8 * p >= n
          /\ (bits >= n /\ p = 0) \/ (bits < n /\ bits + 8 * p <= n + 7)
    BY <1>1
  <1>3. have' = have - p /\ bits' = bits + 8 * p - d
    BY <1>2 DEF Need
  <1>4. bits \in Nat /\ have \in Nat
    BY DEF InTypes
  <1>5. CASE bits >= n /\ p = 0
    BY <1>2, <1>3, <1>4, <1>5
  <1>6. CASE bits < n /\ bits + 8 * p <= n + 7
    BY <1>2, <1>3, <1>4, <1>6
  <1>7. QED
    BY <1>2, <1>5, <1>6

\* NEEDBITS(n), then DROPBITS(n)
LEMMA TakeIs ==
    ASSUME InTypes, NEW n \in Nat, Enough(n), Take(n)
    PROVE  /\ have' \in Nat /\ have' <= have /\ bits' \in Nat
           /\ (bits >= n /\ bits' = bits - n /\ have' = have) \/ (bits < n /\ bits' <= 7)
  BY NeedIs DEF Take

\* NEEDBITS(n), then INITBITS
LEMMA TakeAllIs ==
    ASSUME InTypes, NEW n \in Nat, Enough(n), TakeAll(n)
    PROVE  have' \in Nat /\ have' <= have /\ bits' = 0
  BY PulledIs DEF TakeAll, InTypes

\* A code of n bits of which the rest has not come
LEMMA StarveIs ==
    ASSUME InTypes, NEW n \in Nat, ~Enough(n), Starve
    PROVE  have' = 0 /\ bits' \in Nat /\ bits' < n /\ bits' >= bits /\ pc' = "leave"
  BY DEF InTypes, Enough, Starve, Leave

\* The piece of a stored block that is copied at once
LEMMA PieceIs ==
    ASSUME NEW a \in Nat, NEW b \in Nat, NEW c \in Nat
    PROVE  LET m == Min2(a, Min2(b, c))
           IN  m \in Nat /\ m <= a /\ m <= b /\ m <= c /\ (m = a \/ m = b \/ m = c)
  BY DEF Min2

\* The least of two numbers
LEMMA LeastIs ==
    ASSUME NEW a \in Int, NEW b \in Int
    PROVE  LET m == Min2(a, b) IN m \in Int /\ m <= a /\ m <= b /\ (m = a \/ m = b)
  BY DEF Min2

\* BYTEBITS and then NEEDBITS(32)
LEMMA AlignedIs ==
    ASSUME InTypes
    PROVE  /\ Aligned \in Nat /\ Aligned <= bits /\ Aligned + 7 >= bits
           /\ (bits <= 7 => Aligned = 0) /\ (bits <= 15 => Aligned <= 8) /\ (bits <= 31 => Aligned <= 24)
           /\ (Aligned <= 31 => (32 - Aligned + 7) \div 8 \in Nat)
           /\ (Aligned <= 31 /\ Aligned + 8 * have >= 32 => (32 - Aligned + 7) \div 8 <= have)
  <1>1. bits \in Nat /\ have \in Nat
    BY DEF InTypes
  <1>2. PICK q \in Nat, r \in 0..7 : bits = 8 * q + r /\ bits % 8 = r
    BY <1>1
  <1>3. Aligned = 8 * q
    BY <1>1, <1>2 DEF Aligned
  <1>4. QED
    BY <1>1, <1>2, <1>3

\* What the modes ask for by NEEDBITS
LEMMA BitsOfIs ==
  /\ BitsOf("HEAD") = 16 /\ BitsOf("FLAGS") = 16 /\ BitsOf("OS") = 16
  /\ BitsOf("TIME") = 32 /\ BitsOf("DICTID") = 32 /\ BitsOf("STORED") = 32
  /\ BitsOf("EXLEN") = (IF "extra" \in flags.f THEN 16 ELSE 0)
  /\ BitsOf("HCRC") = (IF "hcrc" \in flags.f THEN 16 ELSE 0)
  /\ BitsOf("TYPEDO") = (IF last THEN 0 ELSE 3)
  /\ BitsOf("TABLE") = 14
  /\ BitsOf("LENLENS") = (IF lens < ncode THEN 3 ELSE 0)
  /\ BitsOf("LENEXT") = extra /\ BitsOf("DISTEXT") = extra
  /\ BitsOf("CHECK") = (IF wrap = {} THEN 0 ELSE 32)
  /\ BitsOf("LENGTH") = (IF wrap # {} /\ flags.kind # "zlib" THEN 32 ELSE 0)
  /\ \A m \in Modes \ {"HEAD", "FLAGS", "OS", "TIME", "DICTID", "STORED", "EXLEN", "HCRC", "TYPEDO",
                       "TABLE", "LENLENS", "LENEXT", "DISTEXT", "CHECK", "LENGTH"} : BitsOf(m) = 0
  BY DEF BitsOf, Modes, HeadModes, BlockModes

\* Without enough input a mode leaves fewer bits than it asked for.
LEMMA NeedBitsIs ==
    ASSUME ControlTypes, InTypes, CodeTypes, NeedBitsLeaves
    PROVE  /\ bits' \in Nat /\ bits' < BitsOf(mode) /\ have' = 0 /\ BitsOf(mode) > 0
           /\ mode \in {"HEAD", "FLAGS", "OS", "TIME", "DICTID", "STORED", "EXLEN", "HCRC", "TYPEDO",
                        "TABLE", "LENLENS", "LENEXT", "DISTEXT", "CHECK", "LENGTH"}
  <1>1. bits \in Nat /\ have \in Nat /\ extra \in 0..13 /\ mode \in Modes
    BY DEF ControlTypes, InTypes, CodeTypes
  <1>2. BitsOf(mode) \in Nat
    BY <1>1 DEF BitsOf
  <1>3. /\ ~EnoughNow(mode) /\ have' = 0
        /\ bits' = (IF mode = "STORED" THEN Aligned ELSE bits) + 8 * have
    BY DEF NeedBitsLeaves
  <1>4. Aligned \in Nat
    BY AlignedIs
  <1>5. CASE mode = "STORED"
    BY <1>1, <1>3, <1>4, <1>5, BitsOfIs DEF EnoughNow
  <1>6. CASE mode # "STORED"
    <2>1. bits' = bits + 8 * have /\ ~(bits + 8 * have >= BitsOf(mode))
      BY <1>3, <1>6 DEF EnoughNow, Enough
    <2>2. bits' \in Nat /\ bits' < BitsOf(mode) /\ BitsOf(mode) # 0
      BY <1>1, <1>2, <2>1
    <2>3. QED
      BY <1>1, <1>2, <1>3, <2>2, BitsOfIs
  <1>7. QED
    BY <1>5, <1>6

-----------------------------------------------------------------------------
(* Records.                                                                *)

\* CRC2, CRC4 and crc32_small go on with a check value that covers the header so far.
LEMMA HeadSumIs ==
    ASSUME CheckType, hdr \in Nat, NEW f, NEW n \in Nat
    PROVE  /\ HeadSum(f, n) \in CheckValues
           /\ "hcrc" \in f /\ "check" \in wrap /\ check = [of |-> "head", n |-> hdr]
                => HeadSum(f, n) = [of |-> "head", n |-> hdr + n]
  BY DEF CheckType, CheckValues, HeadSum, Covers

\* The output hashed goes on where it stopped.
LEMMA SummedIs ==
    ASSUME CheckType, NEW a \in Int, NEW b \in Int
    PROVE  /\ Summed(check, a, b) \in CheckValues
           /\ check = [of |-> "data", n |-> a] => Summed(check, a, b) = [of |-> "data", n |-> b]
  BY DEF CheckType, CheckValues, Summed, Covers

\* head->done is set
LEMMA HeadDoneIs ==
    ASSUME HeadType, NEW x \in {-1, 0, 1}
    PROVE  LET h == [head EXCEPT !.done = x]
           IN  /\ h \in HeadValues /\ h.on = head.on /\ h.done = x /\ h.exlen = head.exlen
               /\ h.extra = head.extra /\ h.name = head.name /\ h.comment = head.comment
  <1>1. [head EXCEPT !.done = x] \in HeadValues
    BY DEF HeadType, HeadValues
  <1>2. QED
    BY <1>1 DEF HeadType, HeadValues

\* head->extra_len is set
LEMMA HeadExlenIs ==
    ASSUME HeadType, NEW x \in Nat
    PROVE  LET h == [head EXCEPT !.exlen = x]
           IN  /\ h \in HeadValues /\ h.on = head.on /\ h.done = head.done /\ h.exlen = x
               /\ h.extra = head.extra /\ h.name = head.name /\ h.comment = head.comment
  <1>1. [head EXCEPT !.exlen = x] \in HeadValues
    BY DEF HeadType, HeadValues
  <1>2. QED
    BY <1>1 DEF HeadType, HeadValues

\* more of the extra field is saved
LEMMA HeadExtraIs ==
    ASSUME HeadType, NEW x \in Int
    PROVE  LET h == [head EXCEPT !.extra = x]
           IN  /\ h \in HeadValues /\ h.on = head.on /\ h.done = head.done /\ h.exlen = head.exlen
               /\ h.extra = x /\ h.name = head.name /\ h.comment = head.comment
  <1>1. [head EXCEPT !.extra = x] \in HeadValues
    BY DEF HeadType, HeadValues
  <1>2. QED
    BY <1>1 DEF HeadType, HeadValues

\* more of the name is saved
LEMMA HeadNameIs ==
    ASSUME HeadType, NEW x \in Nat
    PROVE  LET h == [head EXCEPT !["name"] = x]
           IN  /\ h \in HeadValues /\ h.on = head.on /\ h.done = head.done /\ h.exlen = head.exlen
               /\ h.extra = head.extra /\ h.name = x /\ h.comment = head.comment
  <1>1. [head EXCEPT !["name"] = x] \in HeadValues
    BY DEF HeadType, HeadValues
  <1>2. QED
    BY <1>1 DEF HeadType, HeadValues

\* more of the comment is saved
LEMMA HeadCommentIs ==
    ASSUME HeadType, NEW x \in Nat
    PROVE  LET h == [head EXCEPT !["comment"] = x]
           IN  /\ h \in HeadValues /\ h.on = head.on /\ h.done = head.done /\ h.exlen = head.exlen
               /\ h.extra = head.extra /\ h.name = head.name /\ h.comment = x
  <1>1. [head EXCEPT !["comment"] = x] \in HeadValues
    BY DEF HeadType, HeadValues
  <1>2. QED
    BY <1>1 DEF HeadType, HeadValues

\* inflateGetHeader's fresh gz_header
LEMMA FreshHead ==
  LET h == [NoHead EXCEPT !.on = TRUE]
  IN  /\ h \in HeadValues /\ h.on = TRUE /\ h.done = 0 /\ h.extra = 0
      /\ NoHead \in HeadValues /\ NoHead.on = FALSE /\ NoHead.done = 0 /\ NoHead.extra = 0
  <1>1. NoHead \in HeadValues
    BY DEF NoHead, HeadValues
  <1>2. NoHead.on = FALSE /\ NoHead.done = 0 /\ NoHead.extra = 0
    BY DEF NoHead
  <1>3. [NoHead EXCEPT !.on = TRUE] \in HeadValues
    BY <1>1 DEF HeadValues
  <1>4. [NoHead EXCEPT !.on = TRUE].on = TRUE
    BY <1>1 DEF HeadValues
  <1>5. [NoHead EXCEPT !.on = TRUE].done = 0 /\ [NoHead EXCEPT !.on = TRUE].extra = 0
    BY <1>1, <1>2 DEF HeadValues
  <1>6. QED
    BY <1>1, <1>2, <1>3, <1>4, <1>5

\* Bits of the codes a symbol of a block may start with
FirstCodes == LitCodes \cup EndCodes \cup {c[1] : c \in LenCodes}

\* The code decoded in LEN
LEMMA LenSymbol ==
    ASSUME SymType, Calling, mode \in {"LEN_", "LEN"},
           NEW s \in Symbols \cup (IF sym.k = "none" THEN {} ELSE {sym}), sym.k # "none" => s = sym
    PROVE  /\ s \in [k : {"lit", "end", "len"}, n : 1..15, x : 0..5]
           /\ s.n \in FirstCodes \/ sym.k # "none"
  <1>1. CASE sym.k # "none"
    <2>1. s = sym /\ sym.k \in {"len", "lit", "end"} /\ mode = "LEN"
      BY <1>1 DEF Calling, InCall, Begun, SymType, SymKinds
    <2>2. sym.n \in 1..15 /\ sym.x \in 0..5
      BY <1>1, <2>1 DEF Calling, InCall, Begun
    <2>3. QED
      BY <1>1, <2>1, <2>2 DEF SymType
  <1>2. CASE sym.k = "none"
    <2>1. s \in Symbols
      BY <1>2
    <2>2. CASE \E c \in LitCodes : s = [k |-> "lit", n |-> c, x |-> 0]
      BY <2>2, InflateAssumption DEF FirstCodes
    <2>3. CASE \E c \in EndCodes : s = [k |-> "end", n |-> c, x |-> 0]
      BY <2>3, InflateAssumption DEF FirstCodes
    <2>4. CASE \E c \in LenCodes : s = [k |-> "len", n |-> c[1], x |-> c[2]]
      <3>1. PICK c \in LenCodes : s = [k |-> "len", n |-> c[1], x |-> c[2]]
        BY <2>4
      <3>2. c[1] \in 1..15 /\ c[2] \in 0..5
        BY InflateAssumption
      <3>3. c[1] \in FirstCodes
        BY DEF FirstCodes
      <3>4. QED
        BY <3>1, <3>2, <3>3
    <2>5. QED
      BY <2>1, <2>2, <2>3, <2>4 DEF Symbols
  <1>3. QED
    BY <1>1, <1>2

\* The code decoded in CODELENS
LEMMA LengthSymbol ==
    ASSUME NEW s \in LengthSyms
    PROVE  /\ s \in [k : {"len", "rep", "zero"}, n : {4, 12}, x : Nat \ {0}]
           /\ s.k = "rep" => s.n = 4
  <1>1. CASE s = [k |-> "len", n |-> 4, x |-> 1]
    BY <1>1
  <1>2. CASE \E r \in NReps : s = [k |-> "rep", n |-> 2 + 2, x |-> r]
    BY <1>2, InflateAssumption
  <1>3. CASE \E r \in NReps : s = [k |-> "zero", n |-> 5 + 7, x |-> r]
    BY <1>3, InflateAssumption
  <1>4. QED
    BY <1>1, <1>2, <1>3 DEF LengthSyms

-----------------------------------------------------------------------------
(* What the longer steps do, one outcome at a time.                        *)

\* The bits left by a zlib header, accepted or not
LEMMA HeadZlibDoes ==
    ASSUME InTypes, NEW len, NEW dict, HeadZlib(len, dict)
    PROVE  /\ have' \in Nat /\ have' <= have /\ bits' \in Nat /\ pc = "run" /\ fast = "no" /\ mode = "HEAD"
           /\ \/ mode' = "BAD" /\ bits' <= bits + 19
              \/ mode' \in {"DICTID", "TYPE"} /\ bits' = 0
  <1>1. Enough(16) /\ pc = "run" /\ fast = "no" /\ mode = "HEAD"
    BY DEF HeadZlib, Running
  <1>2. CASE Need(16, 4) /\ mode' = "BAD"
    <2>1. /\ have' \in Nat /\ have' <= have /\ bits' \in Nat
          /\ (bits' = bits - 4 /\ have' = have) \/ bits' <= 16 + 7 - 4
      BY <1>1, <1>2, NeedIs
    <2>2. QED
      BY <1>1, <1>2, <2>1 DEF InTypes
  <1>3. CASE TakeAll(16) /\ mode' = IF dict THEN "DICTID" ELSE "TYPE"
    BY <1>1, <1>3, TakeAllIs
  <1>4. QED
    BY <1>2, <1>3 DEF HeadZlib, SetBad

\* The length of the extra field, if there is one
LEMMA ExlenDoes ==
    ASSUME InTypes, NEW n, Exlen(n)
    PROVE  /\ have' \in Nat /\ have' <= have /\ bits' \in Nat
           /\ \/ "extra" \in flags.f /\ bits' = 0
              \/ "extra" \notin flags.f /\ bits' = bits /\ have' = have
  <1>1. CASE "extra" \in flags.f
    <2>1. Enough(16) /\ TakeAll(16)
      BY <1>1, BitsOfIs DEF Exlen, EnoughNow
    <2>2. QED
      BY <1>1, <2>1, TakeAllIs
  <1>2. CASE "extra" \notin flags.f
    BY <1>2 DEF Exlen, InTypes
  <1>3. QED
    BY <1>1, <1>2

\* The header's crc, if there is one
LEMMA HcrcDoes ==
    ASSUME InTypes, NEW good \in BOOLEAN, Hcrc(good)
    PROVE  /\ have' \in Nat /\ have' <= have /\ bits' \in Nat
           /\ \/ /\ "hcrc" \in flags.f /\ "check" \in wrap /\ mode' = "BAD" /\ bits' <= bits + 23
                 /\ ~(good /\ check = [of |-> "head", n |-> hdr])
                 /\ valid' = (IF good THEN valid ELSE "bad") /\ UNCHANGED <<head, check, hdr>>
              \/ /\ mode' = "TYPE" /\ valid' = (IF good THEN valid ELSE "bad")
                 /\ IF "hcrc" \in flags.f THEN bits' = 0 ELSE bits' = bits /\ have' = have
                 /\ ~good => "hcrc" \in flags.f /\ "check" \notin wrap
                 /\ head' = (IF head.on THEN [head EXCEPT !.done = 1] ELSE head)
                 /\ check' = (IF "check" \in wrap THEN NoCheck ELSE check) /\ hdr' = 0
  <1> DEFINE bad == "hcrc" \in flags.f /\ "check" \in wrap
                      /\ ~(good /\ check = [of |-> "head", n |-> hdr])
  <1>1. CASE bad
    <2>1. Enough(16) /\ Need(16, 0) /\ mode' = "BAD" /\ valid' = (IF good THEN valid ELSE "bad")
          /\ UNCHANGED <<head, check, hdr>>
      BY <1>1, BitsOfIs DEF Hcrc, EnoughNow, SetBad
    <2>2. /\ have' \in Nat /\ have' <= have /\ bits' \in Nat
          /\ (bits' = bits - 0 /\ have' = have) \/ bits' <= 16 + 7 - 0
      BY <2>1, NeedIs
    <2>3. bits' <= bits + 23
      BY <2>2 DEF InTypes
    <2>4. QED
      BY <1>1, <2>1, <2>2, <2>3
  <1>2. CASE ~bad
    <2>1. /\ mode' = "TYPE" /\ valid' = (IF good THEN valid ELSE "bad")
          /\ head' = (IF head.on THEN [head EXCEPT !.done = 1] ELSE head)
          /\ check' = (IF "check" \in wrap THEN NoCheck ELSE check) /\ hdr' = 0
          /\ IF "hcrc" \in flags.f THEN TakeAll(16) ELSE UNCHANGED <<have, bits>>
          /\ EnoughNow("HCRC") /\ ("hcrc" \notin flags.f => good)
      BY <1>2 DEF Hcrc
    <2>2. CASE "hcrc" \in flags.f
      <3>1. Enough(16)
        BY <2>1, <2>2, BitsOfIs DEF EnoughNow
      <3>2. have' \in Nat /\ have' <= have /\ bits' = 0
        BY <2>1, <2>2, <3>1, TakeAllIs
      <3>3. QED
        BY <1>2, <2>1, <2>2, <3>2
    <2>3. CASE "hcrc" \notin flags.f
      BY <2>1, <2>3 DEF InTypes
    <2>4. QED
      BY <2>2, <2>3
  <1>3. QED
    BY <1>1, <1>2

\* A piece of m bytes of a stored block
LEMMA CopyPiece ==
    ASSUME InTypes, OutTypes, CodeTypes, CountTypes, Copy
    PROVE  \E m \in Nat :
             /\ m <= length /\ m <= have /\ m <= left
             /\ have' = have - m /\ length' = length - m /\ left' = left - m
             /\ hist' = hist + m /\ put' = put + m
             /\ \/ length = 0 /\ mode' = "TYPE" /\ pc' = "run"
                \/ length > 0 /\ mode' = "COPY" /\ m > 0 /\ pc' = "run"
                \/ length > 0 /\ mode' = "COPY" /\ pc' = "leave" /\ m = 0 /\ (have = 0 \/ left = 0)
  <1> DEFINE m == Min2(length, Min2(have, left))
  <1>1. length \in Nat /\ have \in Nat /\ left \in Nat
    BY DEF InTypes, OutTypes, CodeTypes
  <1>2. m \in Nat /\ m <= length /\ m <= have /\ m <= left /\ (m = length \/ m = have \/ m = left)
    BY <1>1, PieceIs
  <1>3. CASE length = 0 /\ mode' = "TYPE" /\ Stay /\ UNCHANGED <<have, length, left, hist, put>>
    <2>1. m = 0
      BY <1>1, <1>2, <1>3
    <2> HIDE DEF m
    <2>2. /\ have' = have - m /\ length' = length - m /\ left' = left - m
      BY <1>1, <1>3, <2>1
    <2>3. hist' = hist + m /\ put' = put + m
      BY <1>3, <2>1 DEF CountTypes
    <2>4. QED
      BY <1>2, <1>3, <2>2, <2>3 DEF Stay
  <1>4. CASE /\ length > 0 /\ mode' = "COPY" /\ (IF m = 0 THEN Leave ELSE Stay)
             /\ have' = have - m /\ length' = length - m /\ PutBytes(m)
    <2> HIDE DEF m
    <2>1. left' = left - m /\ hist' = hist + m /\ put' = put + m
      BY <1>4 DEF PutBytes
    <2>2. CASE m = 0
      <3>1. have = 0 \/ left = 0
        BY <1>1, <1>2, <1>4, <2>2
      <3>2. QED
        BY <1>2, <1>4, <2>1, <2>2, <3>1 DEF Leave
    <2>3. CASE m # 0
      <3>1. m > 0
        BY <1>2, <2>3
      <3>2. QED
        BY <1>2, <1>4, <2>1, <2>3, <3>1 DEF Stay
    <2>4. QED
      BY <2>2, <2>3
  <1>5. QED
    BY <1>3, <1>4 DEF Copy

\* The same, the piece named by the input it uses
LEMMA CopyDoes ==
    ASSUME InTypes, OutTypes, CodeTypes, CountTypes, Copy
    PROVE  LET m == have - have'
           IN  /\ m \in Nat /\ m <= length /\ m <= have /\ m <= left
               /\ have' = have - m /\ length' = length - m /\ left' = left - m
               /\ hist' = hist + m /\ put' = put + m
               /\ \/ length = 0 /\ mode' = "TYPE" /\ pc' = "run" /\ m = 0
                  \/ length > 0 /\ mode' = "COPY" /\ m > 0 /\ pc' = "run"
                  \/ length > 0 /\ mode' = "COPY" /\ pc' = "leave" /\ m = 0 /\ (have = 0 \/ left = 0)
  <1>1. PICK m \in Nat :
             /\ m <= length /\ m <= have /\ m <= left
             /\ have' = have - m /\ length' = length - m /\ left' = left - m
             /\ hist' = hist + m /\ put' = put + m
             /\ \/ length = 0 /\ mode' = "TYPE" /\ pc' = "run"
                \/ length > 0 /\ mode' = "COPY" /\ m > 0 /\ pc' = "run"
                \/ length > 0 /\ mode' = "COPY" /\ pc' = "leave" /\ m = 0 /\ (have = 0 \/ left = 0)
    BY CopyPiece
  <1>2. have - have' = m
    BY <1>1 DEF InTypes
  <1>3. QED
    BY <1>1, <1>2 DEF CodeTypes

\* A code in LEN, whole or begun
LEMMA LenDoes ==
    ASSUME InTypes, SymType, Calling,
           NEW s \in Symbols \cup (IF sym.k = "none" THEN {} ELSE {sym}), Len_(s)
    PROVE  /\ s \in [k : {"lit", "end", "len"}, n : 1..15, x : 0..5]
           /\ sym.k # "none" => sym = s
           /\ s.n \in FirstCodes \/ sym.k # "none"
           /\ have' \in Nat /\ have' <= have /\ bits' \in Nat
           /\ \/ /\ mode' = (IF s.k = "lit" THEN "LIT" ELSE IF s.k = "end" THEN "TYPE" ELSE "LENEXT")
                 /\ sym' = NoSym /\ pc' = "run" /\ extra' = (IF s.k = "len" THEN s.x ELSE extra)
                 /\ (bits >= s.n /\ bits' = bits - s.n) \/ (bits < s.n /\ bits' <= 7)
              \/ /\ mode' = "LEN" /\ sym' = s /\ pc' = "leave" /\ have' = 0 /\ bits' < s.n /\ extra' = extra
  <1>1. /\ s \in [k : {"lit", "end", "len"}, n : 1..15, x : 0..5]
        /\ sym.k # "none" => sym = s
        /\ s.n \in FirstCodes \/ sym.k # "none"
    BY LenSymbol DEF Len_
  <1>2. s.n \in Nat /\ s.k \in {"lit", "end", "len"}
    BY <1>1
  <1>3. CASE Enough(s.n)
    <2>1. /\ Take(s.n) /\ Stay /\ sym' = NoSym
          /\ mode' = CASE s.k = "lit" -> "LIT" [] s.k = "end" -> "TYPE" [] s.k = "len" -> "LENEXT"
          /\ extra' = IF s.k = "len" THEN s.x ELSE extra
      BY <1>3 DEF Len_
    <2>2. /\ have' \in Nat /\ have' <= have /\ bits' \in Nat
          /\ (bits >= s.n /\ bits' = bits - s.n) \/ (bits < s.n /\ bits' <= 7)
      BY <1>2, <1>3, <2>1, TakeIs
    <2>3. mode' = (IF s.k = "lit" THEN "LIT" ELSE IF s.k = "end" THEN "TYPE" ELSE "LENEXT")
      BY <1>2, <2>1
    <2>4. QED
      BY <1>1, <2>1, <2>2, <2>3 DEF Stay
  <1>4. CASE ~Enough(s.n)
    <2>1. Starve /\ sym' = s /\ mode' = "LEN" /\ extra' = extra
      BY <1>4 DEF Len_
    <2>2. have' = 0 /\ bits' \in Nat /\ bits' < s.n /\ pc' = "leave"
      BY <1>2, <1>4, <2>1, StarveIs
    <2>3. have' <= have
      BY <2>2 DEF InTypes
    <2>4. QED
      BY <1>1, <2>1, <2>2, <2>3
  <1>5. QED
    BY <1>3, <1>4

\* A distance code, whole or begun
LEMMA DistDoes ==
    ASSUME InTypes, SymType, Calling, NEW c \in DistCodes, Dist(c)
    PROVE  /\ c[1] \in 1..15 /\ c[2] \in 0..13
           /\ sym.k # "none" => sym.n = c[1] /\ sym.x = c[2]
           /\ have' \in Nat /\ have' <= have /\ bits' \in Nat
           /\ \/ /\ mode' = "DISTEXT" /\ sym' = NoSym /\ pc' = "run" /\ extra' = c[2]
                 /\ (bits >= c[1] /\ bits' = bits - c[1]) \/ (bits < c[1] /\ bits' <= 7)
              \/ /\ mode' = "DIST" /\ sym' = [k |-> "dist", n |-> c[1], x |-> c[2]] /\ pc' = "leave"
                 /\ have' = 0 /\ bits' < c[1] /\ extra' = extra
  <1>1. c[1] \in 1..15 /\ c[2] \in 0..13
    BY InflateAssumption
  <1>2. c[1] \in Nat /\ (sym.k # "none" => sym.n = c[1] /\ sym.x = c[2]) /\ mode = "DIST"
    BY <1>1 DEF Dist, Running
  <1>3. CASE Enough(c[1])
    <2>1. Take(c[1]) /\ Stay /\ sym' = NoSym /\ extra' = c[2] /\ mode' = "DISTEXT"
      BY <1>3 DEF Dist
    <2>2. /\ have' \in Nat /\ have' <= have /\ bits' \in Nat
          /\ (bits >= c[1] /\ bits' = bits - c[1]) \/ (bits < c[1] /\ bits' <= 7)
      BY <1>2, <1>3, <2>1, TakeIs
    <2>3. QED
      BY <1>1, <1>2, <2>1, <2>2 DEF Stay
  <1>4. CASE ~Enough(c[1])
    <2>1. Starve /\ sym' = [k |-> "dist", n |-> c[1], x |-> c[2]] /\ extra' = extra /\ mode' = mode
      BY <1>4 DEF Dist
    <2>2. have' = 0 /\ bits' \in Nat /\ bits' < c[1] /\ pc' = "leave"
      BY <1>2, <1>4, <2>1, StarveIs
    <2>3. have' <= have
      BY <2>2 DEF InTypes
    <2>4. QED
      BY <1>1, <1>2, <2>1, <2>2, <2>3
  <1>5. QED
    BY <1>3, <1>4

\* A piece of m bytes of the extra field
LEMMA ExtraPiece ==
    ASSUME InTypes, CodeTypes, CountTypes, HeadType, Extra
    PROVE  \E m \in Nat :
             /\ m <= have /\ m <= length /\ have' = have - m /\ hdr' = hdr + m
             /\ check' = (IF m > 0 THEN HeadSum(flags.f, m) ELSE check)
             /\ \/ head' = head /\ (head.on => m = 0 \/ head.exlen - length >= ExtraMax)
                \/ /\ head.on /\ head.exlen - length < ExtraMax
                   /\ head' = [head EXCEPT !.extra =
                        IF head.extra = head.exlen - length
                        THEN (head.exlen - length) + Min2(m, ExtraMax - (head.exlen - length)) ELSE -1]
             /\ \/ /\ "extra" \in flags.f /\ m = have /\ m < length /\ length' = length - m
                   /\ mode' = "EXTRA" /\ pc' = "leave"
                \/ /\ "extra" \in flags.f => m = length
                   /\ "extra" \notin flags.f => m = 0
                   /\ length' = 0 /\ mode' = "NAME" /\ pc' = "run"
  <1> DEFINE m  == IF "extra" \in flags.f THEN Min2(length, have) ELSE 0
             at == head.exlen - length
             n  == IF at < ExtraMax THEN Min2(m, ExtraMax - at) ELSE 0
  <1>1. length \in Nat /\ have \in Nat /\ hdr \in Nat /\ ExtraMax \in Nat /\ at \in Int
    BY InflateAssumption DEF InTypes, CodeTypes, CountTypes, HeadType, HeadValues
  <1>2. m \in Nat /\ m <= length /\ m <= have /\ (m < length /\ "extra" \in flags.f => m = have)
    BY <1>1 DEF Min2
  <1>3. /\ have' = have - m /\ hdr' = hdr + m
        /\ check' = (IF m > 0 THEN HeadSum(flags.f, m) ELSE check)
        /\ head' = (IF head.on /\ n > 0
                    THEN [head EXCEPT !.extra = IF head.extra = at THEN at + n ELSE -1] ELSE head)
        /\ IF "extra" \in flags.f /\ m < length
           THEN length' = length - m /\ pc' = "leave" /\ mode' = mode
           ELSE length' = 0 /\ pc' = "run" /\ mode' = "NAME"
        /\ mode = "EXTRA"
    BY DEF Extra, ExtraOffset, Running, Leave, Stay, HeadType, HeadValues
  <1> HIDE DEF m, at
  <1>4. \/ head' = head /\ (head.on => m = 0 \/ at >= ExtraMax)
        \/ /\ head.on /\ at < ExtraMax
           /\ head' = [head EXCEPT !.extra = IF head.extra = at THEN at + Min2(m, ExtraMax - at) ELSE -1]
    <2>1. CASE head.on /\ n > 0
      <3>1. at < ExtraMax /\ n = Min2(m, ExtraMax - at)
        BY <1>1, <2>1
      <3>2. QED
        BY <1>3, <2>1, <3>1
    <2>2. CASE ~(head.on /\ n > 0)
      <3>1. head' = head
        BY <1>3, <2>2
      <3>2. CASE head.on /\ at < ExtraMax
        <4>1. ~(Min2(m, ExtraMax - at) > 0)
          BY <2>2, <3>2
        <4>2. m = 0
          BY <1>1, <1>2, <3>2, <4>1 DEF Min2
        <4>3. QED
          BY <3>1, <4>2
      <3>3. CASE ~(head.on /\ at < ExtraMax)
        BY <1>1, <3>1, <3>3
      <3>4. QED
        BY <3>2, <3>3
    <2>3. QED
      BY <2>1, <2>2
  <1>5. CASE "extra" \in flags.f /\ m < length
    BY <1>2, <1>3, <1>4, <1>5 DEF at
  <1>6. CASE ~("extra" \in flags.f /\ m < length)
    <2>1. "extra" \in flags.f => m = length
      BY <1>1, <1>2, <1>6
    <2>2. "extra" \notin flags.f => m = 0
      BY DEF m
    <2>3. QED
      BY <1>2, <1>3, <1>4, <1>6, <2>1, <2>2 DEF at
  <1>7. QED
    BY <1>5, <1>6

\* The same, the piece named by the input it uses
LEMMA ExtraDoes ==
    ASSUME InTypes, CodeTypes, CountTypes, HeadType, Extra
    PROVE  LET m == have - have'
           IN
             /\ m \in Nat
             /\ m <= have /\ m <= length /\ have' = have - m /\ hdr' = hdr + m
             /\ check' = (IF m > 0 THEN HeadSum(flags.f, m) ELSE check)
             /\ \/ head' = head /\ (head.on => m = 0 \/ head.exlen - length >= ExtraMax)
                \/ /\ head.on /\ head.exlen - length < ExtraMax
                   /\ head' = [head EXCEPT !.extra =
                        IF head.extra = head.exlen - length
                        THEN (head.exlen - length) + Min2(m, ExtraMax - (head.exlen - length)) ELSE -1]
             /\ \/ /\ "extra" \in flags.f /\ m = have /\ m < length /\ length' = length - m
                   /\ mode' = "EXTRA" /\ pc' = "leave"
                \/ /\ "extra" \in flags.f => m = length
                   /\ "extra" \notin flags.f => m = 0
                   /\ length' = 0 /\ mode' = "NAME" /\ pc' = "run"
  <1>1. PICK m \in Nat :
             /\ m <= have /\ m <= length /\ have' = have - m /\ hdr' = hdr + m
             /\ check' = (IF m > 0 THEN HeadSum(flags.f, m) ELSE check)
             /\ \/ head' = head /\ (head.on => m = 0 \/ head.exlen - length >= ExtraMax)
                \/ /\ head.on /\ head.exlen - length < ExtraMax
                   /\ head' = [head EXCEPT !.extra =
                        IF head.extra = head.exlen - length
                        THEN (head.exlen - length) + Min2(m, ExtraMax - (head.exlen - length)) ELSE -1]
             /\ \/ /\ "extra" \in flags.f /\ m = have /\ m < length /\ length' = length - m
                   /\ mode' = "EXTRA" /\ pc' = "leave"
                \/ /\ "extra" \in flags.f => m = length
                   /\ "extra" \notin flags.f => m = 0
                   /\ length' = 0 /\ mode' = "NAME" /\ pc' = "run"
    BY ExtraPiece
  <1>2. have - have' = m
    BY <1>1 DEF InTypes
  <1>3. QED
    BY <1>1, <1>2, Zenon

\* A piece of m bytes of a name or a comment of which r bytes are to come
LEMMA TextPiece ==
    ASSUME InTypes, CodeTypes, CountTypes, SymType, Calling,
           NEW m, NEW field, NEW r \in TextLens \cup {sym.n}, Text(m, field, r)
    PROVE  /\ r \in Nat /\ r > 0 /\ r \in (IF sym.k = "text" THEN {sym.n} ELSE TextLens)
           /\ \E c \in Nat, saved \in Nat :
                /\ c > 0 /\ c <= r /\ c <= have /\ have' = have - c /\ hdr' = hdr + c
                /\ check' = HeadSum(flags.f, c)
                /\ saved = (IF head.on THEN Min2(length + c, TextMax) ELSE length)
                /\ head' = (IF head.on THEN [head EXCEPT ![field] = saved] ELSE head)
                /\ \/ /\ c = have /\ c < r /\ length' = saved /\ sym' = [k |-> "text", n |-> r - c, x |-> 0]
                      /\ mode' = mode /\ pc' = "leave"
                   \/ /\ c = r /\ length' = 0 /\ sym' = NoSym /\ pc' = "run"
                      /\ mode' = (IF m = "NAME" THEN "COMMENT" ELSE "HCRC")
  <1> DEFINE c == Min2(have, r)
             saved == IF head.on THEN Min2(length + c, TextMax) ELSE length
  <1>1. /\ pc = "run" /\ have > 0 /\ r \in (IF sym.k = "text" THEN {sym.n} ELSE TextLens)
        /\ have' = have - c /\ hdr' = hdr + c /\ check' = HeadSum(flags.f, c)
        /\ head' = (IF head.on THEN [head EXCEPT ![field] = saved] ELSE head)
        /\ IF c < r
           THEN /\ length' = saved /\ sym' = [k |-> "text", n |-> r - c, x |-> 0] /\ pc' = "leave"
                /\ mode' = mode
           ELSE /\ sym' = NoSym /\ pc' = "run" /\ length' = 0
                /\ mode' = IF m = "NAME" THEN "COMMENT" ELSE "HCRC"
    BY DEF Text, Running, Leave, Stay
  <1>2. TextLens \subseteq Nat \ {0} /\ TextMax \in Nat
    BY InflateAssumption
  <1>3. r \in Nat /\ r > 0
    <2>1. CASE sym.k = "text"
      BY <1>1, <2>1 DEF Calling, InCall, Begun, SymType
    <2>2. CASE sym.k # "text"
      BY <1>1, <1>2, <2>2
    <2>3. QED
      BY <2>1, <2>2
  <1>4. have \in Nat /\ length \in Nat
    BY DEF InTypes, CodeTypes
  <1>5. c \in Nat /\ c > 0 /\ c <= r /\ c <= have /\ (c < r => c = have) /\ (~(c < r) => c = r)
    BY <1>1, <1>3, <1>4 DEF Min2
  <1> HIDE DEF c
  <1>6. saved \in Nat
    BY <1>2, <1>4, <1>5 DEF Min2
  <1> HIDE DEF saved
  <1>7. saved = (IF head.on THEN Min2(length + c, TextMax) ELSE length)
    BY DEF saved
  <1>8. CASE c < r
    BY <1>1, <1>3, <1>5, <1>6, <1>7, <1>8
  <1>9. CASE ~(c < r)
    BY <1>1, <1>3, <1>5, <1>6, <1>7, <1>9
  <1>10. QED
    BY <1>8, <1>9

\* The bytes of a text that are saved once c more have come
TextSaved(c) == IF head.on THEN Min2(length + c, TextMax) ELSE length

\* The same, the piece named by the input it uses
LEMMA TextDoes ==
    ASSUME InTypes, CodeTypes, CountTypes, SymType, Calling,
           NEW m, NEW field, NEW r \in TextLens \cup {sym.n}, Text(m, field, r)
    PROVE  LET c == have - have'
               saved == TextSaved(c)
           IN
                /\ r \in Nat /\ r > 0 /\ r \in (IF sym.k = "text" THEN {sym.n} ELSE TextLens)
                /\ c \in Nat /\ saved \in Nat
                /\ c > 0 /\ c <= r /\ c <= have /\ have' = have - c /\ hdr' = hdr + c
                /\ check' = HeadSum(flags.f, c)
                /\ head' = (IF head.on THEN [head EXCEPT ![field] = saved] ELSE head)
                /\ \/ /\ c = have /\ c < r /\ length' = saved /\ sym' = [k |-> "text", n |-> r - c, x |-> 0]
                      /\ mode' = mode /\ pc' = "leave"
                   \/ /\ c = r /\ length' = 0 /\ sym' = NoSym /\ pc' = "run"
                      /\ mode' = (IF m = "NAME" THEN "COMMENT" ELSE "HCRC")
  <1>1. /\ r \in Nat /\ r > 0 /\ r \in (IF sym.k = "text" THEN {sym.n} ELSE TextLens)
        /\ \E c \in Nat, saved \in Nat :
                /\ c > 0 /\ c <= r /\ c <= have /\ have' = have - c /\ hdr' = hdr + c
                /\ check' = HeadSum(flags.f, c)
                /\ saved = (IF head.on THEN Min2(length + c, TextMax) ELSE length)
                /\ head' = (IF head.on THEN [head EXCEPT ![field] = saved] ELSE head)
                /\ \/ /\ c = have /\ c < r /\ length' = saved /\ sym' = [k |-> "text", n |-> r - c, x |-> 0]
                      /\ mode' = mode /\ pc' = "leave"
                   \/ /\ c = r /\ length' = 0 /\ sym' = NoSym /\ pc' = "run"
                      /\ mode' = (IF m = "NAME" THEN "COMMENT" ELSE "HCRC")
    BY TextPiece
  <1>2. PICK c \in Nat, saved \in Nat :
                /\ c > 0 /\ c <= r /\ c <= have /\ have' = have - c /\ hdr' = hdr + c
                /\ check' = HeadSum(flags.f, c)
                /\ saved = (IF head.on THEN Min2(length + c, TextMax) ELSE length)
                /\ head' = (IF head.on THEN [head EXCEPT ![field] = saved] ELSE head)
                /\ \/ /\ c = have /\ c < r /\ length' = saved /\ sym' = [k |-> "text", n |-> r - c, x |-> 0]
                      /\ mode' = mode /\ pc' = "leave"
                   \/ /\ c = r /\ length' = 0 /\ sym' = NoSym /\ pc' = "run"
                      /\ mode' = (IF m = "NAME" THEN "COMMENT" ELSE "HCRC")
    BY <1>1
  <1>3. have - have' = c
    BY <1>2 DEF InTypes
  <1>4. TextSaved(c) = saved
    BY <1>2 DEF TextSaved
  <1>5. QED
    BY <1>1, <1>2, <1>3, <1>4, Zenon

\* A code of a table descriptor, whole or begun
LEMMA CodeLenDoes ==
    ASSUME InTypes, SymType, NEW s \in LengthSyms, CodeLen(s)
    PROVE  /\ s \in [k : {"len", "rep", "zero"}, n : {4, 12}, x : Nat \ {0}]
           /\ sym.k # "none" => s = sym
           /\ lens < nlen /\ have' \in Nat /\ have' <= have /\ bits' \in Nat
           /\ \/ /\ sym' = NoSym /\ pc' = "run"
                 /\ \/ /\ lens + s.x <= nlen /\ lens' = lens + s.x /\ mode' = "CODELENS" /\ valid' = valid
                       /\ (bits >= s.n /\ bits' = bits - s.n) \/ (bits < s.n /\ bits' <= 7)
                    \/ mode' = "BAD" /\ valid' = "bad" /\ lens' = lens /\ bits' <= bits + 9
              \/ /\ sym' = s /\ pc' = "leave" /\ have' = 0 /\ bits' < s.n
                 /\ mode' = "CODELENS" /\ valid' = valid /\ lens' = lens
  <1>1. s \in [k : {"len", "rep", "zero"}, n : {4, 12}, x : Nat \ {0}] /\ (s.k = "rep" => s.n = 4)
    BY LengthSymbol
  <1>2. s.n \in {4, 12} /\ s.n \in Nat
    BY <1>1
  <1>3. lens < nlen /\ (sym.k # "none" => s = sym) /\ mode = "CODELENS"
    BY DEF CodeLen, Running
  <1> DEFINE fits == lens + s.x <= nlen /\ (s.k = "rep" => lens > 0)
             d == IF s.k = "rep" /\ lens = 0 THEN s.n - 2 ELSE s.n
  <1>4. CASE Enough(s.n)
    <2>1. /\ sym' = NoSym /\ pc' = "run" /\ Need(s.n, d)
          /\ IF fits THEN lens' = lens + s.x /\ mode' = mode /\ valid' = valid
                     ELSE mode' = "BAD" /\ valid' = "bad" /\ lens' = lens
      BY <1>4 DEF CodeLen, Stay, SetBad
    <2>2. d \in Nat /\ d <= s.n /\ s.n - d <= 2
      BY <1>1, <1>2
    <2>3. /\ have' \in Nat /\ have' <= have /\ bits' \in Nat
          /\ \/ bits >= s.n /\ bits' = bits - d /\ have' = have
             \/ bits < s.n /\ bits' <= s.n + 7 - d
      <3> HIDE DEF d
      <3>1. QED
        BY <1>2, <1>4, <2>1, <2>2, NeedIs
    <2>4. CASE fits
      <3>1. d = s.n
        BY <2>4, <1>3
      <3>2. (bits >= s.n /\ bits' = bits - s.n) \/ (bits < s.n /\ bits' <= 7)
        BY <1>2, <2>3, <3>1
      <3>3. QED
        BY <1>1, <1>3, <2>1, <2>3, <2>4, <3>2
    <2>5. CASE ~fits
      <3>1. bits' <= bits + 9
        <4> HIDE DEF d
        <4>1. QED
          BY <1>2, <2>2, <2>3 DEF InTypes
      <3>2. QED
        BY <1>1, <1>3, <2>1, <2>3, <2>5, <3>1
    <2>6. QED
      BY <2>4, <2>5
  <1>5. CASE ~Enough(s.n)
    <2>1. Starve /\ sym' = s /\ mode' = mode /\ valid' = valid /\ lens' = lens
      BY <1>5 DEF CodeLen
    <2>2. have' = 0 /\ bits' \in Nat /\ bits' < s.n /\ pc' = "leave"
      BY <1>2, <1>5, <2>1, StarveIs
    <2>3. have' <= have
      BY <2>2 DEF InTypes
    <2>4. QED
      BY <1>1, <1>3, <2>1, <2>2, <2>3
  <1>6. QED
    BY <1>4, <1>5

\* A piece of m bytes of a match
LEMMA MatchPiece ==
    ASSUME OutTypes, CodeTypes, CountTypes, Shape, Match
    PROVE  /\ mode = "MATCH" /\ pc = "run" /\ fast = "no"
           /\ \/ left = 0 /\ pc' = "leave" /\ UNCHANGED <<mode, length, offset, left, hist, put, valid, faults>>
              \/ /\ offset - Made > 0 /\ offset - Made > whave /\ left > 0
                 /\ mode' = "BAD" /\ valid' = valid /\ pc' = "run"
                 /\ UNCHANGED <<length, offset, left, hist, put, faults>>
              \/ /\ left > 0 /\ pc' = "run" /\ valid' = valid
                 /\ \E m \in Nat :
                      LET d == offset - Made
                      IN  /\ m <= length /\ m <= left /\ (d > 0 => d <= whave /\ m <= MatchFrom(d).n)
                          /\ left' = left - m /\ hist' = hist + m /\ put' = put + m /\ length' = length - m
                          /\ mode' = (IF length = m THEN "LEN" ELSE "MATCH")
                          /\ offset' = (IF length = m THEN 0 ELSE offset)
                          /\ faults' = faults \cup Fault(d > 0 /\ Misread(MatchFrom(d).from, hist - offset, m),
                                                         "misread")
  <1> DEFINE d == offset - Made
             m == IF d > 0 THEN Min2(MatchFrom(d).n, Min2(length, left)) ELSE Min2(length, left)
  <1>0. mode = "MATCH" /\ pc = "run" /\ fast = "no"
    BY DEF Match, Running
  <1>1. CASE left = 0 /\ Leave /\ UNCHANGED <<mode, length, offset, left, hist, put, valid, faults>>
    BY <1>0, <1>1 DEF Leave
  <1>2. CASE /\ left > 0 /\ d > 0 /\ d > whave
             /\ SetBad(valid) /\ Stay /\ UNCHANGED <<length, offset, left, hist, put, faults>>
    BY <1>0, <1>2 DEF SetBad, Stay
  <1>3. CASE /\ left > 0 /\ (d > 0 => d <= whave)
             /\ faults' = faults \cup Fault(d > 0 /\ Misread(MatchFrom(d).from, hist - offset, m), "misread")
             /\ PutBytes(m) /\ length' = length - m
             /\ mode' = (IF length = m THEN "LEN" ELSE "MATCH")
             /\ offset' = (IF length = m THEN 0 ELSE offset)
             /\ Stay /\ UNCHANGED valid
    <2>1. length \in Nat /\ left \in Nat /\ offset \in Nat /\ out \in Nat /\ wnext \in Nat /\ d \in Int
      BY DEF OutTypes, CodeTypes, Shape, Made
    <2>2. d > 0 => MatchFrom(d).n \in Nat
      BY <2>1 DEF MatchFrom
    <2>3. m \in Nat /\ m <= length /\ m <= left /\ (d > 0 => m <= MatchFrom(d).n)
      <3>1. CASE d > 0
        <4>1. MatchFrom(d).n \in Nat
          BY <2>2, <3>1
        <4>2. QED
          BY <2>1, <3>1, <4>1, PieceIs
      <3>2. CASE ~(d > 0)
        BY <2>1, <3>2 DEF Min2
      <3>3. QED
        BY <3>1, <3>2
    <2> HIDE DEF m, d
    <2>4. left' = left - m /\ hist' = hist + m /\ put' = put + m /\ pc' = "run" /\ valid' = valid
      BY <1>3 DEF PutBytes, Stay
    <2>5. QED
      BY <1>0, <1>3, <2>3, <2>4, Zenon DEF d
  <1>4. QED
    BY <1>1, <1>2, <1>3 DEF Match, Made

\* a piece of m bytes of a match is copied from the wrong place
MatchMisreads(m) ==
  LET d == offset - Made IN d > 0 /\ Misread(MatchFrom(d).from, hist - offset, m)

\* The same, the piece named by the output it makes
LEMMA MatchDoes ==
    ASSUME OutTypes, CodeTypes, CountTypes, Shape, Match
    PROVE  /\ mode = "MATCH" /\ pc = "run" /\ fast = "no"
           /\ \/ left = 0 /\ pc' = "leave" /\ UNCHANGED <<mode, length, offset, left, hist, put, valid, faults>>
              \/ /\ offset - Made > 0 /\ offset - Made > whave /\ left > 0
                 /\ mode' = "BAD" /\ valid' = valid /\ pc' = "run"
                 /\ UNCHANGED <<length, offset, left, hist, put, faults>>
              \/ /\ left > 0 /\ pc' = "run" /\ valid' = valid /\ left - left' \in Nat
                 /\ LET d == offset - Made
                        m == left - left'
                    IN    /\ m <= length /\ m <= left /\ (d > 0 => d <= whave /\ m <= MatchFrom(d).n)
                          /\ left' = left - m /\ hist' = hist + m /\ put' = put + m /\ length' = length - m
                          /\ mode' = (IF length = m THEN "LEN" ELSE "MATCH")
                          /\ offset' = (IF length = m THEN 0 ELSE offset)
                          /\ faults' = faults \cup Fault(MatchMisreads(m), "misread")
  <1>1. /\ mode = "MATCH" /\ pc = "run" /\ fast = "no"
        /\ \/ left = 0 /\ pc' = "leave" /\ UNCHANGED <<mode, length, offset, left, hist, put, valid, faults>>
           \/ /\ offset - Made > 0 /\ offset - Made > whave /\ left > 0
              /\ mode' = "BAD" /\ valid' = valid /\ pc' = "run"
              /\ UNCHANGED <<length, offset, left, hist, put, faults>>
           \/ /\ left > 0 /\ pc' = "run" /\ valid' = valid
                 /\ \E m \in Nat :
                      LET d == offset - Made
                      IN  /\ m <= length /\ m <= left /\ (d > 0 => d <= whave /\ m <= MatchFrom(d).n)
                          /\ left' = left - m /\ hist' = hist + m /\ put' = put + m /\ length' = length - m
                          /\ mode' = (IF length = m THEN "LEN" ELSE "MATCH")
                          /\ offset' = (IF length = m THEN 0 ELSE offset)
                          /\ faults' = faults \cup Fault(d > 0 /\ Misread(MatchFrom(d).from, hist - offset, m),
                                                         "misread")
    BY MatchPiece
  <1>2. ASSUME NEW m \in Nat, left' = left - m PROVE left - left' = m
    BY <1>2 DEF OutTypes
  <1>3. QED
    BY <1>1, <1>2, Zenon DEF MatchMisreads

\* The trailer's check value
LEMMA CheckDoes ==
    ASSUME InTypes, OutTypes, CheckType, CountTypes, NEW good \in BOOLEAN, Check(good)
    PROVE  /\ mode = "CHECK" /\ pc = "run" /\ fast = "no"
           /\ have' \in Nat /\ have' <= have /\ bits' \in Nat /\ bits' <= bits + 39 
           /\ valid' = (IF good THEN valid ELSE "bad") /\ mode' \in {"LENGTH", "BAD"}
           /\ \/ wrap = {} /\ good /\ mode' = "LENGTH" /\ UNCHANGED <<total, out, check, have, bits>>
              \/ /\ wrap # {} /\ total' = total + Made /\ out' = left
                 /\ check' = (IF "check" \in wrap THEN Summed(check, put - Made, put) ELSE check)
                 /\ mode' = "LENGTH" => bits' = 0
                 /\ mode' = "LENGTH" /\ "check" \in wrap => good /\ check' = [of |-> "data", n |-> put]
                 /\ mode' = "BAD" => /\ "check" \in wrap
                                     /\ good => check' # [of |-> "data", n |-> put]
                                     /\ bits' <= 39 \/ bits' = bits
  <1> DEFINE sum  == IF "check" \in wrap THEN Summed(check, put - Made, put) ELSE check
             pass == wrap = {} \/ "check" \notin wrap \/ (good /\ sum = [of |-> "data", n |-> put])
  <1>1. /\ mode = "CHECK" /\ pc = "run" /\ fast = "no" /\ EnoughNow("CHECK") /\ (wrap = {} => good)
        /\ IF wrap = {} THEN UNCHANGED <<total, out, check, have, bits>>
           ELSE /\ total' = total + Made /\ out' = left /\ check' = sum
                /\ IF pass THEN TakeAll(32) ELSE Need(32, 0)
        /\ mode' = (IF pass THEN "LENGTH" ELSE "BAD")
        /\ valid' = (IF good THEN valid ELSE "bad")
    BY DEF Check, Running, Made
  <1>2. CASE wrap = {}
    BY <1>1, <1>2 DEF InTypes
  <1>3. CASE wrap # {}
    <2>1. Enough(32)
      BY <1>1, <1>3, BitsOfIs DEF EnoughNow
    <2>2. CASE pass
      <3>1. have' \in Nat /\ have' <= have /\ bits' = 0
        BY <1>1, <1>3, <2>1, <2>2, TakeAllIs
      <3>2. "check" \in wrap => good /\ sum = [of |-> "data", n |-> put]
        BY <1>3, <2>2
      <3>3. bits' <= bits + 39 /\ bits' \in Nat
        BY <3>1 DEF InTypes
      <3> HIDE DEF sum
      <3>4. QED
        BY <1>1, <1>3, <2>2, <3>1, <3>2, <3>3 DEF sum
    <2>3. CASE ~pass
      <3>1. Need(32, 0)
        BY <1>1, <1>3, <2>3
      <3>2. /\ have' \in Nat /\ have' <= have /\ bits' \in Nat
            /\ (bits' = bits - 0 /\ have' = have) \/ bits' <= 32 + 7 - 0
        BY <2>1, <3>1, NeedIs
      <3>3. bits' <= bits + 39 /\ (bits' <= 39 \/ bits' = bits)
        BY <3>2 DEF InTypes
      <3>4. "check" \in wrap /\ (good => sum # [of |-> "data", n |-> put])
        BY <2>3
      <3>5. mode' = "BAD"
        BY <1>1, <2>3
      <3> HIDE DEF sum
      <3>6. QED
        BY <1>1, <1>3, <3>2, <3>3, <3>4, <3>5 DEF sum
    <2>4. QED
      BY <2>2, <2>3
  <1>4. QED
    BY <1>2, <1>3

-----------------------------------------------------------------------------
(* inflate_fast                                                            *)

Ctrs == [bits : Int, have : Int, left : Int, faults : SUBSET FaultNames]
\* counters of inflate_fast that no fault has been seen in
Fine(s) ==
  s \in Ctrs /\ s.bits \in Nat /\ s.have \in Nat /\ s.left \in Nat /\ s.faults = {}
\* bits loaded and not loaded
Load(s) == 8 * s.have + s.bits

\* The literals of an iteration: at most three, all but the last with short codes.
LEMMA LitRunBits ==
    ASSUME NEW codes \in SUBSET (1..15), NEW c \in LitRuns(codes)
    PROVE  /\ Len(c) \in 0..3 /\ SumOf(c) \in Nat /\ SumOf(c) <= 2 * Root + 15
           /\ ~Complete(c) => Len(c) <= 2 /\ SumOf(c) <= 2 * Root
           /\ c = <<>> => Len(c) = 0 /\ SumOf(c) = 0
           /\ c # <<>> => Len(c) > 0 /\ SumOf(c) >= c[1] /\ c[1] \in codes
           /\ Complete(c) => c # <<>>
  <1>1. CASE c = <<>>
    BY <1>1, FastAssumption DEF SumOf, Complete
  <1>2. ASSUME NEW a \in codes, c = <<a>>
        PROVE  /\ Len(c) = 1 /\ SumOf(c) = a /\ c[1] = a /\ (~Complete(c) => a <= Root) /\ c # <<>>
    BY <1>2, FastAssumption DEF SumOf, Complete
  <1>3. ASSUME NEW a \in codes, NEW b \in codes, a <= Root, c = <<a, b>>
        PROVE  /\ Len(c) = 2 /\ SumOf(c) = a + b /\ c[1] = a /\ (~Complete(c) => b <= Root) /\ c # <<>>
    BY <1>3, FastAssumption DEF SumOf, Complete
  <1>4. ASSUME NEW a \in codes, NEW b \in codes, NEW d \in codes, a <= Root, b <= Root, c = <<a, b, d>>
        PROVE  /\ Len(c) = 3 /\ SumOf(c) = a + b + d /\ c[1] = a /\ Complete(c) /\ c # <<>>
    BY <1>4, FastAssumption DEF SumOf, Complete
  <1>5. \/ c = <<>>
        \/ \E a \in codes : c = <<a>>
        \/ \E a, b \in codes : a <= Root /\ c = <<a, b>>
        \/ \E a, b, d \in codes : a <= Root /\ b <= Root /\ c = <<a, b, d>>
    <2> DEFINE short == {k \in codes : k <= Root}
    <2>1. \/ c = <<>> \/ c \in {<<a>> : a \in codes} \/ c \in short \X codes
          \/ c \in short \X short \X codes
      BY DEF LitRuns
    <2>2. CASE c \in {<<a>> : a \in codes}
      BY <2>2
    <2>3. CASE c \in short \X codes
      <3>1. c = <<c[1], c[2]>> /\ c[1] \in short /\ c[2] \in codes
        BY <2>3
      <3>2. QED
        BY <3>1
    <2>4. CASE c \in short \X short \X codes
      <3>1. c = <<c[1], c[2], c[3]>> /\ c[1] \in short /\ c[2] \in short /\ c[3] \in codes
        BY <2>4
      <3>2. QED
        BY <3>1
    <2>5. QED
      BY <2>1, <2>2, <2>3, <2>4
  <1>6. CASE \E a \in codes : c = <<a>>
    BY <1>2, <1>6, FastAssumption
  <1>7. CASE \E a, b \in codes : a <= Root /\ c = <<a, b>>
    BY <1>3, <1>7, FastAssumption
  <1>8. CASE \E a, b, d \in codes : a <= Root /\ b <= Root /\ c = <<a, b, d>>
    BY <1>4, <1>8, FastAssumption
  <1>9. QED
    BY <1>1, <1>5, <1>6, <1>7, <1>8

\* REFILL conserves what is loaded and not loaded together.
LEMMA RefillKeeps ==
    ASSUME NEW s, Fine(s), s.bits <= 63, s.have >= 8
    PROVE  LET t == Refill(s)
           IN  /\ Fine(t) /\ t.left = s.left /\ Load(t) = Load(s)
               /\ t.bits >= 56 /\ t.bits <= 63
               /\ (s.have >= 15 => t.have >= 8) /\ (s.bits >= 56 => t.have = s.have)
  <1> DEFINE B == 56 + (s.bits % 8)
             H == s.have - (63 - s.bits) \div 8
             t == [s EXCEPT !.bits = B, !.have = H, !.faults = {}]
  <1>1. s.bits \in Nat /\ s.have \in Nat /\ s.left \in Nat /\ s \in Ctrs
    BY DEF Fine
  <1>2. /\ B \in 56..63 /\ H \in Nat /\ 8 * H + B = 8 * s.have + s.bits
        /\ (s.have >= 15 => H >= 8) /\ (s.bits >= 56 => H = s.have)
    BY <1>1
  <1>3. Fault(s.have < 8, "overread") = {}
    BY <1>1 DEF Fault
  <1>4. Refill(s) = t
    BY <1>3 DEF Refill, Fine
  <1> HIDE DEF B, H
  <1>5. t \in Ctrs
    <2>1. s \in Ctrs /\ B \in Int /\ H \in Int
      BY <1>1, <1>2
    <2>2. QED
      BY <2>1 DEF Ctrs
  <1>6. t.bits = B /\ t.have = H
    BY <1>1 DEF Ctrs
  <1>7. t.left = s.left /\ t.faults = {}
    BY <1>1 DEF Ctrs
  <1> HIDE DEF t
  <1>8. Fine(t) /\ Load(t) = 8 * H + B /\ Load(s) = 8 * s.have + s.bits
    BY <1>1, <1>2, <1>5, <1>6, <1>7 DEF Fine, Load
  <1>9. QED
    BY <1>2, <1>4, <1>6, <1>7, <1>8

\* DROPBITS(n) takes n bits off what is loaded.
LEMMA DropKeeps ==
    ASSUME NEW s, NEW n \in Nat, Fine(s), n <= s.bits
    PROVE  LET t == Drop(s, n)
           IN  /\ Fine(t) /\ t.bits = s.bits - n /\ t.have = s.have /\ t.left = s.left
               /\ Load(t) = Load(s) - n
  <1> DEFINE t == [s EXCEPT !.bits = s.bits - n, !.faults = {}]
  <1>1. s.bits \in Nat /\ s.have \in Nat /\ s.left \in Nat /\ s \in Ctrs
    BY DEF Fine
  <1>2. Fault(s.bits < n, "nobits") = {}
    BY <1>1 DEF Fault
  <1>3. Drop(s, n) = t
    BY <1>2 DEF Drop, Fine
  <1>4. t \in Ctrs
    <2>1. s \in Ctrs /\ s.bits - n \in Int
      BY <1>1
    <2>2. QED
      BY <2>1 DEF Ctrs
  <1>5. t.bits = s.bits - n /\ t.have = s.have
    BY <1>1 DEF Ctrs
  <1>6. t.left = s.left /\ t.faults = {}
    BY <1>1 DEF Ctrs
  <1> HIDE DEF t
  <1>7. Fine(t) /\ Load(t) = 8 * t.have + t.bits /\ Load(s) = 8 * s.have + s.bits
    BY <1>1, <1>4, <1>5, <1>6 DEF Fine, Load
  <1>8. QED
    BY <1>1, <1>3, <1>5, <1>6, <1>7

\* n bytes put out
LEMMA EmitKeeps ==
    ASSUME NEW s, NEW n \in Nat, Fine(s), n <= s.left
    PROVE  LET t == Emit(s, n)
           IN  /\ Fine(t) /\ t.bits = s.bits /\ t.have = s.have /\ t.left = s.left - n
               /\ Load(t) = Load(s)
  <1> DEFINE t == [s EXCEPT !.left = s.left - n, !.faults = {}]
  <1>1. s.bits \in Nat /\ s.have \in Nat /\ s.left \in Nat /\ s \in Ctrs
    BY DEF Fine
  <1>2. Fault(s.left < n, "overrun") = {}
    BY <1>1 DEF Fault
  <1>3. Emit(s, n) = t
    BY <1>2 DEF Emit, Fine
  <1>4. t \in Ctrs
    <2>1. s \in Ctrs /\ s.left - n \in Int
      BY <1>1
    <2>2. QED
      BY <2>1 DEF Ctrs
  <1>5. t.bits = s.bits /\ t.have = s.have
    BY <1>1 DEF Ctrs
  <1>6. t.left = s.left - n /\ t.faults = {}
    BY <1>1 DEF Ctrs
  <1> HIDE DEF t
  <1>7. Fine(t) /\ Load(t) = 8 * t.have + t.bits /\ Load(s) = 8 * s.have + s.bits
    BY <1>1, <1>4, <1>5, <1>6 DEF Fine, Load
  <1>8. QED
    BY <1>1, <1>3, <1>5, <1>6, <1>7

\* Up to the literals of an iteration nothing is read or written out of bounds,
\* and enough bits are left for a length code and its extra bits.
LEMMA FastTopKeeps ==
    ASSUME NEW s, Fine(s), s.bits >= Root, s.bits <= 63, s.have >= 15 \/ (s.have >= 8 /\ s.bits >= 56),
           NEW c \in LitRuns(LitCodes), Len(c) <= s.left
    PROVE  LET t == FastTop(s, c)
           IN  /\ Fine(t) /\ t.left = s.left - Len(c) /\ t.have >= 8
               /\ t.bits + SumOf(c) >= 56 /\ t.bits + SumOf(c) <= 63
               /\ Load(t) + SumOf(c) = Load(s)
  <1> DEFINE t1 == Refill(s)
             t2 == Drop(t1, SumOf(c))
             t3 == Emit(t2, Len(c))
             t  == [t3 EXCEPT !.faults = {}]
  <1>0. s.bits \in Nat /\ s.have \in Nat /\ s.left \in Nat /\ s.bits >= 1
    BY FastAssumption DEF Fine
  <1>1. /\ Fine(t1) /\ t1.left = s.left /\ Load(t1) = Load(s)
        /\ t1.bits >= 56 /\ t1.bits <= 63 /\ t1.have >= 8
    BY <1>0, RefillKeeps
  <1>2. Len(c) \in 0..3 /\ SumOf(c) \in Nat /\ SumOf(c) <= 41
    BY LitRunBits, FastAssumption, InflateAssumption
  <1>3. t1.bits \in Nat
    BY <1>1 DEF Fine
  <1> HIDE DEF t1
  <1>4. /\ Fine(t2) /\ t2.bits = t1.bits - SumOf(c) /\ t2.have = t1.have /\ t2.left = t1.left
        /\ Load(t2) = Load(t1) - SumOf(c)
    BY <1>1, <1>2, <1>3, DropKeeps
  <1> HIDE DEF t2
  <1>5. /\ Fine(t3) /\ t3.bits = t2.bits /\ t3.have = t2.have /\ t3.left = t2.left - Len(c)
        /\ Load(t3) = Load(t2)
    BY <1>1, <1>2, <1>4, EmitKeeps
  <1> HIDE DEF t3
  <1>6. t3 \in Ctrs /\ t3.faults = {} /\ t3.bits \in Nat /\ t3.have \in Nat /\ t3.left \in Nat
    BY <1>5 DEF Fine
  <1>7. Fault(s.bits < Root, "nobits") = {}
    BY <1>0, FastAssumption DEF Fault
  <1>8. FastTop(s, c) = t
    BY <1>6, <1>7 DEF FastTop, t1, t2, t3
  <1>9. t \in Ctrs /\ t.faults = {}
    BY <1>6 DEF Ctrs
  <1>10. t.bits = t3.bits /\ t.have = t3.have /\ t.left = t3.left
    BY <1>6 DEF Ctrs
  <1> HIDE DEF t
  <1>11. Fine(t) /\ Load(t) = Load(t3)
    BY <1>6, <1>9, <1>10 DEF Fine, Load
  <1>12. Load(t1) \in Nat
    BY <1>1 DEF Fine, Load
  <1>13. QED
    BY <1>1, <1>2, <1>3, <1>4, <1>5, <1>8, <1>10, <1>11, <1>12

\* A length code and then enough bits for a distance code.
LEMMA FastLenKeeps ==
    ASSUME NEW s, NEW n \in 1..20, Fine(s), s.bits >= n, s.bits <= 63, s.have >= 8
    PROVE  LET t == FastLen(s, n)
           IN  /\ Fine(t) /\ t.left = s.left /\ Load(t) = Load(s) - n
               /\ t.bits >= 28 + Root /\ t.bits <= 63
  <1> DEFINE u == Drop(s, n)
  <1>1. s.bits \in Nat /\ s.have \in Nat /\ n \in Nat
    BY DEF Fine
  <1>2. Fine(u) /\ u.bits = s.bits - n /\ u.have = s.have /\ u.left = s.left /\ Load(u) = Load(s) - n
    BY <1>1, DropKeeps
  <1> HIDE DEF u
  <1>3. CASE u.bits < DistReserve
    <2>1. LET t == Refill(u) IN Fine(t) /\ t.left = u.left /\ Load(t) = Load(u) /\ t.bits >= 56 /\ t.bits <= 63
      BY <1>1, <1>2, RefillKeeps
    <2>2. FastLen(s, n) = Refill(u)
      BY <1>3 DEF FastLen, u
    <2>3. Refill(u).bits \in Nat
      BY <2>1 DEF Fine
    <2>4. QED
      BY <1>2, <2>1, <2>2, <2>3, FastAssumption
  <1>4. CASE ~(u.bits < DistReserve)
    <2>1. FastLen(s, n) = u
      BY <1>4 DEF FastLen, u
    <2>2. QED
      BY <1>1, <1>2, <1>4, <2>1, FastAssumption DEF DistReserve
  <1>5. QED
    BY <1>3, <1>4

-----------------------------------------------------------------------------
(* The steps of inflate_fast.                                              *)

\* The counters at the top of the loop
LEMMA CountersFine ==
    ASSUME InTypes, OutTypes
    PROVE  /\ Fine(Counters) /\ Load(Counters) = 8 * have + bits
           /\ Counters.bits = bits /\ Counters.have = have /\ Counters.left = left
  <1>1. bits \in Int /\ have \in Int /\ left \in Int /\ {} \in SUBSET FaultNames
    BY DEF InTypes, OutTypes
  <1>2. Counters \in Ctrs
    BY <1>1 DEF Counters, Ctrs
  <1>3. Counters.bits = bits /\ Counters.have = have /\ Counters.left = left /\ Counters.faults = {}
    BY DEF Counters
  <1>4. bits \in Nat /\ have \in Nat /\ left \in Nat
    BY DEF InTypes, OutTypes
  <1>5. QED
    BY <1>2, <1>3, <1>4 DEF Fine, Load

\* The loop goes around with its margins, or returns with less than a byte loaded.
LEMMA FastCloses ==
    ASSUME NEW s, NEW m, Fine(s), fast # "no", FastClose(s, m)
    PROVE  /\ mode' = m /\ left' = s.left /\ bits' \in Nat /\ have' \in Nat
           /\ 8 * have' + bits' = Load(s)
           /\ \/ fast' = "no" /\ bits' <= 7
              \/ /\ fast' = fast /\ m = "LEN" /\ bits' = s.bits /\ have' >= INFLATE_FAST_MIN_HAVE
                 /\ left' >= FastRoom(fast)
  <1>1. s \in Ctrs /\ s.bits \in Nat /\ s.have \in Nat /\ s.left \in Nat
    BY DEF Fine
  <1>2. CASE FastStops(s, fast, m)
    <2> DEFINE t == [s EXCEPT !.bits = s.bits % 8, !.have = s.have + s.bits \div 8]
    <2>1. FastReturn(s) = t
      BY <1>1 DEF FastReturn, Ctrs
    <2>2. t.bits = s.bits % 8 /\ t.have = s.have + s.bits \div 8 /\ t.left = s.left
      BY <1>1 DEF Ctrs
    <2>3. /\ mode' = m /\ left' = s.left /\ fast' = "no"
          /\ bits' = s.bits % 8 /\ have' = s.have + s.bits \div 8
      BY <1>2, <2>1, <2>2 DEF FastClose
    <2>4. \A b, h \in Nat : /\ b % 8 \in Nat /\ b % 8 <= 7 /\ h + b \div 8 \in Nat
                           /\ 8 * (h + b \div 8) + (b % 8) = 8 * h + b
      OBVIOUS
    <2>5. QED
      BY <1>1, <2>3, <2>4 DEF Load
  <1>3. CASE ~FastStops(s, fast, m)
    <2>1. mode' = m /\ left' = s.left /\ fast' = fast /\ bits' = s.bits /\ have' = s.have
      BY <1>3 DEF FastClose
    <2>2. m = "LEN" /\ s.have >= INFLATE_FAST_MIN_HAVE /\ s.left >= FastRoom(fast)
      BY <1>1, <1>3, FastAssumption
        DEF FastStops, INFLATE_FAST_MIN_HAVE, FastRoom, INFLATE_FAST_MIN_LEFT, INFLATE_FAST_MIN_SAFE
    <2>3. QED
      BY <1>1, <2>1, <2>2 DEF Load
  <1>4. QED
    BY <1>2, <1>3

\* One code uses up what was loaded beyond the caller's input.
LEMMA LoadDrops ==
    ASSUME InTypes, SymType, Margins, fast # "no",
           NEW n \in FirstCodes, sym.k # "none" => sym.n = n,
           NEW L \in Int, L + n <= 8 * have + bits
    PROVE  L <= 8 * in + 7
  <1>1. n \in Nat /\ PrimeMax \in Nat /\ PrimeMax <= n + 10
    BY InflateAssumption DEF FirstCodes
  <1>2. bits \in Nat /\ have \in Nat /\ in \in Nat
    BY DEF InTypes
  <1>3. CASE sym.k = "none"
    <2>1. 8 * have + bits <= 8 * in + 7 \/ 8 * have + bits + 3 <= 8 * in + PrimeMax
      BY <1>3 DEF Margins
    <2>2. QED
      BY <1>1, <1>2, <2>1
  <1>4. CASE sym.k # "none"
    <2>1. 8 * have + bits < 8 * in + n
      BY <1>4 DEF Margins
    <2>2. QED
      BY <1>1, <1>2, <2>1
  <1>5. QED
    BY <1>3, <1>4

\* What an iteration does to the input and the output; it puts out n bytes.
FastStep(n) ==
  /\ n \in 0..left /\ left' = left - n /\ hist' = hist + n /\ put' = put + n
  /\ bits' \in Nat /\ have' \in Nat /\ 8 * have' + bits' <= 8 * in + 7
  /\ \/ fast' = "no" /\ bits' <= 7
     \/ /\ fast' = fast /\ mode' = "LEN" /\ bits' \in Root..63 /\ have' >= INFLATE_FAST_MIN_HAVE
        /\ left' >= FastRoom(fast)
  /\ sym' = NoSym /\ in' = in /\ out' = out /\ pc' = pc /\ ret' = ret

Iterating == InTypes /\ OutTypes /\ CountTypes /\ SymType /\ Margins /\ fast \in {"full", "safe"}

\* The literals of an iteration fit in the output; the loads of its top.
LEMMA FastTopFits ==
    ASSUME Iterating, NEW c \in LitRuns(LitCodes)
    PROVE  LET t == FastTop(Counters, c)
           IN  /\ Len(c) \in 0..3 /\ Len(c) <= left /\ SumOf(c) \in Nat
               /\ SumOf(c) <= 41 /\ (~Complete(c) => SumOf(c) <= 26 /\ Len(c) <= 2)
               /\ (c # <<>> => SumOf(c) >= c[1] /\ c[1] \in LitCodes /\ c[1] \in Nat)
               /\ Fine(t) /\ t.left = left - Len(c) /\ t.have >= 8
               /\ t.bits + SumOf(c) >= 56 /\ t.bits + SumOf(c) <= 63
               /\ Load(t) + SumOf(c) = 8 * have + bits
  <1>1. /\ Len(c) \in 0..3 /\ SumOf(c) \in Nat /\ SumOf(c) <= 41
        /\ (~Complete(c) => SumOf(c) <= 26 /\ Len(c) <= 2)
        /\ (c # <<>> => SumOf(c) >= c[1] /\ c[1] \in LitCodes)
    BY LitRunBits, FastAssumption, InflateAssumption
  <1>2. c # <<>> => c[1] \in Nat
    <2>1. LitCodes \subseteq Nat
      BY InflateAssumption
    <2>2. QED
      BY <1>1, <2>1
  <1>3. left >= 3 /\ left \in Nat /\ bits \in Root..63 /\ (have >= 15 \/ (have >= 8 /\ bits >= 56))
    BY FastAssumption DEF Iterating, Margins, FastRoom, INFLATE_FAST_MIN_LEFT, INFLATE_FAST_MIN_SAFE,
       INFLATE_FAST_MIN_HAVE, OutTypes
  <1>4. /\ Fine(Counters) /\ Load(Counters) = 8 * have + bits
        /\ Counters.bits = bits /\ Counters.have = have /\ Counters.left = left
    BY CountersFine DEF Iterating
  <1>5. bits >= Root /\ bits <= 63 /\ Len(c) <= left
    <2>1. Root \in Int
      BY FastAssumption
    <2>2. PICK k \in 0..3 : Len(c) = k
      BY <1>1
    <2>3. QED
      BY <1>3, <2>1, <2>2
  <1>6. LET t == FastTop(Counters, c)
        IN  /\ Fine(t) /\ t.left = left - Len(c) /\ t.have >= 8
            /\ t.bits + SumOf(c) >= 56 /\ t.bits + SumOf(c) <= 63
            /\ Load(t) + SumOf(c) = 8 * have + bits
    BY <1>3, <1>4, <1>5, FastTopKeeps
  <1>7. QED
    BY <1>1, <1>2, <1>5, <1>6

\* FastLits decodes literals only.
LEMMA FastLitsStep ==
    ASSUME Iterating, NEW c \in LitRuns(LitCodes), FastLits(c)
    PROVE  FastStep(Len(c)) /\ mode' = "LEN" /\ faults' = faults /\ valid' = valid
  <1> DEFINE t == FastTop(Counters, c)
  <1>1. /\ Len(c) \in 0..3 /\ Len(c) <= left /\ SumOf(c) \in Nat /\ SumOf(c) <= 41
        /\ (c # <<>> => SumOf(c) >= c[1] /\ c[1] \in LitCodes /\ c[1] \in Nat)
        /\ Fine(t) /\ t.left = left - Len(c) /\ t.have >= 8
        /\ t.bits + SumOf(c) >= 56 /\ t.bits + SumOf(c) <= 63
        /\ Load(t) + SumOf(c) = 8 * have + bits
    BY FastTopFits
  <1>2. c # <<>>
    BY LitRunBits, InflateAssumption DEF FastLits
  <1>3. t.faults = {} /\ t.bits \in Nat /\ t.have \in Nat /\ Load(t) \in Nat
    BY <1>1 DEF Fine, Load
  <1> HIDE DEF t
  <1>4. FastClose(t, "LEN") /\ faults' = faults \cup t.faults /\ Resumes(c, "lit", 0, 0)
    BY DEF FastLits, t
  <1>5. sym.k # "none" => sym.n = c[1]
    BY <1>2, <1>4 DEF Resumes
  <1>6. Load(t) <= 8 * in + 7
    <2>1. c[1] \in FirstCodes /\ Load(t) \in Int
      BY <1>1, <1>2, <1>3 DEF FirstCodes
    <2>2. Load(t) + c[1] <= 8 * have + bits
      BY <1>1, <1>2, <1>3 DEF Iterating, InTypes
    <2>3. QED
      BY <1>5, <2>1, <2>2, LoadDrops DEF Iterating
  <1>7. /\ mode' = "LEN" /\ left' = t.left /\ bits' \in Nat /\ have' \in Nat
        /\ 8 * have' + bits' = Load(t)
        /\ \/ fast' = "no" /\ bits' <= 7
           \/ /\ fast' = fast /\ bits' = t.bits /\ have' >= INFLATE_FAST_MIN_HAVE
              /\ left' >= FastRoom(fast)
    BY <1>1, <1>4, FastCloses DEF Iterating
  <1>8. t.bits \in Root..63
    BY <1>1, <1>3, FastAssumption
  <1>9. /\ hist' = hist + Len(c) /\ put' = put + Len(c) /\ sym' = NoSym /\ valid' = valid
        /\ in' = in /\ out' = out /\ pc' = pc /\ ret' = ret
    BY DEF FastLits, callVars
  <1>10. Len(c) \in 0..left /\ left' = left - Len(c)
    BY <1>1, <1>7 DEF Iterating, OutTypes
  <1>11. faults' = faults
    BY <1>3, <1>4
  <1>12. QED
    BY <1>6, <1>7, <1>8, <1>9, <1>10, <1>11 DEF FastStep

\* What every iteration that ends in t with Len(c) + n bytes put out does; k is its
\* first code.
LEMMA FastStepIs ==
    ASSUME Iterating, NEW t, NEW m, NEW n \in 0..left, NEW k \in FirstCodes,
           Fine(t), t.left = left - n, t.bits >= Root, t.bits <= 63, Load(t) + k <= 8 * have + bits,
           sym.k # "none" => sym.n = k, FastClose(t, m),
           hist' = hist + n, put' = put + n, sym' = NoSym,
           in' = in, out' = out, pc' = pc, ret' = ret
    PROVE  FastStep(n) /\ mode' = m
  <1>1. t.bits \in Nat /\ Load(t) \in Int /\ Root \in Nat
    BY FastAssumption DEF Fine, Load
  <1>2. Load(t) <= 8 * in + 7
    BY <1>1, LoadDrops DEF Iterating
  <1>3. /\ mode' = m /\ left' = t.left /\ bits' \in Nat /\ have' \in Nat
        /\ 8 * have' + bits' = Load(t)
        /\ \/ fast' = "no" /\ bits' <= 7
           \/ /\ fast' = fast /\ m = "LEN" /\ bits' = t.bits /\ have' >= INFLATE_FAST_MIN_HAVE
              /\ left' >= FastRoom(fast)
    BY FastCloses DEF Iterating
  <1>4. t.bits \in Root..63
    BY <1>1
  <1>5. QED
    BY <1>2, <1>3, <1>4 DEF FastStep

\* FastEnd takes a code of n bits after the literals.
LEMMA FastEndStep ==
    ASSUME Iterating, NEW c \in LitRuns(LitCodes), NEW n \in EndCodes, NEW good \in BOOLEAN,
           FastEnd(c, n, good)
    PROVE  /\ FastStep(Len(c)) /\ faults' = faults
           /\ mode' = IF good THEN "TYPE" ELSE "BAD"
           /\ valid' = IF good THEN valid ELSE "bad"
  <1> DEFINE t == FastTop(Counters, c)
             u == Drop(t, n)
             k == IF c = <<>> THEN n ELSE c[1]
  <1>1. /\ Len(c) \in 0..3 /\ Len(c) <= left /\ SumOf(c) \in Nat
        /\ (~Complete(c) => SumOf(c) <= 26 /\ Len(c) <= 2)
        /\ (c # <<>> => SumOf(c) >= c[1] /\ c[1] \in LitCodes /\ c[1] \in Nat)
        /\ Fine(t) /\ t.left = left - Len(c)
        /\ t.bits + SumOf(c) >= 56 /\ t.bits + SumOf(c) <= 63
        /\ Load(t) + SumOf(c) = 8 * have + bits
    BY FastTopFits
  <1>2. /\ ~Complete(c) /\ Resumes(c, IF good THEN "end" ELSE "bad", n, 0)
        /\ FastClose(u, IF good THEN "TYPE" ELSE "BAD") /\ faults' = faults \cup u.faults
        /\ valid' = IF good THEN valid ELSE "bad"
        /\ hist' = hist + Len(c) /\ put' = put + Len(c) /\ sym' = NoSym
        /\ in' = in /\ out' = out /\ pc' = pc /\ ret' = ret
    BY DEF FastEnd, callVars, Iterates
  <1>3. t.bits \in Nat /\ t.have \in Nat /\ n \in 1..15 /\ Load(t) \in Int
    BY <1>1, InflateAssumption, SMTT(20) DEF Fine, Load
  <1>4. t.bits >= 30 /\ t.bits <= 63
    BY <1>1, <1>2, <1>3
  <1> HIDE DEF t
  <1>5. /\ Fine(u) /\ u.bits = t.bits - n /\ u.left = t.left /\ Load(u) = Load(t) - n
    <2>1. n \in Nat /\ n <= t.bits
      BY <1>3, <1>4
    <2>2. QED
      BY <1>1, <2>1, DropKeeps
  <1>6. u.faults = {}
    BY <1>5 DEF Fine
  <1> HIDE DEF u
  <1>7. u.bits >= Root /\ u.bits <= 63 /\ u.left = left - Len(c)
    <2>1. u.bits >= Root /\ u.bits <= 63
      BY <1>3, <1>4, <1>5, FastAssumption
    <2>2. QED
      BY <1>1, <1>5, <2>1
  <1>8. Len(c) \in 0..left
    BY <1>1 DEF Iterating, OutTypes
  <1>9. k \in FirstCodes
    BY <1>1 DEF FirstCodes
  <1>10. Load(u) + k <= 8 * have + bits
    BY <1>1, <1>3, <1>5, SMTT(20) DEF Iterating, InTypes
  <1>11. sym.k # "none" => sym.n = k
    BY <1>2 DEF Resumes
  <1> HIDE DEF k
  <1>12. FastStep(Len(c)) /\ mode' = IF good THEN "TYPE" ELSE "BAD"
    BY <1>2, <1>5, <1>7, <1>8, <1>9, <1>10, <1>11, FastStepIs
  <1>13. QED
    BY <1>2, <1>6, <1>12

\* An iteration up to its distance code, of n bits at most 28 with its extra bits
LEMMA FastLenFits ==
    ASSUME Iterating, NEW c \in LitRuns(LitCodes), NEW l \in LenCodes, NEW n \in 1..28, ~Complete(c),
           Resumes(c, "len", l[1], l[2])
    PROVE  LET t == Drop(FastLen(FastTop(Counters, c), l[1] + l[2]), n)
               k == IF c = <<>> THEN l[1] ELSE c[1]
           IN  /\ Fine(t) /\ t.bits >= Root /\ t.bits <= 63 /\ t.left = left - Len(c) /\ Len(c) \in 0..left
               /\ k \in FirstCodes /\ Load(t) + k <= 8 * have + bits
               /\ sym.k # "none" => sym.n = k
  <1> DEFINE t == FastTop(Counters, c)
             u == FastLen(t, l[1] + l[2])
             w == Drop(u, n)
             k == IF c = <<>> THEN l[1] ELSE c[1]
  <1>1. /\ Len(c) \in 0..3 /\ Len(c) <= left /\ SumOf(c) \in Nat /\ SumOf(c) <= 26
        /\ (c # <<>> => SumOf(c) >= c[1] /\ c[1] \in LitCodes /\ c[1] \in Nat)
        /\ Fine(t) /\ t.left = left - Len(c) /\ t.have >= 8
        /\ t.bits + SumOf(c) >= 56 /\ t.bits + SumOf(c) <= 63
        /\ Load(t) + SumOf(c) = 8 * have + bits
    BY FastTopFits
  <1>2. l[1] \in 1..15 /\ l[2] \in 0..5 /\ l[1] + l[2] \in 1..20
    <2>1. l \in (1..15) \X (0..5)
      BY InflateAssumption
    <2>2. l[1] \in 1..15 /\ l[2] \in 0..5
      BY <2>1
    <2>3. QED
      BY <2>2
  <1>3. t.bits \in Nat /\ t.have \in Nat /\ Load(t) \in Int
    BY <1>1 DEF Fine, Load
  <1>4. t.bits >= 30 /\ t.bits <= 63
    BY <1>1, <1>3
  <1> HIDE DEF t
  <1>5. l[1] + l[2] <= t.bits
    BY <1>2, <1>3, <1>4
  <1>6. /\ Fine(u) /\ u.left = t.left /\ Load(u) = Load(t) - (l[1] + l[2])
        /\ u.bits >= 28 + Root /\ u.bits <= 63
    BY <1>1, <1>2, <1>4, <1>5, FastLenKeeps
  <1>7. u.bits \in Nat /\ Root \in 1..13 /\ n \in Nat
    BY <1>6, FastAssumption DEF Fine
  <1> HIDE DEF u
  <1>8. n <= u.bits
    BY <1>6, <1>7
  <1>9. /\ Fine(w) /\ w.bits = u.bits - n /\ w.left = u.left /\ Load(w) = Load(u) - n
    BY <1>6, <1>7, <1>8, DropKeeps
  <1> HIDE DEF w
  <1>10. w.bits >= Root /\ w.bits <= 63 /\ w.left = left - Len(c)
    BY <1>1, <1>6, <1>7, <1>9, SMTT(20)
  <1>11. Len(c) \in 0..left
    BY <1>1 DEF Iterating, OutTypes
  <1>12. k \in FirstCodes
    BY <1>1 DEF FirstCodes
  <1>13. Load(w) + k <= 8 * have + bits
    <2>1. have \in Nat /\ bits \in Nat
      BY DEF Iterating, InTypes
    <2>2. Load(w) = Load(t) - (l[1] + l[2]) - n
      BY <1>6, <1>9
    <2>3. k \in Nat /\ k <= SumOf(c) + l[1]
      <3>1. CASE c = <<>>
        <4>1. k = l[1] /\ SumOf(c) \in Nat
          BY <1>1, <3>1
        <4>2. QED
          BY <1>2, <4>1
      <3>2. CASE c # <<>>
        <4>1. k = c[1] /\ c[1] \in Nat /\ SumOf(c) >= c[1] /\ SumOf(c) \in Nat
          BY <1>1, <3>2
        <4>2. QED
          BY <1>2, <4>1
      <3>3. QED
        BY <3>1, <3>2
    <2> HIDE DEF k
    <2>4. Load(t) + SumOf(c) = 8 * have + bits /\ SumOf(c) \in Nat
      BY <1>1
    <2>5. l[1] \in Nat /\ l[2] \in Nat /\ n \in Nat
      BY <1>2
    <2>6. QED
      BY <1>3, <2>1, <2>2, <2>3, <2>4, <2>5
  <1>14. sym.k # "none" => sym.n = k
    BY DEF Resumes
  <1>15. QED
    BY <1>9, <1>10, <1>11, <1>12, <1>13, <1>14 DEF w, u, t

\* FastDistBad takes a length and then an invalid distance code.
LEMMA FastDistBadStep ==
    ASSUME Iterating, NEW c \in LitRuns(LitCodes), NEW l \in LenCodes, NEW n \in EndCodes,
           FastDistBad(c, l, n)
    PROVE  FastStep(Len(c)) /\ faults' = faults /\ mode' = "BAD" /\ valid' = "bad"
  <1> DEFINE t == Drop(FastLen(FastTop(Counters, c), l[1] + l[2]), n)
             k == IF c = <<>> THEN l[1] ELSE c[1]
  <1>1. /\ ~Complete(c) /\ Resumes(c, "len", l[1], l[2])
        /\ FastClose(t, "BAD") /\ faults' = faults \cup t.faults /\ valid' = "bad"
        /\ hist' = hist + Len(c) /\ put' = put + Len(c) /\ sym' = NoSym
        /\ in' = in /\ out' = out /\ pc' = pc /\ ret' = ret
    BY DEF FastDistBad, callVars, Iterates
  <1>2. n \in 1..28
    BY InflateAssumption
  <1>3. /\ Fine(t) /\ t.bits >= Root /\ t.bits <= 63 /\ t.left = left - Len(c) /\ Len(c) \in 0..left
        /\ k \in FirstCodes /\ Load(t) + k <= 8 * have + bits
        /\ sym.k # "none" => sym.n = k
    BY <1>1, <1>2, FastLenFits
  <1>4. t.faults = {}
    BY <1>3 DEF Fine
  <1> HIDE DEF t, k
  <1>5. FastStep(Len(c)) /\ mode' = "BAD"
    BY <1>1, <1>3, FastStepIs
  <1>6. QED
    BY <1>1, <1>4, <1>5

\* A match of n bytes, d back, after literals c: how far back it starts in the window,
\* whether it is left to MATCH or refused, the bytes it puts out, and whether one of
\* them is not the byte d back.
BackInWindow(c, d) == d - (out - (left - Len(c)))
TooLong(c, n)      == fast = "safe" /\ n > left - Len(c)
TooFar(c, d)       == BackInWindow(c, d) > 0 /\ BackInWindow(c, d) > whave
Copied(c, n, d)    == IF TooLong(c, n) \/ TooFar(c, d) THEN 0 ELSE n
WrongCopy(c, n, d) ==
  FastMisread(BackInWindow(c, d), (hist + Len(c)) - d, Copied(c, n, d))

\* FastMatch decodes a whole match.
LEMMA FastMatchStep ==
    ASSUME Iterating, NEW c \in LitRuns(LitCodes), NEW l \in LenCodes, NEW n \in Lengths,
           NEW e \in DistCodes, NEW d \in Offsets, FastMatch(c, l, n, e, d)
    PROVE  /\ FastStep(Len(c) + Copied(c, n, d))
           /\ mode' = IF TooLong(c, n) THEN "MATCH" ELSE IF TooFar(c, d) THEN "BAD" ELSE "LEN"
           /\ length' = IF TooLong(c, n) THEN n ELSE length
           /\ offset' = IF TooLong(c, n) THEN d ELSE offset
           /\ valid' = Judge(d, hist + Len(c))
           /\ faults' = faults \cup Fault(WrongCopy(c, n, d), "misread")
  <1> DEFINE s == Drop(FastLen(FastTop(Counters, c), l[1] + l[2]), e[1] + e[2])
             m == Copied(c, n, d)
             t == Emit(s, m)
             k == IF c = <<>> THEN l[1] ELSE c[1]
  <1>1. ~Complete(c) /\ Resumes(c, "len", l[1], l[2])
    BY DEF FastMatch, Iterates
  <1>2. e[1] + e[2] \in 1..28
    <2>1. e \in (1..15) \X (0..13)
      BY InflateAssumption
    <2>2. e[1] \in 1..15 /\ e[2] \in 0..13
      BY <2>1
    <2>3. QED
      BY <2>2
  <1>3. /\ Fine(s) /\ s.bits >= Root /\ s.bits <= 63 /\ s.left = left - Len(c) /\ Len(c) \in 0..left
        /\ k \in FirstCodes /\ Load(s) + k <= 8 * have + bits
        /\ sym.k # "none" => sym.n = k
    BY <1>1, <1>2, FastLenFits
  <1> HIDE DEF k
  <1> DEFINE op    == d - (out - s.left)
             short == fast = "safe" /\ n > s.left
             far   == op > 0 /\ op > whave
             n2    == IF short \/ far THEN 0 ELSE n
  <1>4. /\ sym' = NoSym
        /\ FastClose(Emit(s, n2), IF short THEN "MATCH" ELSE IF far THEN "BAD" ELSE "LEN")
        /\ length' = (IF short THEN n ELSE length)
        /\ offset' = (IF short THEN d ELSE offset)
        /\ valid' = Judge(d, hist + Len(c))
        /\ hist' = hist + Len(c) + n2 /\ put' = put + Len(c) + n2
        /\ faults' = faults \cup Emit(s, n2).faults \cup Fault(FastMisread(op, (hist + Len(c)) - d, n2), "misread")
        /\ in' = in /\ out' = out /\ pc' = pc /\ ret' = ret
    <2>1. /\ sym' = NoSym
          /\ FastClose(Emit(s, n2), IF short THEN "MATCH" ELSE IF far THEN "BAD" ELSE "LEN")
          /\ valid' = Judge(d, hist + Len(c))
      BY Zenon DEF FastMatch
    <2>2. length' = (IF short THEN n ELSE length) /\ offset' = (IF short THEN d ELSE offset)
      BY DEF FastMatch
    <2>3. hist' = hist + Len(c) + n2 /\ put' = put + Len(c) + n2
      BY DEF FastMatch
    <2>4. faults' = faults \cup Emit(s, n2).faults \cup Fault(FastMisread(op, (hist + Len(c)) - d, n2), "misread")
      BY Zenon DEF FastMatch
    <2>5. in' = in /\ out' = out /\ pc' = pc /\ ret' = ret
      BY DEF FastMatch, callVars
    <2>6. QED
      BY <2>1, <2>2, <2>3, <2>4, <2>5
  <1>4a. op = BackInWindow(c, d)
    BY <1>3 DEF BackInWindow
  <1>4b. short <=> TooLong(c, n)
    BY <1>3 DEF TooLong
  <1>4c. far <=> TooFar(c, d)
    BY <1>4a DEF TooFar
  <1>4d. n2 = m
    BY <1>4b, <1>4c DEF Copied
  <1>4e. FastMisread(op, (hist + Len(c)) - d, n2) = WrongCopy(c, n, d)
    BY <1>4a, <1>4d DEF WrongCopy
  <1> HIDE DEF op, short, far, n2, m
  <1>5. /\ sym' = NoSym
        /\ FastClose(t, IF TooLong(c, n) THEN "MATCH" ELSE IF TooFar(c, d) THEN "BAD" ELSE "LEN")
        /\ length' = (IF TooLong(c, n) THEN n ELSE length)
        /\ offset' = (IF TooLong(c, n) THEN d ELSE offset)
        /\ valid' = Judge(d, hist + Len(c))
        /\ hist' = hist + Len(c) + m /\ put' = put + Len(c) + m
        /\ faults' = faults \cup t.faults \cup Fault(WrongCopy(c, n, d), "misread")
        /\ in' = in /\ out' = out /\ pc' = pc /\ ret' = ret
    BY <1>4, <1>4b, <1>4c, <1>4d, <1>4e
  <1> HIDE DEF s
  <1>6. m \in Nat /\ m <= s.left
    <2>1. n \in Nat /\ n <= MaxMatch /\ MaxMatch \in Nat
      BY InflateAssumption, FastAssumption
    <2>2. PICK j \in 0..2 : Len(c) = j
      <3>1. Len(c) \in 0..3 /\ Len(c) <= 2
        BY <1>1, FastTopFits
      <3>2. PICK i \in 0..3 : Len(c) = i
        BY <3>1
      <3>3. i \in 0..2
        BY <3>1, <3>2
      <3>4. QED
        BY <3>2, <3>3
    <2>3. left \in Nat
      BY DEF Iterating, OutTypes
    <2>4. fast = "full" => left >= MaxMatch + 2
      BY DEF Iterating, Margins, FastRoom, INFLATE_FAST_MIN_LEFT
    <2>5. s.left \in Nat
      BY <1>3 DEF Fine
    <2>6. CASE TooLong(c, n) \/ TooFar(c, d)
      BY <2>5, <2>6 DEF Copied, m
    <2>7. CASE ~(TooLong(c, n) \/ TooFar(c, d))
      <3>1. m = n /\ ~TooLong(c, n)
        BY <2>7 DEF Copied, m
      <3>2. s.left = left - j
        BY <1>3, <2>2
      <3>3. CASE fast = "full"
        BY <2>1, <2>3, <2>4, <3>1, <3>2, <3>3
      <3>4. CASE fast = "safe"
        BY <2>1, <2>2, <2>3, <3>1, <3>2, <3>4 DEF TooLong
      <3>5. QED
        BY <3>3, <3>4 DEF Iterating
    <2>8. QED
      BY <2>6, <2>7
  <1> HIDE DEF m
  <1>7. /\ Fine(t) /\ t.bits = s.bits /\ t.left = s.left - m /\ Load(t) = Load(s)
    BY <1>3, <1>6, EmitKeeps
  <1>8. t.faults = {}
    BY <1>7 DEF Fine
  <1> HIDE DEF t
  <1>9. PICK j \in 0..left : Len(c) = j
    BY <1>3
  <1>10. left \in Nat /\ hist \in Nat /\ put \in Nat
    BY DEF Iterating, OutTypes, CountTypes
  <1>11. /\ j + m \in 0..left /\ t.left = left - (j + m)
         /\ hist' = hist + (j + m) /\ put' = put + (j + m)
    <2>1. s.left = left - j
      BY <1>3, <1>9
    <2>2. hist' = hist + j + m /\ put' = put + j + m
      BY <1>5, <1>9
    <2>3. QED
      BY <1>6, <1>7, <1>9, <1>10, <2>1, <2>2
  <1>12. /\ FastStep(j + m)
         /\ mode' = IF TooLong(c, n) THEN "MATCH" ELSE IF TooFar(c, d) THEN "BAD" ELSE "LEN"
    BY <1>3, <1>5, <1>7, <1>11, FastStepIs
  <1>13. faults' = faults \cup Fault(WrongCopy(c, n, d), "misread")
    BY <1>5, <1>8
  <1>14. QED
    BY <1>5, <1>9, <1>12, <1>13 DEF m

\* The call of inflate_fast, its first refill included
LEMMA FastEnterStep ==
    ASSUME InTypes, OutTypes, SymType, Calling, Buffered, FastEnter
    PROVE  /\ mode' = "LEN" /\ fast' \in {"full", "safe"} /\ bits' \in 56..63 /\ have' \in Nat
           /\ have' >= 8 /\ left' >= FastRoom(fast') /\ faults' = faults
           /\ IF sym.k = "none" THEN \/ 8 * have' + bits' <= 8 * in + 7
                                     \/ 8 * have' + bits' + 3 <= 8 * in + PrimeMax
              ELSE 8 * have' + bits' < 8 * in + sym.n
  <1> DEFINE s == Refill(Counters)
  <1>1. /\ pc = "run" /\ fast = "no" /\ mode \in {"LEN_", "LEN"} /\ have >= 15 /\ left >= 3
        /\ mode' = "LEN" /\ fast' = FastKind(left) /\ left' = left
        /\ bits' = s.bits /\ have' = s.have /\ faults' = faults \cup s.faults
    BY DEF FastEnter, FastAllowed, FastStart, Counters, INFLATE_FAST_MIN_HAVE, INFLATE_FAST_MIN_SAFE
  <1>2. bits \in Nat /\ have \in Nat /\ left \in Nat /\ in \in Nat /\ bits <= 39 /\ have <= in
    BY <1>1 DEF InTypes, OutTypes, Buffered, HeldInCode, Calling, InCall, Begun
  <1>3. bits <= 63 /\ have >= 8
    BY <1>1, <1>2
  <1>4. /\ Fine(Counters) /\ Load(Counters) = 8 * have + bits
        /\ Counters.bits = bits /\ Counters.have = have
    BY CountersFine
  <1>5. Fine(s) /\ Load(s) = Load(Counters) /\ s.bits >= 56 /\ s.bits <= 63 /\ s.have >= 8
    BY <1>1, <1>3, <1>4, RefillKeeps
  <1>6. s.bits \in Nat /\ s.have \in Nat /\ s.faults = {} /\ Load(s) = 8 * s.have + s.bits
    BY <1>5 DEF Fine, Load
  <1> HIDE DEF s
  <1>7. bits' \in 56..63 /\ have' \in Nat /\ have' >= 8 /\ 8 * have' + bits' = 8 * have + bits
    BY <1>1, <1>4, <1>5, <1>6
  <1>8. fast' \in {"full", "safe"} /\ left' >= FastRoom(fast')
    BY <1>1, <1>2, FastAssumption DEF FastKind, FastRoom, INFLATE_FAST_MIN_LEFT, INFLATE_FAST_MIN_SAFE
  <1>9. faults' = faults
    BY <1>1, <1>6
  <1>10. CASE sym.k = "none"
    <2>1. bits <= 7 \/ bits + 3 <= PrimeMax
      BY <1>1, <1>10 DEF Buffered, HeldInCode
    <2>2. 8 * have + bits <= 8 * in + 7 \/ 8 * have + bits + 3 <= 8 * in + PrimeMax
      BY <1>2, <2>1, InflateAssumption
    <2>3. QED
      BY <1>1, <1>7, <1>8, <1>9, <1>10, <2>2
  <1>11. CASE sym.k # "none"
    <2>1. sym.k # "text"
      BY <1>1 DEF Calling, InCall, Begun
    <2>2. bits < sym.n /\ sym.n \in Nat
      BY <1>1, <1>11, <2>1 DEF Buffered, HeldInCode, SymType
    <2>3. 8 * have + bits < 8 * in + sym.n
      BY <1>2, <2>2
    <2>4. QED
      BY <1>1, <1>7, <1>8, <1>9, <1>11, <2>3
  <1>12. QED
    BY <1>10, <1>11

\* Outside the modes that may leave one, no code is begun.
LEMMA CodeBegun ==
    ASSUME SymType, Begun
    PROVE  /\ mode \notin {"NAME", "COMMENT", "DIST", "CODELENS", "LEN"} => sym.k = "none"
           /\ mode \in {"NAME", "COMMENT"} => sym.k \in {"none", "text"}
           /\ mode \in {"DIST", "CODELENS", "LEN"} => sym.k # "text"
  BY DEF SymType, SymKinds, Begun

\* The window's content is that of the history as long as neither moves.
LEMMA ContentKept ==
    ASSUME Content, UNCHANGED <<window, wnext, whave, wsize, wbits>>, Base' = Base,
           mode' \in HeadModes \cup BlockModes => mode \in HeadModes \cup BlockModes
    PROVE  Content'
  BY DEF Content, WSizeNow

-----------------------------------------------------------------------------
(* updatewindow.                                                            *)

\* updatewindow leaves wnext inside the window, and at whave until it is full.
LEMMA UpdateShape ==
    ASSUME Shape, wbits <= MaxWBits, NEW len \in Nat, NEW end \in Int, UpdateWindow(len, end), wbits' = wbits
    PROVE  /\ wsize' = WindowOf[wbits] /\ wsize' \in Nat \ {0}
           /\ wnext' \in 0..(wsize' - 1) /\ whave' \in 0..wsize' /\ (whave' < wsize' => wnext' = whave')
           /\ window' \in [0..(WindowOf[MaxWBits] - 1) -> Int]
  <1> DEFINE ws == WSizeNow
             dist == Min2(ws - wnext, len)
  <1>1. ws = WindowOf[wbits] /\ ws \in Nat \ {0} /\ wbits \in 0..MaxWBits
    BY WindowSizes, InflateAssumption DEF Shape, WSizeNow
  <1>2. wnext \in Nat /\ wnext < ws /\ whave \in Nat /\ whave <= ws /\ (whave < ws => wnext = whave)
    BY <1>1 DEF Shape, WSizeNow
  <1>3. wsize' = ws /\ window' = WindowBytes(ws, len, end) /\ wnext' = WindowNext(ws, len) /\ whave' = WindowHave(ws, len)
    BY DEF UpdateWindow
  <1>4. dist \in Nat /\ dist <= len /\ wnext + dist <= ws /\ (dist = len \/ wnext + dist = ws)
    BY <1>1, <1>2 DEF Min2
  <1>5. window' \in [0..(WindowOf[MaxWBits] - 1) -> Int]
    <2>1. window \in [0..(WindowOf[MaxWBits] - 1) -> Int]
      BY DEF Shape
    <2> DEFINE val(i) == IF len >= ws THEN (IF i < ws THEN end - ws + i ELSE window[i])
                         ELSE IF i >= wnext /\ i < wnext + dist THEN end - len + (i - wnext)
                         ELSE IF i < len - dist THEN end - (len - dist) + i
                         ELSE window[i]
    <2>2. window' = [i \in DOMAIN window |-> val(i)]
      BY <1>3 DEF WindowBytes
    <2> HIDE DEF ws, dist
    <2>3. ASSUME NEW i \in 0..(WindowOf[MaxWBits] - 1) PROVE val(i) \in Int
      <3>1. window[i] \in Int /\ i \in Int
        BY <2>1, WindowSizes
      <3>2. QED
        BY <1>1, <1>2, <1>4, <3>1
    <2> HIDE DEF val
    <2>4. QED
      BY <2>1, <2>2, <2>3
  <1>6. wnext' \in 0..(ws - 1) /\ whave' \in 0..ws /\ (whave' < ws => wnext' = whave')
    <2> HIDE DEF ws
    <2>0. WindowNext(ws, len) = (IF len >= ws THEN 0 ELSE IF len > dist THEN len - dist ELSE IF wnext + dist = ws THEN 0 ELSE wnext + dist)
      BY DEF WindowNext
    <2>00. WindowHave(ws, len) = (IF len >= ws \/ len > dist THEN ws ELSE IF whave < ws THEN whave + dist ELSE whave)
      BY DEF WindowHave
    <2> HIDE DEF dist
    <2>1. QED
      BY <1>1, <1>2, <1>3, <1>4, <2>0, <2>00
  <1>7. QED
    BY <1>1, <1>3, <1>5, <1>6

\* If the window held the end of the history, it holds its end after updatewindow
\* has copied len more bytes, in up to two pieces.
LEMMA UpdateHolds ==
    ASSUME Shape, wbits <= MaxWBits, NEW len \in Nat, NEW b \in Nat, wbits' = wbits,
           UpdateWindow(len, b + len),
           whave = Min2(b, WSizeNow), Holds(window, wsize, wnext, whave, b)
    PROVE  whave' = Min2(b + len, wsize') /\ Holds(window', wsize', wnext', whave', b + len)
  <1> DEFINE ws == WSizeNow
             dist == Min2(ws - wnext, len)
             end == b + len
  <1>1. ws = WindowOf[wbits] /\ ws \in Nat \ {0} /\ wbits \in 0..MaxWBits /\ ws <= WindowOf[MaxWBits] /\ WindowOf[MaxWBits] \in Nat
    BY WindowSizes, InflateAssumption DEF Shape, WSizeNow
  <1>2. wnext \in Nat /\ wnext < ws /\ whave \in Nat /\ whave <= ws /\ (whave < ws => wnext = whave)
    BY <1>1 DEF Shape, WSizeNow
  <1>3. wsize' = ws /\ window' = WindowBytes(ws, len, end) /\ wnext' = WindowNext(ws, len) /\ whave' = WindowHave(ws, len)
    BY DEF UpdateWindow
  <1>4. dist \in Nat /\ dist <= len /\ wnext + dist <= ws /\ (dist = len \/ wnext + dist = ws)
    BY <1>1, <1>2 DEF Min2
  <1>5. DOMAIN window = 0..(WindowOf[MaxWBits] - 1)
    BY DEF Shape
  <1>6. \A i \in 0..(whave - 1) : window[i] = IF i < wnext THEN (b - wnext) + i ELSE (b - ws) + (i - wnext)
    <2>1. CASE wsize = 0
      BY <2>1 DEF Shape
    <2>2. CASE wsize # 0
      BY <2>2 DEF Holds, WSizeNow
    <2>3. QED
      BY <2>1, <2>2
  <1>6a. (whave = b /\ b <= ws) \/ (whave = ws /\ ws <= b)
    BY <1>1 DEF Min2
  <1>7. wnext' = (IF len >= ws THEN 0 ELSE IF len > dist THEN len - dist ELSE IF wnext + dist = ws THEN 0 ELSE wnext + dist)
    BY <1>3 DEF WindowNext
  <1>8. whave' = (IF len >= ws \/ len > dist THEN ws ELSE IF whave < ws THEN whave + dist ELSE whave)
    BY <1>3 DEF WindowHave
  <1>9. \A i \in 0..(ws - 1) : window'[i] =
         IF len >= ws THEN (end - ws) + i 
         ELSE IF i >= wnext /\ i < wnext + dist THEN (end - len) + (i - wnext)
         ELSE IF i < len - dist THEN (end - (len - dist)) + i
         ELSE window[i]
    <2> HIDE DEF ws, dist, end
    <2>1. \A i \in 0..(ws - 1) : i \in DOMAIN window
      BY <1>1, <1>5
    <2>2. dist = Min2(ws - wnext, len)
      BY DEF dist
    <2>3. QED
      BY <1>1, <1>3, <2>1, <2>2 DEF WindowBytes
  <1> HIDE DEF ws, dist
  <1>10. whave' = Min2(end, ws)
    BY <1>1, <1>2, <1>4, <1>6a, <1>8 DEF Min2
  <1>11. ASSUME NEW i \in 0..(whave' - 1)
         PROVE window'[i] = IF i < wnext' THEN (end - wnext') + i ELSE (end - ws) + (i - wnext')
    <2>1. whave' \in Nat /\ whave' <= ws /\ i \in 0..(ws - 1)
      BY <1>1, <1>2, <1>4, <1>8, <1>6a
    <2>2. CASE len >= ws
      BY <1>1, <1>7, <1>9, <2>1, <2>2
    <2>3. CASE len < ws /\ len > dist
      <3>1. wnext' = len - dist /\ wnext + dist = ws
        BY <1>1, <1>2, <1>4, <1>7, <2>3
      <3>2. whave = ws \/ wnext = whave
        BY <1>1, <1>2
      <3>3. CASE i >= wnext
        <4>1. window'[i] = (end - len) + (i - wnext)
          BY <1>1, <1>9, <1>2, <1>4, <2>1, <2>3, <3>1, <3>3
        <4>2. ~(i < wnext')
          BY <1>1, <1>2, <1>4, <2>1, <2>3, <3>1, <3>3
        <4>3. QED
          BY <1>1, <1>2, <1>4, <2>1, <2>3, <3>1, <4>1, <4>2
      <3>4. CASE i < wnext /\ i < len - dist
        <4>1. window'[i] = (end - (len - dist)) + i
          BY <1>1, <1>9, <1>2, <1>4, <2>1, <2>3, <3>1, <3>4
        <4>2. QED
          BY <1>1, <1>2, <1>4, <2>1, <2>3, <3>1, <3>4, <4>1
      <3>5. CASE i < wnext /\ ~(i < len - dist)
        <4>1. window'[i] = window[i]
          BY <1>1, <1>9, <1>2, <1>4, <2>1, <2>3, <3>1, <3>5
        <4>2. i \in 0..(whave - 1)
          BY <1>1, <1>2, <2>1, <3>2, <3>5
        <4>3. window[i] = (b - wnext) + i
          BY <1>6, <4>2, <3>5
        <4>4. QED
          BY <1>1, <1>2, <1>4, <2>1, <2>3, <3>1, <3>5, <4>1, <4>3
      <3>6. QED
        BY <1>2, <1>4, <2>1, <3>3, <3>4, <3>5
    <2>4. CASE len < ws /\ len = dist
      <3>1. ~(i < len - dist)
        BY <1>4, <2>1, <2>4
      <3>2. CASE i >= wnext /\ i < wnext + dist
        <4>1. window'[i] = (end - len) + (i - wnext)
          BY <1>1, <1>9, <2>1, <2>4, <3>2
        <4>2. wnext' = (IF wnext + dist = ws THEN 0 ELSE wnext + dist)
          BY <1>1, <1>4, <1>7, <2>4
        <4>3. CASE wnext + dist = ws
          <5>1. wnext' = 0 /\ ~(i < 0)
            BY <4>2, <4>3, <2>1
          <5>2. QED
            BY <1>1, <1>2, <1>4, <2>1, <2>4, <3>2, <4>1, <4>3, <5>1
        <4>4. CASE wnext + dist # ws
          <5>1. wnext' = wnext + len
            BY <4>2, <4>4, <2>4
          <5>2. QED
            BY <1>1, <1>2, <1>4, <2>1, <2>4, <3>2, <4>1, <5>1
        <4>5. QED
          BY <4>3, <4>4
      <3>3. CASE ~(i >= wnext /\ i < wnext + dist)
        <4>1. window'[i] = window[i]
          BY <1>1, <1>9, <2>1, <2>4, <3>1, <3>3
        <4>2. i \in 0..(whave - 1)
          BY <1>1, <1>2, <1>4, <1>8, <2>1, <2>4, <3>3
        <4>3. wnext' = (IF wnext + dist = ws THEN 0 ELSE wnext + dist)
          BY <1>1, <1>4, <1>7, <2>4
        <4>4. window[i] = IF i < wnext THEN (b - wnext) + i ELSE (b - ws) + (i - wnext)
          BY <1>6, <4>2
        <4>5. QED
          BY <1>1, <1>2, <1>4, <1>6a, <2>1, <2>4, <3>3, <4>1, <4>2, <4>3, <4>4
      <3>4. QED
        BY <3>2, <3>3
    <2>5. QED
      BY <1>1, <1>4, <2>2, <2>3, <2>4
  <1>12. QED
    BY <1>3, <1>10, <1>11 DEF Holds
-----------------------------------------------------------------------------
(* What matches read of the window.                                         *)

\* Byte i of a match d bytes back in the window, in MATCH
LEMMA MatchReads ==
    ASSUME Shape, NEW b \in Int, Holds(window, wsize, wnext, whave, b),
           NEW d \in Nat, d > 0, d <= whave, NEW i \in Nat, i < MatchFrom(d).n
    PROVE  /\ MatchFrom(d).from + i \in DOMAIN window
           /\ window[MatchFrom(d).from + i] = (b - d) + i
  <1>1. /\ wsize \in Nat \ {0} /\ wnext \in Nat /\ wnext < wsize /\ whave \in Nat /\ whave <= wsize
        /\ whave < wsize => wnext = whave
        /\ DOMAIN window = 0..(WindowOf[MaxWBits] - 1)
        /\ WindowOf[MaxWBits] \in Nat /\ wsize <= WindowOf[MaxWBits]
    BY WindowSizes, InflateAssumption DEF Shape
  <1>2. \A j \in 0..(whave - 1) : window[j] = IF j < wnext THEN (b - wnext) + j ELSE (b - wsize) + (j - wnext)
    BY DEF Holds
  <1>3. CASE d > wnext
    <2>1. MatchFrom(d).from = wsize - (d - wnext) /\ MatchFrom(d).n = d - wnext
      BY <1>3 DEF MatchFrom
    <2>2. PICK j \in Int : j = MatchFrom(d).from + i
      BY <1>1, <2>1
    <2>3. whave = wsize /\ j \in 0..(whave - 1) /\ ~(j < wnext) /\ j = (wsize - d) + wnext + i
      BY <1>1, <1>3, <2>1, <2>2
    <2>4. window[j] = (b - wsize) + (j - wnext)
      BY <1>2, <2>3
    <2>5. (b - wsize) + (j - wnext) = (b - d) + i
      BY <1>1, <2>3
    <2>6. j \in DOMAIN window
      BY <1>1, <2>3
    <2>7. QED
      BY <2>2, <2>4, <2>5, <2>6
  <1>4. CASE ~(d > wnext)
    <2>1. MatchFrom(d).from = wnext - d /\ MatchFrom(d).n = d
      BY <1>4 DEF MatchFrom
    <2>2. PICK j \in Int : j = MatchFrom(d).from + i
      BY <1>1, <2>1
    <2>3. j \in 0..(whave - 1) /\ j < wnext /\ j = (wnext - d) + i
      BY <1>1, <1>4, <2>1, <2>2
    <2>4. window[j] = (b - wnext) + j
      BY <1>2, <2>3
    <2>5. (b - wnext) + j = (b - d) + i
      BY <1>1, <2>3
    <2>6. j \in DOMAIN window
      BY <1>1, <2>3
    <2>7. QED
      BY <2>2, <2>4, <2>5, <2>6
  <1>5. QED
    BY <1>3, <1>4

\* Byte i of a match op bytes back in the window, in inflate_fast
LEMMA FastReads ==
    ASSUME Shape, NEW b \in Int, Holds(window, wsize, wnext, whave, b),
           NEW op \in Nat, op > 0, op <= whave, NEW i \in Nat, FastSource(op, i) >= 0
    PROVE  window[FastSource(op, i)] = (b - op) + i
  <1>1. /\ wsize \in Nat \ {0} /\ wnext \in Nat /\ wnext < wsize /\ whave \in Nat /\ whave <= wsize
        /\ whave < wsize => wnext = whave
    BY WindowSizes, InflateAssumption DEF Shape
  <1>2. \A j \in 0..(whave - 1) : window[j] = IF j < wnext THEN (b - wnext) + j ELSE (b - wsize) + (j - wnext)
    BY DEF Holds
  <1>3. i < op
    BY <1>1 DEF FastSource
  <1>4. CASE wnext = 0
    <2>1. FastSource(op, i) = (wsize - op) + i
      BY <1>3, <1>4 DEF FastSource
    <2>2. PICK j \in Int : j = FastSource(op, i)
      BY <1>1, <2>1
    <2>3. whave = wsize /\ j \in 0..(whave - 1) /\ ~(j < wnext) /\ j = (wsize - op) + i
      BY <1>1, <1>3, <1>4, <2>1, <2>2
    <2>4. window[j] = (b - wsize) + (j - wnext)
      BY <1>2, <2>3
    <2>5. (b - wsize) + (j - wnext) = (b - op) + i
      BY <1>1, <1>4, <2>3
    <2>6. QED
      BY <2>2, <2>4, <2>5
  <1>5. CASE wnext > 0 /\ wnext >= op
    <2>1. FastSource(op, i) = (wnext - op) + i
      BY <1>3, <1>5 DEF FastSource
    <2>2. PICK j \in Int : j = FastSource(op, i)
      BY <1>1, <2>1
    <2>3. j \in 0..(whave - 1) /\ j < wnext /\ j = (wnext - op) + i
      BY <1>1, <1>3, <1>5, <2>1, <2>2
    <2>4. window[j] = (b - wnext) + j
      BY <1>2, <2>3
    <2>5. (b - wnext) + j = (b - op) + i
      BY <1>1, <2>3
    <2>6. QED
      BY <2>2, <2>4, <2>5
  <1>6. CASE wnext > 0 /\ ~(wnext >= op) /\ i < op - wnext
    <2>1. FastSource(op, i) = (wsize - (op - wnext)) + i
      BY <1>1, <1>6 DEF FastSource
    <2>2. PICK j \in Int : j = FastSource(op, i)
      BY <1>1, <2>1
    <2>3. whave = wsize /\ j \in 0..(whave - 1) /\ ~(j < wnext) /\ j = (wsize - (op - wnext)) + i
      BY <1>1, <1>6, <2>1, <2>2
    <2>4. window[j] = (b - wsize) + (j - wnext)
      BY <1>2, <2>3
    <2>5. (b - wsize) + (j - wnext) = (b - op) + i
      BY <1>1, <2>3
    <2>6. QED
      BY <2>2, <2>4, <2>5
  <1>7. CASE wnext > 0 /\ ~(wnext >= op) /\ ~(i < op - wnext)
    <2>1. FastSource(op, i) = i - (op - wnext)
      BY <1>1, <1>3, <1>7 DEF FastSource
    <2>2. PICK j \in Int : j = FastSource(op, i)
      BY <1>1, <2>1
    <2>3. j \in 0..(whave - 1) /\ j < wnext /\ j = i - (op - wnext)
      BY <1>1, <1>3, <1>7, <2>1, <2>2
    <2>4. window[j] = (b - wnext) + j
      BY <1>2, <2>3
    <2>5. (b - wnext) + j = (b - op) + i
      BY <1>1, <2>3
    <2>6. QED
      BY <2>2, <2>4, <2>5
  <1>8. QED
    BY <1>1, <1>4, <1>5, <1>6, <1>7

=============================================================================
