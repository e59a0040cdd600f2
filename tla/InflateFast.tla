---------------------------- MODULE InflateFast ----------------------------
(***************************************************************************)
(* The bit, input and output arithmetic of inflate_fast() and              *)
(* inflate_fast_safe(): one iteration of the loop decodes up to three      *)
(* literals, or up to two and then a length/distance pair, an end-of-block *)
(* code or an invalid code, with at most two refills and no checks.        *)
(*                                                                         *)
(* s holds the function's counters: bits, have (input not loaded yet) and  *)
(* left (space for output); faults collects what the code must never do.   *)
(***************************************************************************)
EXTENDS Integers, Sequences

CONSTANTS
  Root,      \* MAX_LEN_ROOT_BITS
  MaxMatch   \* the longest match

\* 10 bits in the code; three literals and another lookup fit up to 13.
ASSUME FastAssumption == Root \in 1..13 /\ MaxMatch \in Nat \ {0}

\* Mutant: room for the first of the two refills of an iteration only.
MinHaveOneRefill == 8
INFLATE_FAST_MIN_HAVE == 15
INFLATE_FAST_MIN_LEFT == MaxMatch + 2
INFLATE_FAST_MIN_SAFE == 3

Fault(bad, name) == IF bad THEN {name} ELSE {}

\* REFILL(): 8 bytes are read, (63 ^ bits) >> 3 of them are taken.
Refill(s) ==
  [s EXCEPT !.bits = 56 + (s.bits % 8),
            !.have = s.have - (63 - s.bits) \div 8,
            !.faults = @ \cup Fault(s.have < 8, "overread")]

\* DROPBITS(n)
Drop(s, n) == [s EXCEPT !.bits = @ - n, !.faults = @ \cup Fault(s.bits < n, "nobits")]

\* n bytes of output
Emit(s, n) == [s EXCEPT !.left = @ - n, !.faults = @ \cup Fault(s.left < n, "overrun")]

SumOf(c) == IF Len(c) = 0 THEN 0 ELSE IF Len(c) = 1 THEN c[1]
            ELSE IF Len(c) = 2 THEN c[1] + c[2] ELSE c[1] + c[2] + c[3]

\* The literals an iteration may start with, by the bits of their codes: only a
\* code of the first level is followed by another one in the same iteration.
LitRuns(codes) ==
  LET short == {c \in codes : c <= Root}
  IN  {<<>>} \cup {<<a>> : a \in codes} \cup (short \X codes) \cup (short \X short \X codes)

\* continue: three literals, or one whose code has a second level
Complete(c) == Len(c) = 3 \/ (Len(c) > 0 /\ c[Len(c)] > Root)

\* Before the loop: last, end and the first refill; kind is which of the two functions.
FastKind(left) == IF left >= INFLATE_FAST_MIN_LEFT THEN "full" ELSE "safe"
FastStart(bits, have, left) ==
  Refill([bits |-> bits, have |-> have, left |-> left, faults |-> {}])

\* The lookup and the refill at the top of the loop, then literals c
FastTop(s, c) ==
  LET f == Fault(s.bits < Root, "nobits")
      t == Emit(Drop(Refill(s), SumOf(c)), Len(c))
  IN  [t EXCEPT !.faults = @ \cup f]

\* MAX_BITS + MAX_DIST_EXTRA_BITS + MAX_LEN_ROOT_BITS
DistReserve == 15 + 13 + Root

\* A length of n bits, its extra bits included, and the refill before dodist
FastLen(s, n) ==
  LET t == Drop(s, n)
  IN  IF t.bits < DistReserve THEN Refill(t) ELSE t

\* out < end while this much space is left
FastRoom(kind) == IF kind = "full" THEN INFLATE_FAST_MIN_LEFT ELSE INFLATE_FAST_MIN_SAFE

\* while (in < last && out < end); a break leaves the loop in another mode
FastStops(s, kind, m) ==
  m # "LEN" \/ s.have < INFLATE_FAST_MIN_HAVE \/ s.left < FastRoom(kind)

\* After the loop: unused bytes are returned.
FastReturn(s) == [s EXCEPT !.bits = @ % 8, !.have = @ + s.bits \div 8]
=============================================================================
