-------------------------------- MODULE Loops --------------------------------
(***************************************************************************)
(* Counted loops over a state, for the modules that translate algorithms.  *)
(* Only the model checker uses this module.                                *)
(***************************************************************************)
EXTENDS Integers, Sequences

\* The value x, computed now: TLC would otherwise compute an element of a
\* function again each time it is asked for.
Now(x) == CHOOSE v \in {x} : v = v

\* The state after Step(state, i) for i = 1 .. n, from s0; by halves, so that
\* a long loop is not evaluated as one deep recursion.
Repeat(Step(_, _), s0, n) ==
    LET RECURSIVE Turns(_, _, _)
        Turns(s, a, b) ==
            IF a > b THEN s
            ELSE IF a = b THEN Step(s, a)
            ELSE LET mid == (a + b) \div 2
                 IN  CHOOSE r \in {Turns(t, mid + 1, b) : t \in {Turns(s, a, mid)}} : TRUE
    IN  Turns(s0, 1, n)

\* The same where Step builds a function.
Loop(Step(_, _), s0, n) == Repeat(LAMBDA s, i : Now(Step(s, i)), Now(s0), n)

\* The state when Step is no longer wanted, after at most `most` turns.
While(Test(_), Step(_), s0, most) ==
    Loop(LAMBDA s, i : IF Test(s) THEN Step(s) ELSE s, s0, most)

\* Bytes up to the next address that is a multiple of align.
AlignDiff(addr, align) == (align - (addr % align)) % align

\* The bits of v, least significant first, as a sequence of n bits.
Bits(v, n) == [i \in 1..n |-> (v \div 2^(i - 1)) % 2]

\* Sum of F(x) for x in the interval a .. b.
SumOver(F(_), a, b) == Loop(LAMBDA s, i : s + F(a + i - 1), 0, b - a + 1)

\* A machine word as the set of its one bits, from its hexadecimal digits.
HexDigits(digits) ==
    LET n == Len(digits)
    IN  {b \in 0..(4 * n - 1) : (digits[n - (b \div 4)] \div 2^(b % 4)) % 2 = 1}
=============================================================================
