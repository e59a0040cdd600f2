-------------------------------- MODULE Bits --------------------------------
(* Words of bits: a word is the set of its one bits.                        *)
EXTENDS Integers

Shr(w, n) == {b - n : b \in {x \in w : x >= n}}
Shl(w, n, width) == {b + n : b \in {x \in w : x + n < width}}
Low(w, n) == {b \in w : b < n}
=============================================================================
