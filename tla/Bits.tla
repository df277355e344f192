-------------------------------- MODULE Bits --------------------------------
(***************************************************************************)
(* Words as sets of the numbers of the bits that are 1: | is union, << n   *)
(* is Shift, and (word >> low) & mask is Field.                            *)
(***************************************************************************)
EXTENDS Integers

Shift(word, n)        == {b + n : b \in word}
Field(word, low, high) == {b - low : b \in word \cap (low .. high)}

=============================================================================
