-------------------------------- MODULE Itoa --------------------------------
(***************************************************************************)
(* itoa and reverse_string, lib/string/itoa.c: digits are written lowest   *)
(* first and the string is reversed in place through a copy.  A char is    *)
(* represented by its distance from '0', so '-' is -3.  One step is one    *)
(* iteration of a loop.                                                    *)
(***************************************************************************)
EXTENDS Integers, Sequences

CONSTANTS
  IntMin,  \* the smallest int: -2^31 in the code
  Bases,   \* the bases that callers pass: 10 in the code
  ItoaTempSize,  \* the size of temp in vsprintf: 32 bytes for ints of 32 bits
  StackAlign  \* an array on the stack has a multiple of it: 16 bytes on x86-64

ASSUME IntMinAssumption == IntMin \in Int /\ IntMin < 0
ASSUME BasesAssumption  == \A b \in Bases : b \in 2 .. 10

(* What is left of the longest int when n digits have been taken from it.  *)
LeftOfLongest[n \in 0 .. StackAlign - 2] ==
  IF n = 0 THEN -IntMin ELSE LeftOfLongest[n - 1] \div 10

(* The digits of every int, a sign and the NUL fit the bytes that even the *)
(* shortest array on the stack takes, and temp of vsprintf has more.       *)
ASSUME TempAssumption ==
  /\ ItoaTempSize \in Nat /\ StackAlign \in 2 .. ItoaTempSize
  /\ LeftOfLongest[StackAlign - 2] = 0

VARIABLES
  arg, base,  \* the arguments
  num,        \* what is left of num
  negative,   \* a minus sign is due
  str,        \* the string in the caller's buffer, without its NUL
  copy,       \* temp of reverse_string
  c1,         \* the counter of reverse_string
  itoa_pc

itoaVars == <<arg, base, num, negative, str, copy, c1, itoa_pc>>

ItoaInit == /\ arg \in IntMin .. -IntMin - 1 /\ base \in Bases
            /\ num = arg /\ negative = FALSE /\ str = << >>
            /\ copy = << >> /\ c1 = 0 /\ itoa_pc = "sign"

(* -num in an int.  For IntMin it is undefined: the value stays, or a      *)
(* wider or an unsigned register holds the right one.                      *)
Negated(n) == IF n = IntMin THEN {n, -n} ELSE {-n}

Sign == num < 0 /\ base = 10 /\ negative' = TRUE /\ num' \in Negated(num)

Zero == /\ itoa_pc = "sign" /\ num = 0
        /\ str' = <<0>> /\ itoa_pc' = "done"
        /\ UNCHANGED <<arg, base, num, negative, copy, c1>>

TakeSign == /\ itoa_pc = "sign" /\ num # 0
            /\ Sign \/ (~ (num < 0 /\ base = 10) /\ UNCHANGED <<num, negative>>)
            /\ itoa_pc' = "digits"
            /\ UNCHANGED <<arg, base, str, copy, c1>>

(* C's / and %: towards zero, and a remainder with the sign of a.          *)
Quotient(a, b)  == IF a < 0 THEN -((-a) \div b) ELSE a \div b
Remainder(a, b) == a - b * Quotient(a, b)

Digit == /\ itoa_pc = "digits" /\ num # 0
         /\ str' = Append(str, Remainder(num, base))
         /\ num' = Quotient(num, base)
         /\ UNCHANGED <<arg, base, negative, copy, c1, itoa_pc>>

(* temp of reverse_string has n bytes, and strcpy writes the NUL behind    *)
(* them: always one byte too many.  The compiler rounds the room it makes  *)
(* for temp up to StackAlign; without padding the NUL hits what the stack  *)
(* has next.                                                               *)
Padded(n) == n % StackAlign # 0

(* The minus sign and the NUL, and the copy that reverse_string makes.     *)
(* Whatever comes after a NUL that hit something else is "corrupt".        *)
Terminate == /\ itoa_pc = "digits" /\ num = 0
             /\ str' = IF negative THEN Append(str, -3) ELSE str
             /\ copy' = str'
             /\ \/ itoa_pc' = "reverse"
                \/ ~ Padded(Len(str')) /\ itoa_pc' = "corrupt"
             /\ UNCHANGED <<arg, base, num, negative, c1>>

(* A mistake: the last character stays where it is.                        *)
ShortLength == Len(copy) - 2

(* length of reverse_string, an index.                                     *)
LastIndex == Len(copy) - 1

reverse_string ==
  /\ itoa_pc = "reverse"
  /\ IF c1 <= LastIndex
       THEN /\ str' = [str EXCEPT ![c1 + 1] = copy[LastIndex - c1 + 1]]
            /\ c1' = c1 + 1 /\ UNCHANGED itoa_pc
       ELSE itoa_pc' = "done" /\ UNCHANGED <<str, c1>>
  /\ UNCHANGED <<arg, base, num, negative, copy>>

itoa == Zero \/ TakeSign \/ Digit \/ Terminate \/ reverse_string

ItoaSpec == ItoaInit /\ [][itoa]_itoaVars

-----------------------------------------------------------------------------

(* The string is the numeral of the number in the base: it reads back as   *)
(* the number and has no leading zero.  This is so for every int that has  *)
(* a negation, and in the other bases for those that are not negative.     *)
Numeral == IF str[1] = -3 THEN Tail(str) ELSE str

ValueUpTo[k \in 0 .. Len(Numeral)] ==
  IF k = 0 THEN 0 ELSE base * ValueUpTo[k - 1] + Numeral[k]

Value == (IF str[1] = -3 THEN -1 ELSE 1) * ValueUpTo[Len(Numeral)]

IsNumeral ==
  itoa_pc = "done" /\ (arg >= 0 \/ (base = 10 /\ arg # IntMin)) =>
    /\ \A k \in DOMAIN Numeral : Numeral[k] \in 0 .. base - 1
    /\ Value = arg
    /\ Numeral[1] = 0 => arg = 0

(* A decimal conversion fits the buffer that vsprintf passes, also while   *)
(* the digits are still being written, and also for the int that has no    *)
(* negation.                                                               *)
FitsTemp == base = 10 => Len(str) + 1 <= ItoaTempSize

(* In a decimal conversion the byte that reverse_string writes behind its  *)
(* temp is padding.                                                        *)
HitsPadding == base = 10 => itoa_pc # "corrupt"

(* itoa writes the numeral; nothing on the way to it is longer than the    *)
(* caller's buffer, and the copy that is longer than its own overwrites    *)
(* nothing.                                                                *)
WritesNumeral == IsNumeral /\ FitsTemp /\ HitsPadding
=============================================================================
