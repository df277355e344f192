------------------------------ MODULE Vsprintf ------------------------------
(***************************************************************************)
(* vsprintf, lib/stdio/vsprintf.c.  One step is one iteration of the loop  *)
(* over the format, and it always ends with a character of the format that *)
(* is copied as it is.  Numbers go through temp, which x32toa and x64toa   *)
(* do not terminate, so what an earlier conversion left there shows.       *)
(*                                                                         *)
(* A character of the output is a character of the format, or character p  *)
(* of the text of argument k; what the digits are is Itoa's concern.       *)
(***************************************************************************)
EXTENDS Integers, Sequences

CONSTANTS
  Formats,   \* formats: sequences of the characters below
  MaxArguments,  \* arguments that a call passes
  Lengths,   \* how long the text of a decimal or string argument may be
  Hex32,     \* digits that x32toa writes: 8 in the code
  Hex64,     \* digits that x64toa writes: 16 in the code
  TempSize   \* the size of temp: 32 in the code

character == {"%", "c", "d", "x", "l", "s", "."}  \* "." is any other one

ASSUME FormatsAssumption == Formats \subseteq Seq(character)
ASSUME SizesAssumption ==
  /\ Hex32 \in Nat /\ Hex64 \in Nat /\ TempSize \in Nat /\ MaxArguments \in Nat
  /\ Lengths \subseteq Nat /\ 0 < Hex32 /\ Hex32 <= Hex64 /\ Hex64 < TempSize
  /\ \A n \in Lengths : n < TempSize

VARIABLES
  format, lengths,  \* the format and the lengths of the arguments
  i,                \* the position in the format
  taken,            \* arguments taken from the va_list
  temp,             \* the buffer for numbers
  output            \* str of the code; written is its length

vsprintfVars == <<format, lengths, i, taken, temp, output>>

Literal(c)  == <<c, 0, 0>>
Of(k, p)    == <<"argument", k, p>>
NUL         == Literal("NUL")
Text(k, n)  == [p \in 1 .. n |-> Of(k, p)]

VsprintfInit == /\ format \in Formats /\ lengths \in [1 .. MaxArguments -> Lengths]
                /\ i = 0 /\ taken = 0 /\ output = << >>
                /\ temp = [p \in 1 .. TempSize |-> NUL]

(* format[n], which ends with a NUL.                                       *)
At(n) == IF n < Len(format) THEN format[n + 1] ELSE "NUL"

(* The nested switches: what is converted, and the characters skipped.     *)
Kind(n) ==
  CASE At(n + 1) \in {"c", "d", "x", "s"} -> At(n + 1)
    [] At(n + 1) = "l" /\ At(n + 2) = "l" /\ At(n + 3) = "x" -> "llx"
    [] OTHER -> "none"

Width(n) ==
  CASE Kind(n) = "llx" -> 4
    [] Kind(n) \notin {"llx", "none"} -> 2
    [] Kind(n) = "none" /\ At(n + 1) = "l" -> IF At(n + 2) = "l" THEN 3 ELSE 2
    [] OTHER -> 1

(* The text of argument k overwrites the start of temp; only itoa ends it. *)
Overwrite(k, n) == [p \in 1 .. TempSize |-> IF p <= n THEN Of(k, p) ELSE temp[p]]

(* A mistake: itoa leaves the end of the string to its caller.             *)
ItoaUnterminated(k, n) == Overwrite(k, n)

itoa_to_temp(k, n) == [Overwrite(k, n) EXCEPT ![n + 1] = NUL]
x32toa(k)  == Overwrite(k, Hex32)
x64toa(k)  == Overwrite(k, Hex64)

NewTemp(kind, k) == CASE kind = "d"   -> itoa_to_temp(k, lengths[k])
                      [] kind = "x"   -> x32toa(k)
                      [] kind = "llx" -> x64toa(k)
                      [] OTHER        -> temp

(* The characters of temp before its first NUL.                            *)
String(buffer) ==
  SubSeq(buffer, 1, (CHOOSE n \in 1 .. TempSize :
                       buffer[n] = NUL /\ \A p \in 1 .. n - 1 : buffer[p] # NUL) - 1)

Converted(kind, k) == CASE kind = "c"    -> Text(k, 1)
                        [] kind = "s"    -> Text(k, lengths[k])
                        [] kind = "none" -> << >>
                        [] OTHER         -> String(NewTemp(kind, k))

CopyCharacter == /\ At(i) # "%"
                 /\ output' = Append(output, Literal(At(i)))
                 /\ i' = i + 1
                 /\ UNCHANGED <<taken, temp>>

Convert ==
  /\ At(i) = "%"
  /\ LET kind == Kind(i)
         k    == taken + 1
         next == i + Width(i)
     IN  /\ temp' = NewTemp(kind, k)
         /\ output' = output \o Converted(kind, k) \o <<Literal(At(next))>>
         /\ i' = next + 1
         /\ taken' = IF kind = "none" THEN taken ELSE k

vsprintf == /\ i < Len(format)
            /\ CopyCharacter \/ Convert
            /\ UNCHANGED <<format, lengths>>

VsprintfSpec == VsprintfInit /\ [][vsprintf]_vsprintfVars

-----------------------------------------------------------------------------
(* How a format reads in the usual sense of printf: what is printed for    *)
(* its first n characters, the arguments that are taken, the longest       *)
(* number so far, and how many characters still belong to a conversion.    *)
(* It is ok if it has only the conversions above and "%%", an ordinary     *)
(* character after each conversion, an argument for it, and no             *)
(* hexadecimal number after a longer number.                               *)

LengthOf(kind, k) == CASE kind = "c" -> 1 [] kind = "x" -> Hex32
                       [] kind = "llx" -> Hex64 [] OTHER -> lengths[k]

Larger(a, b) == IF a > b THEN a ELSE b

Converts(r, n) ==
  /\ Kind(n) # "none" /\ At(n + Width(n)) \notin {"%", "NUL"} /\ r.taken < MaxArguments
  /\ Kind(n) \in {"x", "llx"} => r.longest <= LengthOf(Kind(n), r.taken + 1)

(* What the character at position n adds to r.                             *)
ReadCharacter(r, n) ==
  IF ~ r.ok THEN r
  ELSE IF r.skip > 0 THEN [r EXCEPT !.skip = @ - 1]
  ELSE IF At(n) # "%" THEN [r EXCEPT !.text = Append(@, Literal(At(n)))]
  ELSE IF At(n + 1) = "%" THEN [r EXCEPT !.text = Append(@, Literal("%")), !.skip = 1]
  ELSE IF ~ Converts(r, n) THEN [r EXCEPT !.ok = FALSE]
  ELSE LET k == r.taken + 1
           length == LengthOf(Kind(n), k)
       IN  [r EXCEPT !.text = @ \o Text(k, length), !.taken = k, !.skip = Width(n) - 1,
                     !.longest = IF Kind(n) \in {"c", "s"} THEN @ ELSE Larger(@, length)]

Reading[n \in 0 .. Len(format)] ==
  IF n = 0 THEN [ok |-> TRUE, text |-> << >>, taken |-> 0, longest |-> 0, skip |-> 0]
  ELSE ReadCharacter(Reading[n - 1], n - 1)

-----------------------------------------------------------------------------

(* For the formats it is for, and as long as no hexadecimal number follows *)
(* a longer one, vsprintf prints each argument once, in its place and in   *)
(* full, copies the rest, and takes exactly the arguments it was given.    *)
(* The formats of the kernel are of this kind.                             *)
PrintsFormat ==
  LET whole == Reading[Len(format)]
  IN  i >= Len(format) /\ whole.ok => output = whole.text /\ taken = whole.taken

(* The scanner looks ahead by up to three characters, and for no format,   *)
(* however it ends, does it go past the NUL.                               *)
StaysInFormat == i <= Len(format) + 1

(* vsprintf prints what a good format says, and reads no format past its   *)
(* end.                                                                    *)
FormatsText == PrintsFormat /\ StaysInFormat
=============================================================================
