----------------------------- MODULE MCRoutines -----------------------------
(***************************************************************************)
(* Instances of Routines for TLC.                                          *)
(***************************************************************************)
EXTENDS Routines

-----------------------------------------------------------------------------
(* Reading a file: every machine with up to four volumes.                  *)

CONSTANT MaxVolumes

MCMachines == UNION {[1 .. n -> volume] : n \in 0 .. MaxVolumes}

-----------------------------------------------------------------------------
(* The string functions: every memory of five bytes that ends in NUL, of   *)
(* four values, two of them negative chars, and every pair of ranges in    *)
(* it, overlapping and empty ones included.                                *)

Last == 4

MCMemories == {[a \in 0 .. Last |-> IF a = Last THEN 0 ELSE m[a]] :
                 m \in [0 .. Last - 1 -> byte]}

Call(op, dest, src, n) == [op |-> op, dest |-> dest, src |-> src, n |-> n]

Within(dest, src, n) == dest + n <= Last + 1 /\ src + n <= Last + 1

MCCalls ==
  {c \in {Call(op, dest, src, n) : op \in {"memcpy", "memcmp"},
            dest \in 0 .. Last, src \in 0 .. Last, n \in 0 .. 4} :
       Within(c.dest, c.src, c.n)}
  \cup {Call(op, dest, src, 0) : op \in {"strcpy", "strcmp"},
            dest \in 0 .. Last, src \in 0 .. Last}
  \cup {Call("memset", dest, c, 2) : dest \in {0, 2}, c \in {-1, 0, 3, 5}}

-----------------------------------------------------------------------------
(* itoa: every int of eight bits, so up to three decimal digits and a      *)
(* sign, in the base of the callers and in two more; in base 2 there are   *)
(* numerals of eight digits, which leave no padding behind temp.           *)

MCIntMin == -128

-----------------------------------------------------------------------------
(* vsprintf: up to three pieces in every order, that is, every conversion, *)
(* an ordinary character and a "%" with nothing known behind it, so that   *)
(* conversions meet each other, a "%%" and the end of the format; decimal  *)
(* numbers shorter and longer than a short hexadecimal one.                *)

Pieces == {<<".">>, <<"%", "d">>, <<"%", "x">>, <<"%", "l", "l", "x">>, <<"%", "s">>,
           <<"%", "c">>, <<"%">>, <<"l">>}

Spaced == {a \o <<".">> : a \in Pieces \ {<<".">>}}

Join(A, B) == {a \o b : a \in A, b \in B}

MCFormats == LET two == Join(Pieces, Pieces)
             IN  Pieces \cup two \cup Join(two, Pieces)
                 \cup Join(Spaced, Join(Spaced, Spaced))

-----------------------------------------------------------------------------
(* The console.  Types are narrow, so that the cursor wraps below the      *)
(* screen; the screens are one that just holds the font, one with a longer *)
(* scanline, one that is too narrow for the subtraction and one whose      *)
(* pitch is 0 in the type it is kept in.  One font has a wide glyph that   *)
(* is never printed, one is for vertical writing, one is not a font.       *)

S(width, height, pps) ==
  [width |-> width, height |-> height, pixels_per_scanline |-> pps, margin |-> 2]

MCScreens == {S(11, 8, 11), S(20, 7, 24), S(6, 8, 6), S(16, 8, 512)}

(* A glyph of the full width and height, of one or of two fragments.       *)
Block(width, from, rows) ==
  [y |-> from, bits |-> {<<0, r>> : r \in 0 .. rows - 1} \cup {<<width - 1, rows - 1>>}]
G(width, advance, down) ==
  [advance |-> advance, down |-> down,
   fragments |-> <<Block(width, 0, 1), Block(width, 1, 1)>>]

(* How a font is compressed: a gap of n characters is an entry n - 1, and  *)
(* so is the one behind the last glyph.                                    *)
Encoded(glyphs, last) ==
  LET gap(c) == CHOOSE n \in 0 .. last + 1 :
                  /\ n <= c /\ \A d \in c - n .. c - 1 : d \notin DOMAIN glyphs
                  /\ n < c => c - n - 1 \in DOMAIN glyphs
      codes[c \in -1 .. last] ==
        IF c = -1 THEN << >>
        ELSE IF c \notin DOMAIN glyphs THEN codes[c - 1]
        ELSE codes[c - 1]
             \o (IF gap(c) = 0 THEN << >> ELSE <<[kind |-> "gap", n |-> gap(c) - 1]>>)
             \o <<[kind |-> "glyph", glyph |-> glyphs[c]]>>
      end == gap(last + 1)
  IN  codes[last] \o (IF end = 0 THEN << >> ELSE <<[kind |-> "gap", n |-> end - 1]>>)

Font(valid, glyphs) == [valid |-> valid, height |-> 2, glyphs |-> glyphs,
                        characters |-> Encoded(glyphs, LastCode)]

MCFonts == {Font(TRUE,  [c \in {1, 2, 7} |-> G(CASE c = 1 -> 1 [] c = 2 -> 3 [] c = 7 -> 7, c, 0)]),
            Font(TRUE,  [c \in {0, 4, 5} |-> G(IF c = 5 THEN 16 ELSE 2 + c, 3 + c, 0)]),
            Font(TRUE,  [c \in {3}       |-> G(2, 0, 2)]),
            Font(FALSE, [c \in {0}       |-> G(2, 2, 0)])}

MCCharacters == {LF, CR} \cup (0 .. 7 \ {5}) \cup {-1}
-----------------------------------------------------------------------------
(* Segments: the frame was empty or all ones, and words that are empty,    *)
(* full, or end at the borders of the fields.                              *)

MCFrameGarbage == {{}, 0 .. 63}

MCWords == {{}, 0 .. 31, {0, 15}, {3, 4}, {16, 23}, {19, 20}, {7, 24, 31}}

-----------------------------------------------------------------------------
(* Interrupts: three entries, and handlers below 2 GB, with bit 31 set,    *)
(* and in the upper half.                                                  *)

Gate(isr) == [isr |-> isr, segment |-> {3}, ist |-> {}, flags |-> {1, 2, 3, 7}]

MCGates == {Gate({0, 15, 16}), Gate({4, 31}), Gate({15, 31, 32, 63})}

MCPoolGarbage == {{}, 0 .. 31}

-----------------------------------------------------------------------------
(* ACPI: MADTs of up to three records, of the length of a processor        *)
(* record, of another length, too short for a header and empty, and XSDTs  *)
(* of up to three entries.  Length fits, is one byte too small or too      *)
(* large, has a partial entry, or is less than the header.                 *)

UpTo(n, Elems) == UNION {[1 .. k -> Elems] : k \in 0 .. n}

Records == [EntryType: {0, 1}, RecordLength: {0, 1, 8, 12}]

Total(r) == LET upTo[k \in 0 .. Len(r)] ==
                  IF k = 0 THEN 0 ELSE upTo[k - 1] + r[k].RecordLength
            IN  upTo[Len(r)]

MCMadts == {[Length |-> len, records |-> r] :
              len \in {0, ApicSize - 1, ApicSize}, r \in UpTo(1, Records)}
           \cup {[Length |-> ApicSize + Total(r) + extra, records |-> r] :
                   r \in UpTo(3, Records), extra \in {-1, 0, 1}}

MCXsdts == {[Length |-> SdtSize + 8 * Len(s) + extra, signatures |-> s] :
              s \in UpTo(3, {"APIC", "FACP"}), extra \in {-1, 0, 4, 8}}
           \cup {[Length |-> 0, signatures |-> << >>]}
=============================================================================
