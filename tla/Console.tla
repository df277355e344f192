------------------------------ MODULE Console ------------------------------
(***************************************************************************)
(* The console of the kernel, kernel/drivers/ssfn_fb.c, on the bitmap      *)
(* renderer of include/ssfn.h.  One step is one character that ssfn_printf *)
(* puts.  What is drawn is a set of byte offsets in the framebuffer.       *)
(*                                                                         *)
(* The kernel leaves ssfn_dst.w, .h and .bg at 0, so the renderer neither  *)
(* clips nor paints a background.  Integers have the width of the code's   *)
(* types: the cursor is an int16_t and compared with a size_t.             *)
(***************************************************************************)
EXTENDS Integers, Sequences, FiniteSets

CONSTANTS
  ShortMax,    \* 2^15: the cursor goes from -ShortMax to ShortMax - 1
  PitchWrap,   \* 2^16: values of ssfn_dst.p
  SizeWrap,    \* 2^64: values of a size_t
  Screens,     \* framebuffers: width, height, pixels_per_scanline, margin
  LastCode,    \* 0x10FFFF: the last character that a font has a code for
  Fonts,       \* fonts: valid, height, characters (the table) and glyphs
  Characters,  \* what is printed
  MaxLines     \* bound on line feeds, so that behaviours are finite

ASSUME WidthsAssumption ==
  /\ ShortMax \in Nat \ {0} /\ PitchWrap \in Nat \ {0} /\ SizeWrap \in Nat
  /\ SizeWrap > 2 * ShortMax /\ SizeWrap >= PitchWrap
ASSUME ScreensAssumption ==
  /\ Screens \subseteq [width: Nat, height: Nat, pixels_per_scanline: Nat, margin: Nat]
  /\ \A s \in Screens : s.width <= s.pixels_per_scanline /\ s.margin < ShortMax
ASSUME MaxLinesAssumption == MaxLines \in Nat

(* A glyph is made of fragments, each a set of pixels and a row to start   *)
(* from.  An entry of the table is a glyph, or a gap that leaves out as    *)
(* many codes as its number says and one more.                             *)
GlyphType  == [advance: Nat, down: Nat,
               fragments: Seq([y: Nat, bits: SUBSET (Nat \X Nat)])]
TableEntry == [kind: {"glyph"}, glyph: GlyphType] \cup [kind: {"gap"}, n: Nat]

(* The entries stand for all the codes, in their order; at says which one  *)
(* is for a code.  The codes of glyphs are those of the font.              *)
Encodes(characters, glyphs) ==
  \E at \in [0 .. LastCode -> DOMAIN characters] :
    /\ \A c \in 1 .. LastCode : at[c - 1] <= at[c]
    /\ \A k \in DOMAIN characters :
         Cardinality({c \in 0 .. LastCode : at[c] = k}) =
           IF characters[k].kind = "glyph" THEN 1 ELSE characters[k].n + 1
    /\ DOMAIN glyphs = {c \in 0 .. LastCode : characters[at[c]].kind = "glyph"}
    /\ \A c \in DOMAIN glyphs : glyphs[c] = characters[at[c]].glyph

ASSUME FontsAssumption ==
  LastCode \in Nat /\ \A f \in Fonts : /\ f.height \in Nat /\ f.characters \in Seq(TableEntry)
                                      /\ Encodes(f.characters, f.glyphs)

VARIABLES
  fb, font,  \* system->fb and the font it points to
  p,         \* ssfn_dst.p
  x, y,      \* ssfn_dst.x and ssfn_dst.y
  lines,     \* line feeds so far
  shown,     \* the last character put and its glyph
  drawn      \* the offsets it was drawn at

consoleVars == <<fb, font, p, x, y, lines, shown, drawn>>

int16_t(n) == ((n + ShortMax) % (2 * ShortMax)) - ShortMax
size_t(n)  == n % SizeWrap

LF == 10
CR == 13
None == [advance |-> 0, down |-> 0, fragments |-> << >>]

(* The state after ssfn_setup, which is called once.                       *)
ConsoleInit ==
  /\ fb \in Screens /\ font \in Fonts
  /\ p = (4 * fb.pixels_per_scanline) % PitchWrap
  /\ x = fb.margin /\ y = fb.margin
  /\ lines = 0 /\ shown = <<LF, None>> /\ drawn = {}

-----------------------------------------------------------------------------
(* ssfn_putc.                                                              *)

Works == font.valid /\ p # 0

(* A mistake: a gap of n characters is stepped over as if it were n.       *)
SpanOfGap(e) == IF e.kind = "glyph" THEN 1 ELSE e.n

(* Codes that an entry of the table stands for: i += j, and the i++ of the *)
(* loop.                                                                   *)
Span(e) == IF e.kind = "glyph" THEN 1 ELSE e.n + 1

CodeOf == LET code[k \in 1 .. Len(font.characters)] ==
                IF k = 1 THEN 0 ELSE code[k - 1] + Span(font.characters[k - 1])
          IN  code

Found(c) == {k \in DOMAIN font.characters :
               font.characters[k].kind = "glyph" /\ CodeOf[k] = c}

Glyph(c) == IF Found(c) = {} THEN None
            ELSE font.characters[CHOOSE k \in Found(c) : TRUE].glyph

(* o and s: a pixel of a glyph at the cursor.                              *)
Offset(column, row) == y * p + x * 4 + row * (p \div 4) * 4 + column * 4

Painted(g) ==
  UNION {{Offset(b[1], f.y + b[2]) : b \in {d \in f.bits : x + d[1] >= 0}} :
           f \in {g.fragments[k] : k \in DOMAIN g.fragments}}

LineFeed(cursor) ==
  [x |-> 0, y |-> int16_t(cursor.y + font.height), lines |-> cursor.lines + 1]

(* Where ssfn_putc(c) leaves the cursor; a glyph that is missing draws     *)
(* nothing and moves nothing.                                              *)
ssfn_putc(c) ==
  LET cursor == [x |-> x, y |-> y, lines |-> lines]
  IN  CASE ~ Works -> cursor
        [] Works /\ c = LF -> LineFeed(cursor)
        [] Works /\ c = CR -> [cursor EXCEPT !.x = 0]
        [] OTHER -> [cursor EXCEPT !.x = int16_t(x + Glyph(c).advance),
                                   !.y = int16_t(y + Glyph(c).down)]

(* A mistake: no room is kept for the next character.                      *)
PastEdgeOfScreen(cursor) == size_t(cursor.x) > size_t(fb.width - fb.margin)

(* The next character might not fit, in unsigned arithmetic.               *)
PastEdge(cursor) == size_t(cursor.x) > size_t(fb.width - fb.margin - 5)

ssfn_put(c) ==
  LET put  == ssfn_putc(c)
      fed  == IF PastEdge(put) /\ Works THEN LineFeed(put) ELSE put
      glyph == IF c \in {LF, CR} \/ ~ Works THEN None ELSE Glyph(c)
  IN  /\ x' = IF size_t(fed.x) < fb.margin THEN fb.margin ELSE fed.x
      /\ y' = IF size_t(fed.y) < fb.margin THEN fb.margin ELSE fed.y
      /\ lines' = fed.lines
      /\ shown' = <<c, glyph>>
      /\ drawn' = Painted(glyph)
      /\ UNCHANGED <<fb, font, p>>

(* The loop of ssfn_printf, over whatever vsprintf made.                   *)
ssfn_printf == lines < MaxLines /\ \E c \in Characters : ssfn_put(c)

ConsoleSpec == ConsoleInit /\ [][ssfn_printf]_consoleVars

-----------------------------------------------------------------------------
(* A screen that holds the glyphs of what is printed, in a font of         *)
(* horizontal writing, and the lines it has room for.                      *)

Columns(g) == UNION {{b[1] + 1 : b \in g.fragments[k].bits} : k \in DOMAIN g.fragments}
RowsOf(g)  == UNION {{g.fragments[k].y + b[2] + 1 : b \in g.fragments[k].bits} :
                       k \in DOMAIN g.fragments}

HoldsFont ==
  /\ font.height > 0
  /\ fb.width >= 2 * fb.margin + 5
  /\ 4 * fb.pixels_per_scanline < PitchWrap
  /\ fb.height < ShortMax
  /\ \A c \in Characters \cap DOMAIN font.glyphs :
        /\ fb.width + font.glyphs[c].advance < ShortMax
        /\ font.glyphs[c].down = 0
        /\ \A n \in Columns(font.glyphs[c]) : n <= fb.margin + 5
        /\ \A n \in RowsOf(font.glyphs[c]) : n <= font.height

Rows == (fb.height - fb.margin) \div font.height

(* A character is drawn on the pixels of the screen, wherever the lines    *)
(* were broken, by a line feed, at the right edge or at both, as long as   *)
(* no more lines were begun than the screen has room for: after that       *)
(* nothing keeps the cursor in the framebuffer.                            *)
Pixels == {4 * (row * fb.pixels_per_scanline + column) :
             row \in 0 .. fb.height - 1, column \in 0 .. fb.width - 1}

DrawsInside == [][HoldsFont /\ lines < Rows => drawn' \subseteq Pixels]_consoleVars

(* A character is drawn with its own glyph: the walk over the compressed   *)
(* table, whatever gaps it steps over, ends at the entry of the character, *)
(* and a character without a glyph shows nothing.                          *)
ShowsItsGlyph ==
  shown[1] \notin {LF, CR} /\ Works =>
    shown[2] = IF shown[1] \in DOMAIN font.glyphs THEN font.glyphs[shown[1]] ELSE None

(* No character is drawn over the one before: the cursor moves on by the   *)
(* advance of the glyph or to a later line, unless it was sent back.       *)
MovesOn ==
  [][HoldsFont /\ Works /\ lines < Rows /\ shown'[1] # CR =>
       y' > y \/ (y' = y /\ x' >= x + shown'[2].advance)]_consoleVars

(* Text goes over the screen from left to right and from top to bottom,    *)
(* and nothing is drawn beside it.                                         *)
DrawsInOrder == DrawsInside /\ MovesOn
=============================================================================
