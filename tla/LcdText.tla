------------------------------ MODULE LcdText -------------------------------
(***************************************************************************)
(* What common/liblcd.c draws: text by lcd_printf16 and lcd_printf24, one  *)
(* glyph after the other in two lines, pictures by assign_picture and      *)
(* display_def_picture, black lines by Scrcls and ScrCls.  A string is a   *)
(* sequence of bytes that are "asc" or "hi" (a pair of "hi" bytes is a     *)
(* Chinese character), followed by its terminator.  What is drawn is the   *)
(* set of rectangles [x, y, w, h] that a call has drawn so far.  Places    *)
(* are ints: the functions test them from above only, so that a negative   *)
(* one is accepted and is drawn to, before the frame buffer.               *)
(***************************************************************************)
EXTENDS Integers, Sequences, FiniteSets

CONSTANTS
  FB_XMAX, FB_YMAX,    \* the frame buffer, 800 x 480
  PANEL_X, PANEL_Y,    \* the 480 x 272 of the text functions
  Fonts,               \* cell sizes [w, h]: 8 x 16 and 12 x 24
  PUTS,                \* the 64 bytes that puts_lcd_asc16 and _asc24 format into
  Xs, Ys, MaxText      \* bounds: places, negative ones included, and length of text

ASSUME LcdAssumption ==
  /\ {FB_XMAX, FB_YMAX, PUTS} \subseteq Nat \ {0} /\ {PANEL_X, PANEL_Y} \subseteq Nat
  /\ \A f \in Fonts : /\ f.w \in Nat \ {0} /\ f.h \in Nat \ {0}
                      /\ PANEL_X + 2 * f.w <= FB_XMAX /\ PANEL_Y + 2 * f.h <= FB_YMAX
                      /\ (PUTS - 1) * f.w <= FB_XMAX
  /\ Xs \subseteq Int /\ Ys \subseteq Int /\ MaxText \in Nat

VARIABLES
  lcd,          \* "idle", "text", "done"; "shown" after a picture
  font, text,   \* what is printed: cell size and bytes
  ft,           \* the index of the byte that ft points to
  x, y, xreg,   \* the cursor, and where a line begins
  xnum, curx,   \* cells in a line, and cells left in this one
  line,         \* lines left
  start,        \* the place [x, y] given to the call that draws
  ret,          \* what the call returned
  drawn         \* the rectangles drawn

lcdVars == <<lcd, font, text, ft, x, y, xreg, xnum, curx, line, start, ret, drawn>>

Byte == {"asc", "hi"}
Texts == UNION {[1 .. m -> Byte] : m \in 0 .. MaxText}

LcdInit ==
  /\ lcd = "idle"
  /\ font \in Fonts /\ text = <<>> /\ ft = 1
  /\ x = 0 /\ y = 0 /\ xreg = 0
  /\ xnum = 0 /\ curx = 0 /\ line = 2
  /\ start = [x |-> 0, y |-> 0] /\ ret = 0 /\ drawn = {}

Return(code) ==
  /\ lcd' = "done" /\ ret' = code
  /\ UNCHANGED <<font, text, xreg, xnum, line, x, y, curx, start>>

\* -1: fb or font is NULL.  Nothing is asked about places below 0.
PrintRefused(x0, y0, code) ==
  /\ code = -2 => x0 > PANEL_X \/ y0 > PANEL_Y
  /\ Return(code)
  /\ UNCHANGED <<ft, drawn>>

\* lcd_printf16 or lcd_printf24(fb, x0, y0, t)
PrintStart(f, t, x0, y0) ==
  /\ x0 <= PANEL_X /\ y0 <= PANEL_Y
  /\ lcd' = "text"
  /\ font' = f /\ text' = t
  /\ x' = x0 /\ y' = y0 /\ xreg' = x0
  /\ start' = [x |-> x0, y |-> y0]
  /\ xnum' = (PANEL_X - x0) \div f.w /\ curx' = xnum'
  /\ UNCHANGED <<ft, line, ret, drawn>>

PrintText ==
  /\ lcd = "idle"
  /\ \E x0 \in Xs, y0 \in Ys :
       \/ \E code \in {-1, -2} : PrintRefused(x0, y0, code)
       \/ \E f \in Fonts, t \in Texts : PrintStart(f, t, x0, y0)

AtEnd == ft > Len(text)
Pair == ft + 1 <= Len(text) /\ text[ft] = "hi" /\ text[ft + 1] = "hi"
Truncated == ~AtEnd /\ text[ft] = "hi" /\ ~Pair

\* Cells of the next glyph, which is also its number of bytes.
Cells == IF Pair THEN 2 ELSE 1

Glyph == [x |-> x, y |-> y, w |-> Cells * font.w, h |-> font.h]

\* Mutant: a line is left one glyph later.
LineIsFullLate == curx - Cells <= 0

\* `if (curx > 2) continue`: two cells stay free for a pair.
LineIsFull == curx - Cells <= 2

\* Mutant: the second line is drawn on the first.
DrawSameLine ==
  /\ lcd = "text" /\ ~AtEnd /\ ~Truncated
  /\ drawn' = drawn \cup {Glyph}
  /\ ft' = ft + Cells
  /\ IF LineIsFull
     THEN line' = line - 1 /\ curx' = xnum /\ x' = xreg
     ELSE curx' = curx - Cells /\ x' = x + Cells * font.w /\ UNCHANGED line
  /\ IF line' = 0 THEN lcd' = "done" /\ ret' = -3 ELSE UNCHANGED <<lcd, ret>>
  /\ UNCHANGED <<font, text, y, xreg, xnum, start>>

\* A glyph, the step to the next cell or line, and the end of the second line.
Draw ==
  /\ lcd = "text" /\ ~AtEnd /\ ~Truncated
  /\ drawn' = drawn \cup {Glyph}
  /\ ft' = ft + Cells
  /\ IF LineIsFull
     THEN line' = line - 1 /\ curx' = xnum /\ y' = y + font.h /\ x' = xreg
     ELSE curx' = curx - Cells /\ x' = x + Cells * font.w /\ UNCHANGED <<line, y>>
  /\ IF line' = 0 THEN lcd' = "done" /\ ret' = -3 ELSE UNCHANGED <<lcd, ret>>
  /\ UNCHANGED <<font, text, xreg, xnum, start>>

\* A first half without a second: the terminator is no second half.
DrawFails ==
  /\ lcd = "text" /\ Truncated
  /\ ft' = ft + 1
  /\ Return(-4)
  /\ UNCHANGED drawn

PrintEnds ==
  /\ lcd = "text" /\ AtEnd
  /\ Return(0)
  /\ UNCHANGED <<ft, drawn>>
-----------------------------------------------------------------------------
(* Pictures and black lines, between texts *)

\* A call at x0, y0 that draws these rectangles and returns.
Only(rects, x0, y0, code) ==
  /\ lcd' = "shown"
  /\ drawn' = rects /\ start' = [x |-> x0, y |-> y0] /\ ret' = code
  /\ UNCHANGED <<font, text, ft, x, y, xreg, xnum, curx, line>>

Rect(x0, y0, w, h) == [x |-> x0, y |-> y0, w |-> w, h |-> h]
Screen == Rect(0, 0, FB_XMAX, FB_YMAX)

\* assign_picture(fb, x0, y0, w, h, Image) after what the caller has drawn; it
\* returns -1 if fb or Image is NULL.
AssignPicture(before, x0, y0, w, h) ==
  IF x0 > FB_XMAX \/ y0 > FB_YMAX THEN Only(before, x0, y0, -2)
  ELSE IF x0 + w > FB_XMAX \/ y0 + h > FB_YMAX THEN Only(before, x0, y0, -3)
  ELSE Only(before \cup {Rect(x0, y0, w, h)}, x0, y0, 0)

\* The positions display_def_picture gives its pictures: background and user
\* screen, the prompt, the seven messages; and the demo's.
DefPictures == {Rect(0, 0, 480, 272), Rect(101, 120, 277, 32), Rect(76, 85, 327, 101)}
Demo == Rect(27, 30, 746, 418)

\* -1: fb is NULL; 0xff: no such picture.  The demo is drawn on a black screen,
\* which ScrCls begins at 0, 0.
DisplayDefPicture ==
  /\ lcd = "idle"
  /\ \/ \E code \in {-1, 255} : Only({}, 0, 0, code)
     \/ \E p \in DefPictures : AssignPicture({}, p.x, p.y, p.w, p.h)
     \/ AssignPicture({Screen}, Demo.x, Demo.y, Demo.w, Demo.h)

DisplayPicture ==
  /\ lcd = "idle"
  /\ \E x0 \in Xs \cup {FB_XMAX + 1}, y0 \in Ys, p \in DefPictures \cup {Demo} :
       Only({}, x0, y0, -1) \/ AssignPicture({}, x0, y0, p.w, p.h)

\* puts_lcd_asc16 and puts_lcd_asc24 have no bounds but those of their own
\* string; the only call (fem_fb.c:53) starts at 0, 0.
PutsLcd ==
  /\ lcd = "idle"
  /\ \E f \in Fonts, m \in 0 .. PUTS - 1 :
       Only({Rect(j * f.w, 0, f.w, f.h) : j \in 0 .. m - 1}, 0, 0, 0)

\* Scrcls(fb, first, last)
Scrcls(first, last) ==
  IF first >= FB_YMAX \/ first > last \/ last >= FB_YMAX
  THEN Only({}, 0, first, 0)
  ELSE Only({Rect(0, first, FB_XMAX, last - first + 1)}, 0, first, 0)

ClearLines ==
  /\ lcd = "idle"
  /\ \E first, last \in Ys \cup {0, FB_YMAX - 1, FB_YMAX} : Scrcls(first, last)

\* ScrCls, and fill_background, which returns -1 if fb or Image is NULL.
FillScreen ==
  /\ lcd = "idle"
  /\ Only({Screen}, 0, 0, 0) \/ Only({}, 0, 0, -1)

LcdNext ==
  \/ PrintText \/ Draw \/ DrawFails \/ PrintEnds
  \/ DisplayDefPicture \/ DisplayPicture \/ PutsLcd \/ ClearLines \/ FillScreen

LcdSpec == LcdInit /\ [][LcdNext]_lcdVars
-----------------------------------------------------------------------------
\* The cursor, the line counter and the results the functions document.
LcdTypeOK ==
  /\ lcd \in {"idle", "text", "done", "shown"}
  /\ font \in Fonts /\ text \in Seq(Byte)
  /\ ft \in 1 .. Len(text) + 1
  /\ {x, y, xreg, curx} \subseteq Int /\ xnum \in Nat
  /\ line \in 0 .. 2 /\ start \in [x : Int, y : Int] /\ ret \in {0, -1, -2, -3, -4, 255}

NotBeyond == \A r \in drawn : r.x + r.w <= FB_XMAX /\ r.y + r.h <= FB_YMAX
NotBefore == \A r \in drawn : r.x >= 0 /\ r.y >= 0
OnPanel ==
  lcd # "shown" /\ xnum >= 2 => \A r \in drawn : r.x + r.w <= PANEL_X

(***************************************************************************)
(* Whatever is drawn wherever the functions accept it, double-width        *)
(* glyphs, lines without room for one, pictures and black lines included,  *)
(* ends inside the frame buffer, and text within the panel's width when    *)
(* the line has room for two cells.  It also begins inside the frame       *)
(* buffer if the place asked for is not negative, and only then: the       *)
(* missing test of the lower bound (liblcd.c:372, 425, 498, 538) is the    *)
(* one way out of the frame buffer.                                        *)
(***************************************************************************)
InFrame ==
  /\ NotBeyond /\ OnPanel
  /\ drawn # {} => (NotBefore <=> start.x >= 0 /\ start.y >= 0)

Apart(r, s) ==
  \/ r.x + r.w <= s.x \/ s.x + s.w <= r.x
  \/ r.y + r.h <= s.y \/ s.y + s.h <= r.y

\* The cells the glyphs take, and the bytes that became glyphs.
CellsDrawn == {c \in drawn \X {1, 2} : c[2] * font.w <= c[1].w}
Shown == IF ret = -4 THEN ft - 2 ELSE ft - 1

(***************************************************************************)
(* Every byte up to where printing stopped is shown, in a cell of its own  *)
(* that no other glyph overlaps: 0 means the whole text, -3 two full       *)
(* lines, -4 all of the text but the half character it ends with or that   *)
(* an ASCII byte cuts.  The terminator is never passed.                    *)
(***************************************************************************)
AllShown ==
  lcd \in {"text", "done"} =>
    /\ Cardinality(CellsDrawn) = Shown
    /\ \A r, s \in drawn : r # s => Apart(r, s)
    /\ lcd = "done" => /\ ret = 0 => Shown = Len(text)
                       /\ ret = -3 => line = 0
                       /\ ret = -4 => Shown < Len(text)
=============================================================================
