--------------------------- MODULE LcdTextProofs ---------------------------
(***************************************************************************)
(* What LcdText draws leaves the frame buffer only for a negative place,   *)
(* for every frame buffer, panel and font with room for two cells beyond   *)
(* the panel, and for text of every length.                                *)
(***************************************************************************)
EXTENDS LcdText, FiniteSetTheorems, TLAPS

\* What a call draws begins at the place it was given, and nothing before it.
FromStart ==
  /\ start.x \in Int /\ start.y \in Int
  /\ \A r \in drawn : /\ r.x \in Int /\ r.y \in Int
                      /\ start.x <= r.x /\ start.y <= r.y
  /\ drawn # {} => \E r \in drawn : r.x = start.x /\ r.y = start.y

\* The cells left in a line end on the panel, and of a line with room for a
\* pair that much is left; before the second line there is room for two.
CursorInv ==
  /\ {x, y, xreg, xnum, curx} \subseteq Int
  /\ xreg = start.x /\ xreg <= x /\ x <= PANEL_X /\ start.y <= y
  /\ drawn = {} => x = start.x /\ y = start.y
  /\ xreg + xnum * font.w <= PANEL_X
  /\ x + curx * font.w <= PANEL_X
  /\ xnum >= 2 => curx >= 2
  /\ \/ line = 2 /\ y <= PANEL_Y
     \/ line = 1 /\ y <= PANEL_Y + font.h

\* InFrame is not inductive: where the next glyph begins and ends depends on
\* the cursor.
LcdInv ==
  /\ lcd \in {"idle", "text", "done", "shown"} /\ font \in Fonts
  /\ lcd = "idle" => line = 2 /\ drawn = {}
  /\ lcd = "text" => CursorInv /\ FromStart
  /\ InFrame

-----------------------------------------------------------------------------
(* Lemmas: products with a cell's width, and the rectangles of one call *)

LEMMA WholeCells ==
  ASSUME NEW a \in Nat, NEW w \in Nat \ {0}
  PROVE  (a \div w) * w <= a /\ a \div w \in Nat
<1>1. a = w * (a \div w) + (a % w) /\ a % w \in 0 .. w - 1 /\ a \div w \in Nat
  BY SMT
<1>2. w * (a \div w) = (a \div w) * w
  BY <1>1, SMT
<1> QED
  BY <1>1, <1>2, SMT

LEMMA MoveCells ==
  ASSUME NEW x0 \in Int, NEW left \in Int, NEW w \in Nat, NEW n \in {1, 2}
  PROVE  /\ (x0 + n * w) + (left - n) * w = x0 + left * w
         /\ x0 + n * w \in Int /\ x0 <= x0 + n * w
<1>1. CASE n = 1
  BY <1>1, SMT
<1>2. CASE n = 2
  BY <1>2, SMT
<1> QED
  BY <1>1, <1>2

LEMMA NotNegative ==
  ASSUME NEW left \in Int, left > 2, NEW w \in Nat
  PROVE  0 <= left * w /\ left * w \in Int
  BY SMT

LEMMA FontSizes ==
  ASSUME font \in Fonts
  PROVE  /\ font.w \in Nat \ {0} /\ font.h \in Nat \ {0}
         /\ PANEL_X + 2 * font.w <= FB_XMAX /\ PANEL_Y + 2 * font.h <= FB_YMAX
         /\ PANEL_X \in Nat /\ PANEL_Y \in Nat /\ FB_XMAX \in Nat /\ FB_YMAX \in Nat
  BY LcdAssumption

LEMMA StartDecides ==
  ASSUME FromStart'
  PROVE  (drawn # {} => (NotBefore <=> start.x >= 0 /\ start.y >= 0))'
<1>1. ASSUME drawn' # {}, NotBefore' PROVE start'.x >= 0 /\ start'.y >= 0
  BY <1>1 DEF FromStart, NotBefore
<1>2. ASSUME start'.x >= 0, start'.y >= 0, NEW r \in drawn' PROVE r.x >= 0 /\ r.y >= 0
  BY <1>2 DEF FromStart
<1> QED
  BY <1>1, <1>2 DEF NotBefore

\* A step that draws rectangles that end inside the frame buffer and begin in
\* it just if the place does.
LEMMA OnlyInFrame ==
  ASSUME LcdInv, NEW rects, NEW x0 \in Int, NEW y0 \in Int, NEW code,
         Only(rects, x0, y0, code),
         \A r \in rects : r.x + r.w <= FB_XMAX /\ r.y + r.h <= FB_YMAX,
         rects # {} => ((\A r \in rects : r.x >= 0 /\ r.y >= 0) <=> x0 >= 0 /\ y0 >= 0)
  PROVE  LcdInv'
<1>1. /\ lcd' = "shown" /\ drawn' = rects /\ start' = [x |-> x0, y |-> y0] /\ font' = font
  BY DEF Only
<1>2. start'.x = x0 /\ start'.y = y0
  BY <1>1
<1> QED
  BY <1>1, <1>2 DEF LcdInv, InFrame, NotBeyond, NotBefore, OnPanel

LEMMA NothingDrawn ==
  ASSUME LcdInv, NEW x0 \in Int, NEW y0 \in Int, NEW code, Only({}, x0, y0, code)
  PROVE  LcdInv'
  BY OnlyInFrame

LEMMA ScreenFits ==
  /\ Screen.x = 0 /\ Screen.y = 0
  /\ Screen.x + Screen.w <= FB_XMAX /\ Screen.y + Screen.h <= FB_YMAX
  BY LcdAssumption DEF Screen, Rect

\* What is drawn before a picture is the whole screen, and then the picture's
\* place is not negative.
LEMMA AssignPictureInv ==
  ASSUME LcdInv, NEW before, before = {} \/ before = {Screen},
         NEW x0 \in Int, NEW y0 \in Int, NEW w \in Nat, NEW h \in Nat,
         before # {} => x0 >= 0 /\ y0 >= 0,
         AssignPicture(before, x0, y0, w, h)
  PROVE  LcdInv'
<1> USE LcdAssumption
<1>1. \A r \in before : /\ r.x >= 0 /\ r.y >= 0
                       /\ r.x + r.w <= FB_XMAX /\ r.y + r.h <= FB_YMAX
  BY ScreenFits
<1>2. ASSUME NEW code, Only(before, x0, y0, code) PROVE LcdInv'
  BY <1>1, <1>2, OnlyInFrame
<1>3. CASE x0 > FB_XMAX \/ y0 > FB_YMAX
  BY <1>2, <1>3 DEF AssignPicture
<1>4. CASE ~(x0 > FB_XMAX \/ y0 > FB_YMAX) /\ (x0 + w > FB_XMAX \/ y0 + h > FB_YMAX)
  BY <1>2, <1>4 DEF AssignPicture
<1>5. CASE ~(x0 > FB_XMAX \/ y0 > FB_YMAX) /\ ~(x0 + w > FB_XMAX \/ y0 + h > FB_YMAX)
  <2> DEFINE R == Rect(x0, y0, w, h)
  <2>1. Only(before \cup {R}, x0, y0, 0)
    BY <1>5 DEF AssignPicture
  <2>2. R.x = x0 /\ R.y = y0 /\ R.w = w /\ R.h = h
    BY DEF Rect
  <2>3. x0 + w <= FB_XMAX /\ y0 + h <= FB_YMAX
    BY <1>5, SMT
  <2> HIDE DEF R
  <2>4. \A r \in before \cup {R} : r.x + r.w <= FB_XMAX /\ r.y + r.h <= FB_YMAX
    BY <1>1, <2>2, <2>3
  <2>5. (\A r \in before \cup {R} : r.x >= 0 /\ r.y >= 0) <=> x0 >= 0 /\ y0 >= 0
    BY <1>1, <2>2
  <2> QED
    BY <2>1, <2>4, <2>5, OnlyInFrame
<1> QED
  BY <1>3, <1>4, <1>5
-----------------------------------------------------------------------------
(* One lemma per action *)

LEMMA PrintInv ==
  ASSUME LcdInv, PrintText
  PROVE  LcdInv'
<1>1. PICK x0 \in Xs, y0 \in Ys :
        \/ \E code \in {-1, -2} : PrintRefused(x0, y0, code)
        \/ \E f \in Fonts, t \in Texts : PrintStart(f, t, x0, y0)
  BY DEF PrintText
<1>2. ASSUME NEW code, PrintRefused(x0, y0, code) PROVE LcdInv'
  BY <1>2 DEF PrintText, PrintRefused, Return, LcdInv, InFrame, NotBeyond, NotBefore, OnPanel
<1>3. CASE \E f \in Fonts, t \in Texts : PrintStart(f, t, x0, y0)
  <2>1. PICK f \in Fonts, t \in Texts : PrintStart(f, t, x0, y0)
    BY <1>3
  <2>2. /\ x0 \in Int /\ y0 \in Int /\ x0 <= PANEL_X /\ y0 <= PANEL_Y
        /\ f.w \in Nat \ {0} /\ f.h \in Nat /\ PANEL_X \in Nat /\ PANEL_Y \in Nat
    BY <2>1, LcdAssumption DEF PrintStart
  <2>3. PANEL_X - x0 \in Nat
    BY <2>2, SMT
  <2> DEFINE cells == (PANEL_X - x0) \div f.w
  <2>4. cells * f.w <= PANEL_X - x0 /\ cells \in Nat
    BY <2>2, <2>3, WholeCells
  <2>5. /\ x' = x0 /\ y' = y0 /\ xreg' = x0 /\ xnum' = cells /\ curx' = cells /\ font' = f
        /\ lcd' = "text" /\ line' = 2 /\ drawn' = {} /\ start' = [x |-> x0, y |-> y0]
    BY <2>1 DEF PrintStart, PrintText, LcdInv
  <2> HIDE DEF cells
  <2>6. x0 + cells * f.w <= PANEL_X
    BY <2>2, <2>4, SMT
  <2>7. start'.x = x0 /\ start'.y = y0
    BY <2>5
  <2>8. CursorInv' /\ FromStart'
    BY <2>2, <2>4, <2>5, <2>6, <2>7 DEF CursorInv, FromStart
  <2> QED
    BY <2>5, <2>8 DEF LcdInv, InFrame, NotBeyond, NotBefore, OnPanel
<1> QED
  BY <1>1, <1>2, <1>3

LEMMA DrawInv ==
  ASSUME LcdInv, Draw
  PROVE  LcdInv'
<1> DEFINE w == font.w
           h == font.h
<1>1. /\ lcd = "text" /\ CursorInv /\ FromStart /\ InFrame /\ font \in Fonts
  BY DEF LcdInv, Draw
<1>2. /\ w \in Nat \ {0} /\ h \in Nat \ {0}
      /\ PANEL_X + 2 * w <= FB_XMAX /\ PANEL_Y + 2 * h <= FB_YMAX
      /\ PANEL_X \in Nat /\ PANEL_Y \in Nat /\ FB_XMAX \in Nat /\ FB_YMAX \in Nat
  BY <1>1, FontSizes
<1>3. Cells \in {1, 2}
  BY DEF Cells
<1>4. /\ {x, y, xreg, xnum, curx} \subseteq Int
      /\ xreg = start.x /\ xreg <= x /\ x <= PANEL_X /\ start.y <= y
      /\ drawn = {} => x = start.x /\ y = start.y
      /\ xreg + xnum * w <= PANEL_X
      /\ x + curx * w <= PANEL_X
      /\ xnum >= 2 => curx >= 2
      /\ \/ line = 2 /\ y <= PANEL_Y
         \/ line = 1 /\ y <= PANEL_Y + h
  BY <1>1 DEF CursorInv
<1>5. Glyph = [x |-> x, y |-> y, w |-> Cells * w, h |-> h]
  BY DEF Glyph
<1>6. /\ drawn' = drawn \cup {Glyph}
      /\ font' = font /\ xreg' = xreg /\ xnum' = xnum /\ start' = start
  BY DEF Draw
<1> HIDE DEF w, h
<1>7. x + Cells * w <= FB_XMAX /\ y + h <= FB_YMAX
  BY <1>2, <1>3, <1>4, SMT
<1>8. ASSUME xnum >= 2 PROVE x + Cells * w <= PANEL_X
  <2>1. 2 * w <= curx * w
    BY <1>8, <1>4, <1>2, SMT
  <2> QED
    BY <2>1, <1>2, <1>3, <1>4, SMT
<1>9. NotBeyond' /\ FromStart'
  <2>1. Glyph.x = x /\ Glyph.y = y
    BY <1>5
  <2>2. Glyph.x + Glyph.w <= FB_XMAX /\ Glyph.y + Glyph.h <= FB_YMAX
    BY <1>5, <1>7, SMT
  <2>3. NotBeyond'
    BY <2>2, <1>1, <1>6 DEF InFrame, NotBeyond
  <2>4. FromStart'
    <3>1. \A r \in drawn' : r.x \in Int /\ r.y \in Int /\ start.x <= r.x /\ start.y <= r.y
      BY <2>1, <1>1, <1>4, <1>6 DEF FromStart
    <3>2. \E r \in drawn' : r.x = start.x /\ r.y = start.y
      <4>1. CASE drawn = {}
        BY <4>1, <2>1, <1>4, <1>6
      <4>2. CASE drawn # {}
        BY <4>2, <1>1, <1>6 DEF FromStart
      <4> QED
        BY <4>1, <4>2
    <3> QED
      BY <3>1, <3>2, <1>1, <1>6 DEF FromStart
  <2> QED
    BY <2>3, <2>4
<1>10. OnPanel'
  <2>1. xnum >= 2 => Glyph.x + Glyph.w <= PANEL_X
    BY <1>5, <1>8
  <2> QED
    BY <2>1, <1>1, <1>6 DEF InFrame, OnPanel
<1>11. ASSUME lcd' = "text" PROVE CursorInv'
  <2>1. CASE LineIsFull
    <3>1. line' = line - 1 /\ curx' = xnum /\ y' = y + h /\ x' = xreg
      BY <2>1 DEF Draw, h
    <3>2. line' # 0
      BY <1>11 DEF Draw
    <3>3. line = 2 /\ y' <= PANEL_Y + h /\ y' \in Int /\ start.y <= y'
      <4>1. start.y \in Int
        BY <1>1 DEF FromStart
      <4> QED
        BY <4>1, <3>1, <3>2, <1>4, <1>2, SMT
    <3>4. line' = 1 /\ x' = xreg' /\ {x', y', xreg', xnum', curx'} \subseteq Int
      BY <3>1, <3>3, <1>4, <1>6
    <3>5. xreg' + xnum' * w <= PANEL_X /\ x' + curx' * w <= PANEL_X
      BY <3>1, <1>4, <1>6
    <3>6. x' <= PANEL_X /\ xreg' = start'.x /\ drawn' # {} /\ (xnum' >= 2 => curx' >= 2)
      BY <3>1, <1>2, <1>4, <1>6
    <3>7. font'.w = w /\ font'.h = h
      BY <1>6 DEF w, h
    <3> QED
      BY <1>6, <3>3, <3>4, <3>5, <3>6, <3>7 DEF CursorInv
  <2>2. CASE ~LineIsFull
    <3>1. curx' = curx - Cells /\ x' = x + Cells * w /\ line' = line /\ y' = y
      BY <2>2 DEF Draw, w
    <3>2. curx' > 2 /\ curx' \in Int
      BY <2>2, <3>1, <1>3, <1>4 DEF LineIsFull
    <3>3. x' + curx' * w = x + curx * w /\ x' \in Int /\ x <= x'
      <4>1. x \in Int /\ curx \in Int /\ w \in Nat
        BY <1>2, <1>4
      <4>2. /\ (x + Cells * w) + (curx - Cells) * w = x + curx * w
            /\ x + Cells * w \in Int /\ x <= x + Cells * w
        BY ONLY <4>1, <1>3, MoveCells
      <4> QED
        BY <3>1, <4>2, Zenon
    <3>4. 0 <= curx' * w /\ curx' * w \in Int
      BY <3>2, <1>2, NotNegative
    <3>5. x' <= PANEL_X /\ xreg <= x' /\ x' + curx' * w <= PANEL_X
      BY <3>3, <3>4, <1>2, <1>4, SMT
    <3>6. drawn' # {} /\ start' = start
      BY <1>6
    <3> QED
      BY <3>1, <3>2, <3>3, <3>5, <3>6, <1>4, <1>6 DEF CursorInv, w, h
  <2> QED
    BY <2>1, <2>2
<1>12. lcd' \in {"text", "done"}
  BY <1>1 DEF Draw
<1>13. (drawn # {} => (NotBefore <=> start.x >= 0 /\ start.y >= 0))'
  BY <1>9, StartDecides
<1> QED
  BY <1>1, <1>6, <1>9, <1>10, <1>11, <1>12, <1>13 DEF LcdInv, InFrame

LEMMA EndInv ==
  ASSUME LcdInv, DrawFails \/ PrintEnds
  PROVE  LcdInv'
  BY DEF LcdInv, DrawFails, PrintEnds, Return, InFrame, NotBeyond, NotBefore, OnPanel

LEMMA PictureInv ==
  ASSUME LcdInv, DisplayDefPicture \/ DisplayPicture
  PROVE  LcdInv'
<1>1. \A p \in DefPictures \cup {Demo} : p.x \in Nat /\ p.y \in Nat /\ p.w \in Nat /\ p.h \in Nat
  BY DEF DefPictures, Demo, Rect
<1>2. CASE DisplayDefPicture
  <2>1. CASE \E code \in {-1, 255} : Only({}, 0, 0, code)
    BY <2>1, NothingDrawn
  <2>2. CASE \E p \in DefPictures : AssignPicture({}, p.x, p.y, p.w, p.h)
    BY <1>1, <2>2, AssignPictureInv
  <2>3. CASE AssignPicture({Screen}, Demo.x, Demo.y, Demo.w, Demo.h)
    BY <1>1, <2>3, AssignPictureInv
  <2> QED
    BY <1>2, <2>1, <2>2, <2>3 DEF DisplayDefPicture
<1>3. CASE DisplayPicture
  <2>1. PICK x0 \in Xs \cup {FB_XMAX + 1}, y0 \in Ys, p \in DefPictures \cup {Demo} :
          Only({}, x0, y0, -1) \/ AssignPicture({}, x0, y0, p.w, p.h)
    BY <1>3 DEF DisplayPicture
  <2>2. x0 \in Int /\ y0 \in Int
    <3>1. Xs \subseteq Int /\ Ys \subseteq Int /\ FB_XMAX \in Nat
      BY LcdAssumption
    <3> QED
      BY <2>1, <3>1, SMT
  <2>3. p.w \in Nat /\ p.h \in Nat
    BY <1>1
  <2> QED
    BY <2>1, <2>2, <2>3, NothingDrawn, AssignPictureInv
<1> QED
  BY <1>2, <1>3

LEMMA PutsInv ==
  ASSUME LcdInv, PutsLcd
  PROVE  LcdInv'
<1>1. PICK f \in Fonts, m \in 0 .. PUTS - 1 :
        Only({Rect(j * f.w, 0, f.w, f.h) : j \in 0 .. m - 1}, 0, 0, 0)
  BY DEF PutsLcd
<1>2. /\ f.w \in Nat \ {0} /\ f.h \in Nat /\ (PUTS - 1) * f.w <= FB_XMAX /\ f.h <= FB_YMAX
      /\ PUTS \in Nat /\ FB_XMAX \in Nat /\ FB_YMAX \in Nat
  BY LcdAssumption
<1>3. ASSUME NEW j \in 0 .. m - 1
      PROVE  j * f.w >= 0 /\ j * f.w + f.w <= FB_XMAX /\ j * f.w \in Nat
  <2>1. (j + 1) * f.w <= (PUTS - 1) * f.w
    BY <1>2, <1>3, SMT
  <2>2. (j + 1) * f.w = j * f.w + f.w
    BY <1>2, SMT
  <2> QED
    BY <1>2, <2>1, <2>2, SMT
<1>4. \A r \in {Rect(j * f.w, 0, f.w, f.h) : j \in 0 .. m - 1} :
        r.x >= 0 /\ r.y >= 0 /\ r.x + r.w <= FB_XMAX /\ r.y + r.h <= FB_YMAX
  BY <1>2, <1>3 DEF Rect
<1> QED
  BY <1>1, <1>4, OnlyInFrame

LEMMA ClearInv ==
  ASSUME LcdInv, ClearLines \/ FillScreen
  PROVE  LcdInv'
<1>1. CASE ClearLines
  <2>1. PICK first \in Ys \cup {0, FB_YMAX - 1, FB_YMAX}, last \in Ys \cup {0, FB_YMAX - 1, FB_YMAX} :
          Scrcls(first, last)
    BY <1>1 DEF ClearLines
  <2>2. first \in Int /\ last \in Int /\ FB_XMAX \in Nat /\ FB_YMAX \in Nat
    BY LcdAssumption
  <2>3. CASE first >= FB_YMAX \/ first > last \/ last >= FB_YMAX
    BY <2>1, <2>2, <2>3, NothingDrawn DEF Scrcls
  <2>4. CASE ~(first >= FB_YMAX \/ first > last \/ last >= FB_YMAX)
    <3> DEFINE R == Rect(0, first, FB_XMAX, last - first + 1)
    <3>1. Only({R}, 0, first, 0)
      BY <2>1, <2>4 DEF Scrcls
    <3>2. R.x = 0 /\ R.y = first /\ R.w = FB_XMAX /\ R.h = last - first + 1
      BY DEF Rect
    <3>3. first + (last - first + 1) <= FB_YMAX /\ 0 + FB_XMAX <= FB_XMAX
      BY <2>2, <2>4, SMT
    <3> HIDE DEF R
    <3> QED
      BY <3>1, <3>2, <3>3, <2>2, OnlyInFrame
  <2> QED
    BY <2>3, <2>4
<1>2. CASE FillScreen
  <2>1. CASE Only({Screen}, 0, 0, 0)
    BY <2>1, ScreenFits, OnlyInFrame
  <2>2. CASE Only({}, 0, 0, -1)
    BY <2>2, NothingDrawn
  <2> QED
    BY <1>2, <2>1, <2>2 DEF FillScreen
<1> QED
  BY <1>1, <1>2
-----------------------------------------------------------------------------
LEMMA LcdInitInv == LcdInit => LcdInv
  BY DEF LcdInit, LcdInv, InFrame, NotBeyond, NotBefore, OnPanel

LEMMA LcdStepInv == LcdInv /\ [LcdNext]_lcdVars => LcdInv'
<1> SUFFICES ASSUME LcdInv, [LcdNext]_lcdVars PROVE LcdInv'
  OBVIOUS
<1>1. CASE LcdNext
  BY <1>1, PrintInv, DrawInv, EndInv, PictureInv, PutsInv, ClearInv DEF LcdNext
<1>2. CASE UNCHANGED lcdVars
  BY <1>2 DEF lcdVars, LcdInv, CursorInv, FromStart, InFrame, NotBeyond, NotBefore, OnPanel
<1> QED
  BY <1>1, <1>2

(***************************************************************************)
(* lcd_printf16, lcd_printf24, the pictures and the clearing of lines end  *)
(* inside the frame buffer, for every size of it, and text within the      *)
(* panel's width; they begin inside it just if the place is not negative.  *)
(***************************************************************************)
THEOREM TextInFrame == LcdSpec => []InFrame
<1>1. LcdInv => InFrame
  BY DEF LcdInv
<1> QED
  BY <1>1, LcdInitInv, LcdStepInv, PTL DEF LcdSpec
-----------------------------------------------------------------------------
(* Types *)

PrintTypes ==
  /\ text \in Seq(Byte) /\ ft \in 1 .. Len(text) + 1
  /\ {x, y, xreg, curx} \subseteq Int /\ xnum \in Nat
  /\ line \in 0 .. 2 /\ start \in [x : Int, y : Int] /\ ret \in {0, -1, -2, -3, -4, 255}
  /\ lcd = "idle" => ft = 1

LEMMA PrintTyped == ASSUME LcdInv, PrintTypes, PrintText PROVE PrintTypes'
<1>1. PICK x0 \in Xs, y0 \in Ys :
        \/ \E code \in {-1, -2} : PrintRefused(x0, y0, code)
        \/ \E f \in Fonts, t \in Texts : PrintStart(f, t, x0, y0)
  BY DEF PrintText
<1>2. x0 \in Int /\ y0 \in Int /\ PANEL_X \in Nat
  BY LcdAssumption
<1>3. CASE \E code \in {-1, -2} : PrintRefused(x0, y0, code)
  BY <1>3 DEF PrintRefused, Return, PrintTypes
<1>4. ASSUME NEW f \in Fonts, NEW t \in Texts, PrintStart(f, t, x0, y0) PROVE PrintTypes'
  <2>1. t \in Seq(Byte) /\ Len(t) \in Nat
    BY DEF Texts
  <2>2. f.w \in Nat \ {0} /\ x0 <= PANEL_X
    BY <1>4, LcdAssumption DEF PrintStart
  <2>3. PANEL_X - x0 \in Nat
    BY <1>2, <2>2
  <2>4. (PANEL_X - x0) \div f.w \in Nat
    BY <2>2, <2>3, WholeCells
  <2>5. ft = 1 /\ line \in 0 .. 2 /\ ret \in {0, -1, -2, -3, -4, 255}
    BY DEF PrintText, PrintTypes
  <2> QED
    BY <1>2, <1>4, <2>1, <2>4, <2>5 DEF PrintStart, PrintTypes
<1> QED
  BY <1>1, <1>3, <1>4

LEMMA DrawTyped == ASSUME LcdInv, PrintTypes, Draw PROVE PrintTypes'
<1>1. font.w \in Nat /\ font.h \in Nat
  BY LcdAssumption DEF LcdInv
<1>2. Cells \in {1, 2} /\ ft + Cells <= Len(text) + 1 /\ Len(text) \in Nat
  BY DEF Cells, Pair, Draw, AtEnd, PrintTypes
<1>3. x + Cells * font.w \in Int
  BY <1>1, <1>2, SMT DEF PrintTypes
<1>4. line \in {1, 2}
  BY DEF Draw, LcdInv, CursorInv
<1>5. /\ text' = text /\ xreg' = xreg /\ xnum' = xnum /\ start' = start /\ ft' = ft + Cells
      /\ lcd = "text" /\ lcd' \in {"text", "done"} /\ ret' \in {-3, ret}
  BY DEF Draw
<1>6. x' \in Int /\ y' \in Int /\ curx' \in Int /\ line' \in 0 .. 2
  <2>1. x \in Int /\ y \in Int /\ xreg \in Int /\ xnum \in Nat /\ curx \in Int
    BY DEF PrintTypes
  <2>2. CASE LineIsFull
    <3>1. line' = line - 1 /\ curx' = xnum /\ y' = y + font.h /\ x' = xreg
      BY <2>2 DEF Draw
    <3> QED
      BY <1>1, <1>4, <2>1, <3>1
  <2>3. CASE ~LineIsFull
    <3>1. curx' = curx - Cells /\ x' = x + Cells * font.w /\ line' = line /\ y' = y
      BY <2>3 DEF Draw
    <3> QED
      BY <1>2, <1>3, <1>4, <2>1, <3>1
  <2> QED
    BY <2>2, <2>3
<1> QED
  BY <1>2, <1>5, <1>6 DEF PrintTypes

LEMMA OtherTyped ==
  ASSUME PrintTypes,
         \/ DrawFails \/ PrintEnds \/ DisplayDefPicture \/ DisplayPicture
         \/ PutsLcd \/ ClearLines \/ FillScreen
  PROVE  PrintTypes'
<1>1. ASSUME NEW rects, NEW x0 \in Int, NEW y0 \in Int, NEW code \in {0, -1, -2, -3, 255},
             Only(rects, x0, y0, code)
      PROVE  PrintTypes'
  BY <1>1 DEF Only, PrintTypes
<1>2. CASE DrawFails
  BY <1>2 DEF DrawFails, Truncated, AtEnd, Return, PrintTypes
<1>3. CASE PrintEnds
  BY <1>3 DEF PrintEnds, Return, PrintTypes
<1>4. CASE DisplayDefPicture \/ DisplayPicture
  <2>1. ASSUME NEW before, NEW x0 \in Int, NEW y0 \in Int, NEW w, NEW h,
               AssignPicture(before, x0, y0, w, h)
        PROVE  PrintTypes'
    BY <1>1, <2>1 DEF AssignPicture
  <2>2. \A p \in DefPictures \cup {Demo} : p.x \in Int /\ p.y \in Int
    BY DEF DefPictures, Demo, Rect
  <2>3. Xs \cup {FB_XMAX + 1} \subseteq Int /\ Ys \subseteq Int
    <3>1. FB_XMAX + 1 \in Int /\ Xs \subseteq Int /\ Ys \subseteq Int
      BY LcdAssumption
    <3> QED
      BY <3>1
  <2>4. CASE DisplayDefPicture
    BY <1>1, <2>1, <2>2, <2>4 DEF DisplayDefPicture
  <2>5. CASE DisplayPicture
    BY <1>1, <2>1, <2>3, <2>5 DEF DisplayPicture
  <2> QED
    BY <1>4, <2>4, <2>5
<1>5. CASE PutsLcd \/ FillScreen
  <2>1. CASE PutsLcd
    <3>1. PICK f \in Fonts, m \in 0 .. PUTS - 1 :
            Only({Rect(j * f.w, 0, f.w, f.h) : j \in 0 .. m - 1}, 0, 0, 0)
      BY <2>1 DEF PutsLcd
    <3> QED
      BY <1>1, <3>1
  <2>2. CASE FillScreen
    BY <1>1, <2>2 DEF FillScreen
  <2> QED
    BY <1>5, <2>1, <2>2
<1>6. CASE ClearLines
  <2>1. Ys \cup {0, FB_YMAX - 1, FB_YMAX} \subseteq Int
    <3>1. FB_YMAX - 1 \in Int /\ FB_YMAX \in Int /\ Ys \subseteq Int
      BY LcdAssumption
    <3> QED
      BY <3>1
  <2> QED
    BY <1>1, <1>6, <2>1 DEF ClearLines, Scrcls
<1> QED
  BY <1>2, <1>3, <1>4, <1>5, <1>6

LEMMA TypedStep == LcdInv /\ PrintTypes /\ [LcdNext]_lcdVars => PrintTypes'
<1>1. ASSUME PrintTypes, UNCHANGED lcdVars PROVE PrintTypes'
  BY <1>1 DEF lcdVars, PrintTypes
<1> QED
  BY <1>1, PrintTyped, DrawTyped, OtherTyped DEF LcdNext

\* The pointer into the text never passes its terminator.
THEOREM LcdTypes == LcdSpec => []LcdTypeOK
<1>1. LcdInit => PrintTypes
  BY DEF LcdInit, PrintTypes
<1>2. LcdInv /\ PrintTypes /\ [LcdNext]_lcdVars => PrintTypes'
  BY TypedStep
<1>3. LcdInv /\ PrintTypes => LcdTypeOK
  BY DEF LcdInv, PrintTypes, LcdTypeOK
<1> QED
  BY <1>1, <1>2, <1>3, LcdInitInv, LcdStepInv, PTL DEF LcdSpec
-----------------------------------------------------------------------------
(* Every call returns *)

\* Steps of a call, at most: one per byte, and the one that returns.
CallLeft ==
  CASE lcd = "idle" -> MaxText + 2
    [] lcd = "text" -> Len(text) + 2 - ft
    [] OTHER -> 0

CallInRange == CallLeft \in 0 .. MaxText + 2 /\ (CallLeft = 0 <=> lcd \in {"done", "shown"})
CallFalls == CallLeft' < CallLeft

LEMMA CallRange == LcdInv /\ PrintTypes /\ Len(text) <= MaxText => CallInRange
<1> SUFFICES ASSUME LcdInv, PrintTypes, Len(text) <= MaxText PROVE CallInRange
  OBVIOUS
<1>1. MaxText \in Nat /\ Len(text) \in Nat /\ ft \in Nat \ {0} /\ ft <= Len(text) + 1
  BY LcdAssumption DEF PrintTypes
<1>2. lcd \in {"idle", "text", "done", "shown"}
  BY DEF LcdInv
<1> QED
  BY <1>1, <1>2 DEF CallInRange, CallLeft

LEMMA CallStepFalls ==
  ASSUME LcdInv, PrintTypes, LcdNext
  PROVE  CallFalls /\ (Len(text) <= MaxText => Len(text') <= MaxText)
<1>1. MaxText \in Nat /\ Len(text) \in Nat /\ ft \in Nat /\ ft <= Len(text) + 1
  BY LcdAssumption DEF PrintTypes
<1>2. CASE PrintText
  <2>1. PICK x0 \in Xs, y0 \in Ys :
          \/ \E code \in {-1, -2} : PrintRefused(x0, y0, code)
          \/ \E f \in Fonts, t \in Texts : PrintStart(f, t, x0, y0)
    BY <1>2 DEF PrintText
  <2>2. lcd = "idle" /\ ft = 1
    BY <1>2 DEF PrintText, PrintTypes
  <2>3. CASE \E code \in {-1, -2} : PrintRefused(x0, y0, code)
    BY <1>1, <2>2, <2>3 DEF PrintRefused, Return, CallFalls, CallLeft
  <2>4. ASSUME NEW f \in Fonts, NEW t \in Texts, PrintStart(f, t, x0, y0)
        PROVE  CallFalls /\ (Len(text) <= MaxText => Len(text') <= MaxText)
    <3>1. Len(t) \in 0 .. MaxText
      BY <1>1 DEF Texts
    <3>2. lcd' = "text" /\ text' = t /\ ft' = ft
      BY <2>4 DEF PrintStart
    <3> QED
      BY <1>1, <2>2, <3>1, <3>2 DEF CallFalls, CallLeft
  <2> QED
    BY <2>1, <2>3, <2>4
<1>3. CASE Draw
  <2>1. /\ lcd = "text" /\ lcd' \in {"text", "done"} /\ text' = text
        /\ Cells \in {1, 2} /\ ft + Cells <= Len(text) + 1 /\ ft' = ft + Cells
    BY <1>1, <1>3 DEF Draw, Cells, Pair, AtEnd
  <2> QED
    BY <1>1, <2>1 DEF CallFalls, CallLeft
<1>4. CASE DrawFails \/ PrintEnds
  BY <1>1, <1>4 DEF DrawFails, PrintEnds, Return, CallFalls, CallLeft
<1>5. CASE DisplayDefPicture \/ DisplayPicture \/ PutsLcd \/ ClearLines \/ FillScreen
  <2>1. lcd = "idle" /\ lcd' = "shown" /\ text' = text
    BY <1>5 DEF DisplayDefPicture, DisplayPicture, AssignPicture, PutsLcd, ClearLines, Scrcls,
                FillScreen, Only
  <2> QED
    BY <1>1, <2>1 DEF CallFalls, CallLeft
<1> QED
  BY <1>2, <1>3, <1>4, <1>5 DEF LcdNext

(***************************************************************************)
(* The loop of lcd_printf16 and lcd_printf24 (liblcd.c:380 and :436) ends  *)
(* for every text, place and font: every turn goes on in the text, and the *)
(* terminator, a cut character and the end of the second line are its only *)
(* exits.                                                                  *)
(***************************************************************************)
THEOREM PrintReturns == LcdSpec => []CallInRange /\ [][CallFalls]_lcdVars
<1>1. LcdInit => PrintTypes /\ Len(text) <= MaxText
  BY LcdAssumption DEF LcdInit, PrintTypes
<1>2. LcdInv /\ PrintTypes /\ [LcdNext]_lcdVars =>
        [CallFalls]_lcdVars /\ (Len(text) <= MaxText => (Len(text) <= MaxText)')
  BY CallStepFalls DEF lcdVars
<1> QED
  BY <1>1, <1>2, CallRange, TypedStep, LcdInitInv, LcdStepInv, PTL DEF LcdSpec
-----------------------------------------------------------------------------
(* Every byte in a cell of its own *)

\* A rectangle drawn before the cursor: on this line to its left, or above.
Before(r) == (r.y = y /\ r.x + r.w <= x) \/ r.y + r.h <= y

GlyphsInv ==
  /\ IsFiniteSet(CellsDrawn)
  /\ \A r \in drawn :
       r.x \in Int /\ r.y \in Int /\ r.w \in Nat \ {0} /\ r.h = font.h

\* Apartness of the next glyph follows from where the cursor is.
TextInv ==
  /\ lcd = "idle" => ret = 0
  /\ lcd \in {"text", "done"} => GlyphsInv
  /\ lcd = "text" => ret = 0 /\ \A r \in drawn : Before(r)
  /\ AllShown

LEMMA PrintShown ==
  ASSUME LcdInv, PrintTypes, PrintTypes', TextInv, PrintText
  PROVE  TextInv'
<1>1. lcd = "idle" /\ drawn = {} /\ ft = 1 /\ ret = 0
  BY DEF PrintText, LcdInv, PrintTypes, TextInv
<1>2. drawn' = {} /\ ft' = 1 /\ ((lcd' = "text" /\ ret' = 0) \/ (lcd' = "done" /\ ret' \in {-1, -2}))
  <2>1. PICK x0 \in Xs, y0 \in Ys :
          \/ \E code \in {-1, -2} : PrintRefused(x0, y0, code)
          \/ \E f \in Fonts, t \in Texts : PrintStart(f, t, x0, y0)
    BY DEF PrintText
  <2>2. CASE \E code \in {-1, -2} : PrintRefused(x0, y0, code)
    BY <1>1, <2>2 DEF PrintRefused, Return
  <2>3. CASE \E f \in Fonts, t \in Texts : PrintStart(f, t, x0, y0)
    <3>1. PICK f \in Fonts, t \in Texts : PrintStart(f, t, x0, y0)
      BY <2>3
    <3>2. lcd' = "text" /\ ft' = ft /\ ret' = ret /\ drawn' = drawn
      BY <3>1, Zenon DEF PrintStart
    <3> QED
      BY <1>1, <3>2
  <2> QED
    BY <2>1, <2>2, <2>3
<1>3. (CellsDrawn = {} /\ IsFiniteSet(CellsDrawn) /\ Cardinality(CellsDrawn) = 0)'
  <2>1. CellsDrawn' = {}
    BY <1>2 DEF CellsDrawn
  <2> QED
    BY <2>1, FS_EmptySet
<1>4. Shown' = 0
  BY <1>2 DEF Shown
<1> QED
  BY <1>2, <1>3, <1>4 DEF TextInv, GlyphsInv, AllShown

\* A glyph behind everything drawn adds its own cells.
LEMMA CellsAdded ==
  ASSUME LcdInv, GlyphsInv, Glyph \notin drawn, drawn' = drawn \cup {Glyph}, font' = font
  PROVE  /\ IsFiniteSet(CellsDrawn')
         /\ Cardinality(CellsDrawn') = Cardinality(CellsDrawn) + Cells
<1>1. font.w \in Nat \ {0}
  BY FontSizes DEF LcdInv
<1>2. Glyph.w = Cells * font.w /\ Cells \in {1, 2}
  BY DEF Glyph, Cells
<1> DEFINE w == font.w
           G == Glyph
           One == CellsDrawn \cup {<<G, 1>>}
<1>3. <<G, 1>> \notin CellsDrawn /\ <<G, 2>> \notin CellsDrawn
  BY DEF CellsDrawn
<1>4. IsFiniteSet(One) /\ Cardinality(One) = Cardinality(CellsDrawn) + 1
  <2>1. IsFiniteSet(CellsDrawn)
    BY DEF GlyphsInv
  <2> QED
    BY <1>3, <2>1, FS_AddElement, Zenon
<1>5. CellsDrawn' = {c \in (drawn \cup {G}) \X {1, 2} : c[2] * w <= c[1].w}
  BY DEF CellsDrawn
<1>6. CellsDrawn = {c \in drawn \X {1, 2} : c[2] * w <= c[1].w}
  BY DEF CellsDrawn
<1>7. Cardinality(CellsDrawn) \in Nat
  BY FS_CardinalityType DEF GlyphsInv
<1>8. CASE Cells = 1
  <2>1. 1 * w <= G.w /\ ~ (2 * w <= G.w)
    BY <1>1, <1>2, <1>8
  <2> HIDE DEF w, G
  <2>2. CellsDrawn' = One
    BY <1>5, <1>6, <2>1
  <2> QED
    BY <1>4, <1>8, <2>2
<1>9. CASE Cells = 2
  <2>1. 1 * w <= G.w /\ 2 * w <= G.w
    BY <1>1, <1>2, <1>9
  <2>2. <<G, 2>> \notin One
    BY <1>3
  <2>3. /\ IsFiniteSet(One \cup {<<G, 2>>})
        /\ Cardinality(One \cup {<<G, 2>>}) = Cardinality(One) + 1
    BY <1>4, <2>2, FS_AddElement, Zenon
  <2> HIDE DEF w, G
  <2>4. CellsDrawn' = One \cup {<<G, 2>>}
    BY <1>5, <1>6, <2>1
  <2> QED
    BY <1>4, <1>7, <1>9, <2>3, <2>4
<1> QED
  BY <1>2, <1>8, <1>9

LEMMA DrawShown ==
  ASSUME LcdInv, PrintTypes, TextInv, Draw
  PROVE  TextInv'
<1>1. /\ lcd = "text" /\ ret = 0 /\ GlyphsInv /\ \A r \in drawn : Before(r)
      /\ AllShown /\ CursorInv /\ font \in Fonts
  BY DEF TextInv, LcdInv, Draw
<1>2. font.w \in Nat \ {0} /\ font.h \in Nat \ {0}
  BY <1>1, FontSizes
<1>3. /\ drawn' = drawn \cup {Glyph} /\ font' = font /\ ft' = ft + Cells
      /\ lcd' \in {"text", "done"} /\ text' = text
      /\ lcd' = "text" => ret' = 0
      /\ lcd' = "done" => ret' = -3 /\ line' = 0
  BY <1>1 DEF Draw
<1>4. Cells \in {1, 2} /\ x \in Int /\ y \in Int /\ ft \in Int
  BY <1>1 DEF Cells, CursorInv, PrintTypes
<1>5. /\ Glyph.x = x /\ Glyph.y = y /\ Glyph.w = Cells * font.w /\ Glyph.h = font.h
      /\ Glyph.w \in Nat \ {0}
  <2>1. Cells * font.w \in Nat \ {0}
    BY <1>2, <1>4
  <2> QED
    BY <2>1 DEF Glyph
<1>6. ASSUME NEW r \in drawn PROVE Apart(r, Glyph) /\ Apart(Glyph, r) /\ r # Glyph
  <2>1. Before(r) /\ r.x \in Int /\ r.y \in Int /\ r.w \in Nat \ {0} /\ r.h \in Nat \ {0}
    BY <1>1, <1>2 DEF GlyphsInv
  <2> QED
    BY <1>4, <1>5, <2>1 DEF Before, Apart
<1>7. Glyph \notin drawn
  BY <1>6
<1>8. GlyphsInv' /\ Cardinality(CellsDrawn') = Cardinality(CellsDrawn) + Cells
  <2>1. IsFiniteSet(CellsDrawn') /\ Cardinality(CellsDrawn') = Cardinality(CellsDrawn) + Cells
    BY <1>1, <1>3, <1>7, CellsAdded
  <2> QED
    BY <1>1, <1>2, <1>3, <1>4, <1>5, <2>1 DEF GlyphsInv
<1>9. Cardinality(CellsDrawn') = Shown'
  <2>1. Cardinality(CellsDrawn) = ft - 1
    BY <1>1 DEF AllShown, Shown
  <2>2. Shown' = ft' - 1
    BY <1>3 DEF Shown
  <2> QED
    BY <1>3, <1>4, <1>8, <2>1, <2>2
<1>10. \A r, s \in drawn' : r # s => Apart(r, s)
  BY <1>1, <1>3, <1>6 DEF AllShown
<1>11. ASSUME NEW r \in drawn' PROVE Before(r)'
  <2>1. r.x \in Int /\ r.y \in Int /\ r.w \in Nat \ {0} /\ r.h = font.h
    BY <1>1, <1>3, <1>4, <1>5 DEF GlyphsInv
  <2>2. Cells * font.w \in Nat
    BY <1>5
  <2>3. \/ r.y = y /\ r.x + r.w <= x + Cells * font.w
        \/ r.y + r.h <= y
    <3>1. CASE r \in drawn
      BY <1>1, <1>4, <2>1, <2>2, <3>1 DEF Before
    <3>2. CASE r = Glyph
      <4>1. r.y = y /\ r.x = x /\ r.w = Cells * font.w
        BY <1>5, <3>2
      <4> HIDE <3>2
      <4> QED
        BY <1>4, <2>2, <4>1
    <3> QED
      BY <1>3, <3>1, <3>2
  <2>4. CASE LineIsFull
    <3>1. y' = y + font.h
      BY <2>4 DEF Draw
    <3> QED
      BY <1>2, <1>4, <2>1, <2>3, <3>1 DEF Before
  <2>5. CASE ~LineIsFull
    <3>1. y' = y /\ x' = x + Cells * font.w
      BY <2>5 DEF Draw
    <3> QED
      BY <2>3, <3>1 DEF Before
  <2> QED
    BY <2>4, <2>5
<1> QED
  BY <1>3, <1>8, <1>9, <1>10, <1>11 DEF TextInv, AllShown

LEMMA EndShown ==
  ASSUME PrintTypes, TextInv, DrawFails \/ PrintEnds
  PROVE  TextInv'
<1>1. /\ lcd = "text" /\ ret = 0 /\ GlyphsInv /\ Cardinality(CellsDrawn) = ft - 1
      /\ \A r, s \in drawn : r # s => Apart(r, s)
  BY DEF TextInv, AllShown, Shown, DrawFails, PrintEnds
<1>2. drawn' = drawn /\ font' = font /\ text' = text /\ lcd' = "done"
  BY DEF DrawFails, PrintEnds, Return
<1>3. CellsDrawn' = CellsDrawn /\ GlyphsInv'
  BY <1>1, <1>2 DEF CellsDrawn, GlyphsInv
<1>4. ft \in Nat /\ ft <= Len(text) + 1 /\ Len(text) \in Nat
  BY DEF PrintTypes
<1>5. CASE DrawFails
  <2>1. ft' = ft + 1 /\ ret' = -4 /\ ft <= Len(text)
    BY <1>4, <1>5 DEF DrawFails, Truncated, AtEnd, Return
  <2>2. Shown' = ft - 1
    BY <1>4, <2>1 DEF Shown
  <2> QED
    BY <1>1, <1>2, <1>3, <1>4, <2>1, <2>2 DEF TextInv, AllShown
<1>6. CASE PrintEnds
  <2>1. ft' = ft /\ ret' = 0 /\ ft > Len(text)
    BY <1>6 DEF PrintEnds, AtEnd, Return
  <2>2. Shown' = ft - 1
    BY <1>4, <2>1 DEF Shown
  <2> QED
    BY <1>1, <1>2, <1>3, <1>4, <2>1, <2>2 DEF TextInv, AllShown
<1> QED
  BY <1>5, <1>6

\* A picture or black lines end the call without a text.
LEMMA PictureShown ==
  ASSUME DisplayDefPicture \/ DisplayPicture \/ PutsLcd \/ ClearLines \/ FillScreen
  PROVE  TextInv'
<1>1. lcd' = "shown"
  BY DEF DisplayDefPicture, DisplayPicture, PutsLcd, ClearLines, FillScreen, AssignPicture,
         Scrcls, Only
<1> QED
  BY <1>1 DEF TextInv, AllShown

LEMMA QuietShown == ASSUME TextInv, UNCHANGED lcdVars PROVE TextInv'
<1>1. CellsDrawn' = CellsDrawn /\ Shown' = Shown
  BY DEF lcdVars, CellsDrawn, Shown
<1> QED
  BY <1>1 DEF lcdVars, TextInv, GlyphsInv, Before, AllShown

(***************************************************************************)
(* Every byte of the text up to where printing stopped is shown in a cell  *)
(* of its own, for text of every length.                                   *)
(***************************************************************************)
THEOREM EveryByteShown == LcdSpec => []AllShown
<1>1. LcdInit => PrintTypes /\ TextInv
  BY DEF LcdInit, PrintTypes, TextInv, AllShown
<1>2. LcdInv /\ PrintTypes /\ [LcdNext]_lcdVars => PrintTypes'
  BY TypedStep
<1>3. LcdInv /\ PrintTypes /\ PrintTypes' /\ TextInv /\ [LcdNext]_lcdVars => TextInv'
  BY PrintShown, DrawShown, EndShown, PictureShown, QuietShown DEF LcdNext
<1>4. TextInv => AllShown
  BY DEF TextInv
<1> QED
  BY <1>1, <1>2, <1>3, <1>4, LcdInitInv, LcdStepInv, PTL DEF LcdSpec
=============================================================================
