----------------------------- MODULE MCLcdText ------------------------------
(* The screen's own numbers; text of up to 8 bytes that starts with room for *)
(* no cell up to 6 and more cells in a line, or before the frame buffer.     *)
EXTENDS LcdText
MCFonts == {[w |-> 8, h |-> 16], [w |-> 12, h |-> 24]}
MCXs == {-8, 400, 432, 440, 443, 450, 456, 459, 464, 472, 480, 481}
MCYs == {-20, 0, 272, 273}
=============================================================================
