------------------------------ MODULE TextMode ------------------------------
(***************************************************************************)
(* The colour text mode of src/ECE385_7.2 (pw16, wpsass2): the driver, one *)
(* bus access at a time, and the registers and memory of the controller.   *)
(* The on-chip memory takes every write, those to the palette as well, and *)
(* answers every read: the palette registers cannot be read.               *)
(***************************************************************************)
EXTENDS Integers

CONSTANTS
    CellCount,          \* ROWS * COLUMNS
    ColorTable,         \* colors[]: a colour for each number, an even count
    Glyphs,             \* what the strings are made of
    PowerUp             \* what a half of a palette word may hold at first

(* Two colours a word, and no more of them than a half byte can name. *)
ASSUME TextAssumption ==
    /\ CellCount \in Nat \ {0}
    /\ \E n \in 1 .. 8 : ColorTable \in [0 .. 2 * n - 1 -> Nat]
    /\ Glyphs \subseteq Nat /\ PowerUp \subseteq Nat

ColorNumbers == DOMAIN ColorTable
PaletteWords == {c \div 2 : c \in ColorNumbers}
Cells == 0 .. CellCount - 1

VARIABLES
    palette, shadow,    \* the palette words, and the memory at their addresses
    vram,               \* the bytes of the screen
    doing, i,           \* what the driver does, and its loop counter
    step, word,         \* the access it comes to, and the word it has read
    string,             \* the cell, colours and glyph it draws
    set, drawn          \* history: colours set, text drawn since the reset

txtVars == <<palette, shadow, vram, doing, i, step, word, string, set, drawn>>
-----------------------------------------------------------------------------
(* A palette word holds two colours, the odd one above the even one. *)
Halves == {0, 1}
Kept(c, w) == [w EXCEPT ![c % 2] = 0]                    \* PALETTE & mask
WithColor(c, w) == [w EXCEPT ![c % 2] = ColorTable[c]]      \* PALETTE |= colour

(* Fault: a write to the palette does not go to the memory. *)
WritePaletteOnly(k, w) == palette' = [palette EXCEPT ![k] = w] /\ UNCHANGED shadow
WritePalette(k, w) ==
    /\ palette' = [palette EXCEPT ![k] = w]
    /\ shadow' = [shadow EXCEPT ![k] = w]

ClearByte ==
    /\ doing = "clear"
    /\ vram' = [vram EXCEPT ![i] = 0]
    /\ IF i = 2 * CellCount - 1
       THEN doing' = "palette" /\ i' = 0
       ELSE UNCHANGED doing /\ i' = i + 1
    /\ UNCHANGED <<palette, shadow, step, word, string, set, drawn>>

(* setColorPalette of colour i: read, write masked, read, write joined. *)
ReadPalette ==
    /\ doing = "palette" /\ step \in {0, 2}
    /\ word' = shadow[i \div 2]
    /\ step' = step + 1
    /\ UNCHANGED <<palette, shadow, vram, doing, i, string, set, drawn>>

WriteMasked ==
    /\ doing = "palette" /\ step = 1
    /\ WritePalette(i \div 2, Kept(i, word))
    /\ step' = 2
    /\ UNCHANGED <<vram, doing, i, word, string, set, drawn>>

WriteJoined ==
    /\ doing = "palette" /\ step = 3
    /\ WritePalette(i \div 2, WithColor(i, word))
    /\ step' = 0
    /\ set' = set \cup {i}
    /\ IF i + 1 \in ColorNumbers
       THEN UNCHANGED doing /\ i' = i + 1
       ELSE doing' = "choose" /\ i' = 0
    /\ UNCHANGED <<vram, word, string, drawn>>

(* A glyph of the next string: two different colours, somewhere on screen. *)
Choose ==
    /\ doing = "choose"
    /\ \E x \in Cells, fg, bg \in ColorNumbers, glyph \in Glyphs :
          /\ fg # bg
          /\ string' = [cell |-> x, fg |-> fg, bg |-> bg, glyph |-> glyph]
    /\ doing' = "draw"
    /\ UNCHANGED <<palette, shadow, vram, i, step, word, set, drawn>>

(* textVGADrawColorText: the colour byte and the glyph byte of a cell. *)
(* Fault: the background is above the foreground. *)
ColorByteSwapped(s) == 16 * s.bg + s.fg
ColorByte(s) == 16 * s.fg + s.bg

DrawByte ==
    /\ doing = "draw"
    /\ vram' = [vram EXCEPT ![2 * string.cell + step] =
                    IF step = 0 THEN ColorByte(string) ELSE string.glyph]
    /\ IF step = 0
       THEN step' = 1 /\ UNCHANGED <<doing, drawn>>
       ELSE /\ step' = 0
            /\ doing' = "choose"
            /\ drawn' = [drawn EXCEPT ![string.cell] = string]
    /\ UNCHANGED <<palette, shadow, i, word, string, set>>

NoString == [cell |-> 0, fg |-> 0, bg |-> 0, glyph |-> 0]

(* A reset starts the driver again and clears the palette register that    *)
(* happens to be addressed; the memory keeps what it holds.                *)
SystemReset ==
    /\ \E k \in PaletteWords : palette' = [palette EXCEPT ![k] = [h \in Halves |-> 0]]
    /\ doing' = "clear" /\ i' = 0
    /\ step' = 0 /\ word' = [h \in Halves |-> 0] /\ string' = NoString
    /\ set' = {}
    /\ drawn' = [x \in Cells |-> NoString]
    /\ UNCHANGED <<shadow, vram>>

TxtInit ==
    /\ \E v \in PowerUp :
          palette = [k \in PaletteWords |-> [h \in Halves |-> v]]
    /\ shadow = [k \in PaletteWords |-> [h \in Halves |-> 0]]
    /\ vram = [b \in 0 .. 2 * CellCount - 1 |-> 0]
    /\ doing = "clear" /\ i = 0
    /\ step = 0 /\ word = [h \in Halves |-> 0] /\ string = NoString
    /\ set = {}
    /\ drawn = [x \in Cells |-> NoString]

TxtNext ==
    \/ ClearByte
    \/ ReadPalette \/ WriteMasked \/ WriteJoined
    \/ Choose \/ DrawByte
    \/ SystemReset

TxtSpec == TxtInit /\ [][TxtNext]_txtVars
-----------------------------------------------------------------------------
(* What the controller draws of a cell: the colour numbers of its lower    *)
(* byte select a word and a half, the upper byte is the glyph.             *)
PaletteColor(c) == palette[c \div 2][c % 2]

Shown(x) == [fg |-> PaletteColor(vram[2 * x] \div 16),
             bg |-> PaletteColor(vram[2 * x] % 16),
             glyph |-> vram[2 * x + 1]]

TxtTypeOK ==
    /\ doing \in {"clear", "palette", "choose", "draw"}
    /\ i \in 0 .. 2 * CellCount - 1 \cup ColorNumbers
    /\ step \in 0 .. 3
    /\ set \subseteq ColorNumbers

(* text_mode_vga_color.c:37-49: while one colour is being set, by reading  *)
(* back a memory beside the registers, no colour set before is disturbed,  *)
(* not for the time between its two writes either.                         *)
ColorsKept == \A c \in set : PaletteColor(c) = ColorTable[c]

(* text_mode_vga_color.c:25-35 with vga_text_avl_interface.sv:98-140: what *)
(* was drawn since the reset shows in its own colours and glyph.           *)
ShownAsDrawn ==
    doing = "choose" =>
        \A x \in Cells : drawn[x] # NoString =>
            Shown(x) = [fg |-> ColorTable[drawn[x].fg], bg |-> ColorTable[drawn[x].bg],
                        glyph |-> drawn[x].glyph]
=============================================================================
