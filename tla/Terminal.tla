------------------------------ MODULE Terminal ------------------------------
(***************************************************************************)
(* The text screen, src/src/io/vga.c: the buffer of characters vga_chars,  *)
(* the cursor, and what is drawn, by the character whose shape is there.   *)
(* Two parties print: kmain and a program's write system call, which run   *)
(* with interrupts enabled and so take a step per access to the cursor,    *)
(* and the keyboard handler (src/src/int/keyboard.c), which echoes each    *)
(* key between any two of those steps.                                     *)
(***************************************************************************)
EXTENDS Integers, Sequences

CONSTANTS
    W, H,       \* characters in a row, rows
    Letter,     \* printable characters
    MaxLine     \* bound: characters of an input line

ASSUME ScreenAssumption == W \in Nat \ {0} /\ H \in Nat \ {0} /\ MaxLine \in Nat

VARIABLES
    vga,        \* vga_chars, cur_row, cur_col, pixels; far: the furthest store
    write,      \* the write system call: its step, character, and register
    line,       \* the line typed since the read system call began
    reading     \* a read system call is waiting for Enter

vars == <<vga, write, line, reading>>

NUL == "nul"
SP == "space"
BS == "backspace"
NL == "newline"

(* The keys in KEYCODES that give one character give a printable one.      *)
ASSUME LetterAssumption == NUL \notin Letter /\ NL \notin Letter /\ BS \notin Letter

Char == Letter \cup {NUL, SP}
Idle == [pc |-> "idle", c |-> NUL, reg |-> 0]

Cells == 0..(W * H - 1)
Blank == [i \in Cells |-> SP]

-----------------------------------------------------------------------------

get_pos(row, col) == row * W + col

Larger(a, b) == IF a > b THEN a ELSE b

(* f with c in cell i.  Behind the last row nothing reads what is put.     *)
Put(f, i, c) == [p \in Cells |-> IF p = i THEN c ELSE f[p]]

(* vga_chars[i] = c.  From W * H on it is not vga_chars that is stored to. *)
Store(v, i, c) == [v EXCEPT !.chars = Put(@, i, c), !.far = Larger(@, i)]

(* Behind the end of a row comes the next line of pixels: the shape is in  *)
(* the row's first cell then.                                              *)
draw_char(v, row, col, c) ==
    [v EXCEPT !.pixels = Put(@, get_pos(row, IF col < W THEN col ELSE 0), c)]

(* Faulty variant: what was moved is not drawn again.                      *)
Moved_undrawn(v, rows) ==
    [v EXCEPT !.chars = [p \in Cells |-> IF p \div W \in rows THEN @[p + W] ELSE @[p]]]

(* Each of these rows becomes the next one; a NUL is not drawn.            *)
Moved(v, rows) ==
    LET chars == [p \in Cells |-> IF p \div W \in rows THEN v.chars[p + W] ELSE v.chars[p]]
    IN  [v EXCEPT !.chars = chars,
                  !.pixels = [p \in Cells |-> IF p \div W \in rows /\ chars[p] # NUL
                                              THEN chars[p] ELSE @[p]]]

(* The cursor's row is cleared.                                            *)
ClearRow(v) ==
    LET Cleared(f) == [p \in Cells |-> IF p \div W = v.row THEN SP ELSE f[p]]
    IN  [v EXCEPT !.chars = Cleared(@), !.pixels = Cleared(@),
                  !.far = Larger(@, get_pos(v.row, W - 1))]

Scroll(v) == ClearRow(Moved(v, 0..(H - 2)))

(* Faulty variant: the last row is left one line too late.                 *)
vga_newline_late(v) ==
    IF v.row + 1 <= H THEN [v EXCEPT !.col = 0, !.row = @ + 1]
    ELSE Scroll([v EXCEPT !.col = 0])

vga_newline(v) ==
    IF v.row + 1 < H THEN [v EXCEPT !.col = 0, !.row = @ + 1]
    ELSE Scroll([v EXCEPT !.col = 0])

Back(v) ==
    IF v.col # 0 THEN [v EXCEPT !.col = @ - 1]
    ELSE IF v.row # 0 THEN [v EXCEPT !.col = W - 1, !.row = @ - 1]
    ELSE v

(* vga_putchar without interruption, as the keyboard handler calls it.     *)
vga_putchar(v, c) ==
    CASE c = NL -> vga_newline(v)
      [] c = BS -> Back(v)
      [] OTHER ->
            LET drawn == draw_char(Store(v, get_pos(v.row, v.col), c), v.row, v.col, c)
                put   == [drawn EXCEPT !.col = @ + 1]
            IN  IF put.col >= W THEN vga_newline(put) ELSE put

-----------------------------------------------------------------------------

(* vga_init and vga_clear; pixels that were never drawn are dark.          *)
NewScreen ==
    [chars |-> [i \in Cells |-> NUL], pixels |-> Blank, row |-> 0, col |-> 0, far |-> 0]

(* kmain has printed "Booting...", and interrupts are enabled.             *)
Init ==
    /\ \E c \in Letter : vga = vga_putchar(NewScreen, c)
    /\ write = [Idle EXCEPT !.pc = "clear"]
    /\ line = <<>>
    /\ reading = FALSE

(* The write system call passes a character to vga_putchar.                *)
Write(c) ==
    /\ write.pc = "idle" /\ ~reading
    /\ write' = [pc |-> CASE c = NL -> "newline" [] c = BS -> "back" [] OTHER -> "put",
                 c |-> c, reg |-> vga.col]
    /\ UNCHANGED <<vga, line, reading>>

Goto(from, to, reg) ==
    /\ write.pc = from
    /\ write' = IF to = "idle" THEN Idle ELSE [write EXCEPT !.pc = to, !.reg = reg]
    /\ UNCHANGED <<line, reading>>

(* The character is stored, and drawn where the cursor is by then; then    *)
(* ++cur_col is a load, ...                                                *)
PutStore ==
    /\ Goto("put", "draw", 0)
    /\ vga' = Store(vga, get_pos(vga.row, write.reg), write.c)
PutDraw ==
    /\ Goto("draw", "load", 0)
    /\ vga' = draw_char(vga, vga.row, vga.col, write.c)
Load ==
    /\ Goto("load", "advance", vga.col)
    /\ UNCHANGED vga

(* ... and a store, and the register is compared with the width.           *)
Advance ==
    /\ Goto("advance", IF write.reg + 1 >= W THEN "newline" ELSE "idle", 0)
    /\ vga' = [vga EXCEPT !.col = write.reg + 1]

(* vga_newline: cur_col = 0, ++cur_row likewise, and cur_row-- if that was *)
(* too far, before scrolling.                                              *)
NewlineColumn ==
    /\ Goto("newline", "row", vga.row)
    /\ vga' = [vga EXCEPT !.col = 0]
NewlineRow ==
    /\ Goto("row", IF write.reg + 1 < H THEN "idle" ELSE "undo", write.reg)
    /\ vga' = [vga EXCEPT !.row = write.reg + 1]
NewlineUndo ==
    /\ Goto("undo", "scroll", 0)
    /\ vga' = [vga EXCEPT !.row = write.reg]
ScrollStep ==
    \/ /\ write.reg < H - 1 /\ Goto("scroll", "scroll", write.reg + 1)
       /\ vga' = Moved(vga, {write.reg})
    \/ /\ write.reg = H - 1 /\ Goto("scroll", "idle", 0)
       /\ vga' = ClearRow(vga)

(* Backspace: the column, or the row and then the column.                  *)
BackColumn ==
    /\ write.reg # 0 /\ Goto("back", "idle", 0)
    /\ vga' = [vga EXCEPT !.col = write.reg - 1]
BackLoadRow ==
    /\ write.reg = 0 /\ Goto("back", IF vga.row = 0 THEN "idle" ELSE "up", vga.row)
    /\ UNCHANGED vga
BackRow ==
    /\ Goto("up", "end", 0)
    /\ vga' = [vga EXCEPT !.row = write.reg - 1]
BackEnd ==
    /\ Goto("end", "idle", 0)
    /\ vga' = [vga EXCEPT !.col = W - 1]

(* kmain's vga_clear: the row, the column, and then the pixels column by   *)
(* column; vga_chars stays as it is.                                       *)
vga_clear ==
    \/ /\ Goto("clear", "clear_column", 0)
       /\ vga' = [vga EXCEPT !.row = 0]
    \/ /\ Goto("clear_column", "clear_pixels", 0)
       /\ vga' = [vga EXCEPT !.col = 0]
    \/ /\ Goto("clear_pixels", IF write.reg + 1 < W THEN "clear_pixels" ELSE "idle", write.reg + 1)
       /\ vga' = [vga EXCEPT !.pixels =
                    [p \in Cells |-> IF p % W = write.reg THEN SP ELSE @[p]]]

WriteStep ==
    \/ vga_clear
    \/ PutStore \/ PutDraw \/ Load \/ Advance
    \/ NewlineColumn \/ NewlineRow \/ NewlineUndo \/ ScrollStep
    \/ BackColumn \/ BackLoadRow \/ BackRow \/ BackEnd

-----------------------------------------------------------------------------

(* The program waits for a line: it does not write meanwhile.              *)
Read ==
    /\ write.pc = "idle" /\ ~reading
    /\ reading' = TRUE /\ line' = <<>>
    /\ UNCHANGED <<vga, write>>

PressLetter(c) ==
    /\ Len(line) < MaxLine
    /\ vga' = vga_putchar(vga, c)
    /\ line' = IF reading THEN Append(line, c) ELSE line
    /\ UNCHANGED <<write, reading>>

PressBackspace ==
    /\ vga' = vga_putchar(vga_putchar(vga_putchar(vga, BS), SP), BS)
    /\ line' = IF reading /\ line # <<>> THEN SubSeq(line, 1, Len(line) - 1) ELSE line
    /\ UNCHANGED <<write, reading>>

PressEnter ==
    /\ vga' = vga_putchar(vga, NL)
    /\ reading' = FALSE
    /\ line' = <<>>
    /\ UNCHANGED write

Next ==
    \/ \E c \in Letter \cup {NL, BS} : Write(c)
    \/ WriteStep
    \/ Read
    \/ \E c \in Letter : PressLetter(c)
    \/ PressBackspace
    \/ PressEnter

Spec == Init /\ [][Next]_vars

-----------------------------------------------------------------------------

TypeOK ==
    /\ vga \in [chars : [Cells -> Char], pixels : [Cells -> Char],
                row : 0..H, col : 0..W, far : Nat]
    /\ write.c \in Letter \cup {NUL, NL, BS} /\ write.reg \in 0..(W + H)
    /\ line \in Seq(Letter) /\ reading \in BOOLEAN

(* Whatever the handler and an interrupted vga_putchar make of cur_row and *)
(* cur_col together, the cursor is on the screen again whenever no call of *)
(* vga_putchar is under way.  A key that arrives while vga_newline has     *)
(* cur_row one too far is stored behind the end of vga_chars, but never    *)
(* more than one row behind it.                                            *)
CursorOnScreen ==
    /\ TypeOK
    /\ write.pc = "idle" => vga.row < H /\ vga.col < W
    /\ vga.far < W * (H + 1)

(* While a program reads, the characters in front of the cursor, those     *)
(* drawn and those in vga_chars, are the line being typed, as far as they  *)
(* still fit on the screen: over row ends and scrolling, and after any     *)
(* number of Backspaces.                                                   *)
LineShown ==
    \A k \in 1..Len(line) :
        LET p == get_pos(vga.row, vga.col) - k
        IN  p >= 0 => vga.chars[p] = line[Len(line) + 1 - k] /\ vga.pixels[p] = vga.chars[p]

(* The screen shows vga_chars.  vga_newline does not see to this, as it    *)
(* leaves what it finds where it moves a NUL to, nor does vga_clear, which *)
(* keeps vga_chars.                                                        *)
ScreenShowsChars ==
    write.pc = "idle" => \A p \in 0..(W * H - 1) :
        vga.pixels[p] = IF vga.chars[p] = NUL THEN SP ELSE vga.chars[p]
=============================================================================
