--------------------------- MODULE TerminalProofs ---------------------------
(***************************************************************************)
(* Proofs about module Terminal, for screens of any width and height, any  *)
(* letters and lines of any length: wherever a key interrupts vga_putchar, *)
(* vga_newline or vga_clear, the cursor is on the screen again afterwards, *)
(* and while a program reads, the line that is typed is in front of it.    *)
(***************************************************************************)
EXTENDS Terminal, TLAPS

(* The screen's state, with no store more than a row behind vga_chars.     *)
Screen ==
    [chars : [Cells -> Char], pixels : [Cells -> Char], row : 0..H, col : 0..W,
     far : 0..(W * (H + 1) - 1)]

Steps == {"idle", "put", "draw", "load", "advance", "newline", "row", "undo", "scroll",
          "back", "up", "end", "clear", "clear_column", "clear_pixels"}

Input == line \in Seq(Letter) /\ reading \in BOOLEAN

(* Where the cursor can be at each step of an interrupted call, and what   *)
(* its register holds.                                                     *)
Cursor ==
    /\ vga \in Screen
    /\ write \in [pc : Steps, c : Letter \cup {NUL, NL, BS}, reg : 0..(W + H)]
    /\ write.pc # "undo" => vga.row < H
    /\ write.pc # "newline" => vga.col < W
    /\ write.pc \in {"put", "advance", "back", "clear_pixels"} => write.reg < W
    /\ write.pc \in {"put", "draw"} => write.c \in Letter
    /\ write.pc \in {"row", "scroll"} => write.reg < H
    /\ write.pc = "undo" => write.reg = H - 1
    /\ write.pc = "up" => write.reg \in 1..(H - 1)

IInv == Input /\ Cursor

(* Where vga_chars is stored to: a cell, or the row behind the last one.   *)
Reach == 0..(W * (H + 1) - 1)

(* A cursor on the screen is at a cell, and one a row too low in Reach.    *)
LEMMA PosInReach ==
    ASSUME NEW r \in 0..H, NEW c \in 0..W, r < H \/ c < W
    PROVE  /\ get_pos(r, c) \in Reach
           /\ r < H /\ c < W => get_pos(r, c) \in Cells
<1> USE ScreenAssumption
<1>1. PICK d \in Nat : H = r + d
  OBVIOUS
<1>2. W * (H + 1) = r * W + W * d + W /\ W * H = r * W + W * d
  BY <1>1
<1>3. r * W \in Nat /\ W * d \in Nat /\ W * (H + 1) \in Nat /\ W * H \in Nat
  OBVIOUS
<1>4. d >= 1 => W * d >= W
  <2>1. ASSUME NEW e \in Nat, d = e + 1 PROVE W * d >= W
    <3>1. W * d = W * e + W /\ W * e \in Nat
      BY <2>1
    <3> QED BY <3>1
  <2>2. d >= 1 => \E e \in Nat : d = e + 1
    OBVIOUS
  <2> QED BY <2>1, <2>2
<1>5. CASE c < W /\ r = H
  BY <1>2, <1>3, <1>5 DEF get_pos, Reach
<1>6. CASE r < H
  BY <1>1, <1>2, <1>3, <1>4, <1>6 DEF get_pos, Reach, Cells
<1> QED BY <1>5, <1>6

(* The row below that of a cell, unless it is in the last row.             *)
LEMMA NextRow ==
    ASSUME NEW p \in Cells, p \div W \in 0..(H - 2)
    PROVE  p + W \in Cells
<1> USE ScreenAssumption
<1> DEFINE q == p \div W
<1>1. p \in Nat /\ W * H \in Nat
  BY DEF Cells
<1>2. p < q * W + W
  BY <1>1, SMT
<1>0. q \in Nat
  OBVIOUS
<1> HIDE DEF q
<1>3. PICK d \in Nat : H = q + 2 + d
  <2>1. q \in 0..(H - 2)
    BY DEF q
  <2>2. H - 2 - q \in Nat /\ H = q + 2 + (H - 2 - q)
    BY <2>1
  <2> QED BY <2>2
<1>4. W * H = q * W + W * d + W + W
  BY <1>0, <1>3
<1>5. q * W \in Nat /\ W * d \in Nat
  BY <1>0
<1> QED BY <1>1, <1>2, <1>4, <1>5 DEF Cells

(* The cursor moves.                                                       *)
ColumnAt(v, k) == [v EXCEPT !.col = k]
RowAt(v, r) == [v EXCEPT !.row = r]
CursorAt(v, r, k) == [v EXCEPT !.col = k, !.row = r]

LEMMA ColumnScreen ==
    ASSUME NEW v \in Screen, NEW k \in 0..W
    PROVE  ColumnAt(v, k) \in Screen /\ ColumnAt(v, k).col = k /\ ColumnAt(v, k).row = v.row
  BY DEF Screen, ColumnAt

LEMMA RowScreen ==
    ASSUME NEW v \in Screen, NEW r \in 0..H
    PROVE  RowAt(v, r) \in Screen /\ RowAt(v, r).col = v.col /\ RowAt(v, r).row = r
  BY DEF Screen, RowAt

LEMMA CursorScreen ==
    ASSUME NEW v \in Screen, NEW r \in 0..H, NEW k \in 0..W
    PROVE  CursorAt(v, r, k) \in Screen /\ CursorAt(v, r, k).col = k /\ CursorAt(v, r, k).row = r
  BY Zenon DEF Screen, CursorAt

LEMMA StoreScreen ==
    ASSUME NEW v \in Screen, NEW i \in Reach, NEW c \in Char
    PROVE  /\ Store(v, i, c) \in Screen
           /\ Store(v, i, c).row = v.row /\ Store(v, i, c).col = v.col
<1>1. Put(v.chars, i, c) \in [Cells -> Char]
  BY DEF Put, Screen
<1>2. Larger(v.far, i) \in Reach
  BY Zenon DEF Larger, Screen, Reach
<1>3. Store(v, i, c) = [v EXCEPT !.chars = Put(v.chars, i, c), !.far = Larger(v.far, i)]
  BY DEF Store, Screen
<1> QED BY <1>1, <1>2, <1>3, Zenon DEF Screen, Reach

LEMMA DrawScreen ==
    ASSUME NEW v \in Screen, NEW r, NEW k, NEW c \in Char
    PROVE  /\ draw_char(v, r, k, c) \in Screen
           /\ draw_char(v, r, k, c).row = v.row /\ draw_char(v, r, k, c).col = v.col
<1> DEFINE p == get_pos(r, IF k < W THEN k ELSE 0)
<1>1. Put(v.pixels, p, c) \in [Cells -> Char]
  BY DEF Put, Screen
<1>2. draw_char(v, r, k, c) = [v EXCEPT !.pixels = Put(v.pixels, p, c)]
  BY DEF draw_char, Screen
<1> HIDE DEF p
<1> QED BY <1>1, <1>2, Zenon DEF Screen

(* Moving rows up and clearing the cursor's row leave the cursor alone.    *)
LEMMA MovedScreen ==
    ASSUME NEW v \in Screen, NEW rows \in SUBSET (0..(H - 2))
    PROVE  /\ Moved(v, rows) \in Screen
           /\ Moved(v, rows).row = v.row /\ Moved(v, rows).col = v.col
<1> DEFINE chars == [p \in Cells |-> IF p \div W \in rows THEN v.chars[p + W] ELSE v.chars[p]]
           pixels == [p \in Cells |-> IF p \div W \in rows /\ chars[p] # NUL
                                      THEN chars[p] ELSE v.pixels[p]]
<1>1. v.chars \in [Cells -> Char] /\ v.pixels \in [Cells -> Char]
  BY DEF Screen
<1>2. chars \in [Cells -> Char]
  <2>1. ASSUME NEW p \in Cells, p \div W \in rows PROVE p + W \in Cells
    BY <2>1, NextRow, Zenon
  <2> QED BY <1>1, <2>1
<1>3. pixels \in [Cells -> Char]
  BY <1>1, <1>2
<1>4. Moved(v, rows) = [v EXCEPT !.chars = chars, !.pixels = pixels]
  BY DEF Moved, Screen
<1> HIDE DEF chars, pixels
<1> QED BY <1>2, <1>3, <1>4, Zenon DEF Screen

LEMMA ClearRowScreen ==
    ASSUME NEW v \in Screen
    PROVE  ClearRow(v) \in Screen /\ ClearRow(v).row = v.row /\ ClearRow(v).col = v.col
<1> DEFINE Cleared(f) == [p \in Cells |-> IF p \div W = v.row THEN SP ELSE f[p]]
           far == Larger(v.far, get_pos(v.row, W - 1))
<1>1. Cleared(v.chars) \in [Cells -> Char] /\ Cleared(v.pixels) \in [Cells -> Char]
  BY DEF Screen, Char
<1>2. far \in 0..(W * (H + 1) - 1)
  BY PosInReach, ScreenAssumption, SMTT(30) DEF Screen, Larger, Reach
<1>3. ClearRow(v) = [v EXCEPT !.chars = Cleared(v.chars), !.pixels = Cleared(v.pixels),
                              !.far = far]
  BY DEF ClearRow, Screen
<1> HIDE DEF Cleared, far
<1> QED BY <1>1, <1>2, <1>3, Zenon DEF Screen

LEMMA NewlineScreen ==
    ASSUME NEW v \in Screen
    PROVE  /\ vga_newline(v) \in Screen
           /\ vga_newline(v).col = 0
           /\ v.row < H => vga_newline(v).row < H
<1> DEFINE u == [v EXCEPT !.col = 0]
<1>1. u \in Screen /\ u.row = v.row /\ u.col = 0
  BY ScreenAssumption DEF Screen
<1>2. CASE v.row + 1 < H
  <2>1. vga_newline(v) = CursorAt(v, v.row + 1, 0)
    BY <1>2 DEF vga_newline, CursorAt, Screen
  <2>2. 0 \in 0..W /\ v.row + 1 \in 0..H
    BY <1>2, ScreenAssumption DEF Screen
  <2> QED BY <1>2, <2>1, <2>2, CursorScreen
<1>3. CASE ~(v.row + 1 < H)
  <2>1. vga_newline(v) = ClearRow(Moved(u, 0..(H - 2)))
    BY <1>3 DEF vga_newline, Scroll
  <2>3. /\ Moved(u, 0..(H - 2)) \in Screen
        /\ Moved(u, 0..(H - 2)).row = v.row /\ Moved(u, 0..(H - 2)).col = 0
    BY <1>1, MovedScreen, Zenon
  <2> HIDE DEF u
  <2> QED BY <2>1, <2>3, ClearRowScreen
<1> QED BY <1>2, <1>3

(* vga_putchar as the keyboard handler calls it: it brings the column back *)
(* onto the screen, and does not move a row that is on it off.             *)
LEMMA PutcharScreen ==
    ASSUME NEW v \in Screen, v.row < H \/ v.col < W, NEW c \in Letter \cup {SP, NL, BS}
    PROVE  /\ vga_putchar(v, c) \in Screen
           /\ vga_putchar(v, c).col < W
           /\ v.row < H => vga_putchar(v, c).row < H
<1>1. CASE c = NL
  <2>1. vga_putchar(v, c) = vga_newline(v)
    BY <1>1 DEF vga_putchar, NL, BS
  <2> QED BY <2>1, NewlineScreen, ScreenAssumption
<1>2. CASE c = BS
  <2>1. vga_putchar(v, c) = Back(v)
    BY <1>2 DEF vga_putchar, NL, BS
  <2>2. v.row \in 0..H /\ v.col \in 0..W
    BY DEF Screen
  <2>3. CASE v.col # 0
    <3>1. Back(v) = ColumnAt(v, v.col - 1) /\ v.col - 1 \in 0..W
      BY <2>2, <2>3, ScreenAssumption DEF Back, ColumnAt
    <3> DEFINE w == ColumnAt(v, v.col - 1)
    <3>2. w \in Screen /\ w.col = v.col - 1 /\ w.row = v.row
      BY <3>1, ColumnScreen
    <3> HIDE DEF w
    <3>3. vga_putchar(v, c) = w
      BY <2>1, <3>1 DEF w
    <3> QED BY <2>2, <3>2, <3>3, ScreenAssumption
  <2>4. CASE v.col = 0 /\ v.row # 0
    <3>1. Back(v) = CursorAt(v, v.row - 1, W - 1)
      BY <2>4 DEF Back, CursorAt
    <3>2. W - 1 \in 0..W /\ v.row - 1 \in 0..H
      BY <2>2, <2>4, ScreenAssumption
    <3> DEFINE w == CursorAt(v, v.row - 1, W - 1)
    <3>3. w \in Screen /\ w.col = W - 1 /\ w.row = v.row - 1
      BY <3>2, CursorScreen
    <3> HIDE DEF w
    <3>4. vga_putchar(v, c) = w
      BY <2>1, <3>1 DEF w
    <3> QED BY <2>2, <3>3, <3>4, ScreenAssumption
  <2>5. CASE v.col = 0 /\ v.row = 0
    BY <2>1, <2>5, ScreenAssumption DEF Back
  <2> QED BY <2>3, <2>4, <2>5
<1>3. CASE c \notin {NL, BS}
  <2> DEFINE stored == Store(v, get_pos(v.row, v.col), c)
             drawn  == draw_char(stored, v.row, v.col, c)
             put    == [drawn EXCEPT !.col = @ + 1]
  <2>1. v.row \in 0..H /\ v.col \in 0..W /\ c \in Char
    BY <1>3 DEF Screen, Char
  <2>2. stored \in Screen /\ stored.row = v.row /\ stored.col = v.col
    BY <2>1, PosInReach, StoreScreen
  <2>3. drawn \in Screen /\ drawn.row = v.row /\ drawn.col = v.col
    <3> HIDE DEF stored
    <3> QED BY <2>1, <2>2, DrawScreen
  <2>4. vga_putchar(v, c) = IF put.col >= W THEN vga_newline(put) ELSE put
    BY <1>3 DEF vga_putchar
  <2> HIDE DEF stored, drawn
  <2>5. put = [drawn EXCEPT !.col = v.col + 1]
    BY <2>3 DEF Screen
  <2>6. CASE v.col + 1 < W
    <3>1. put \in Screen /\ put.col = v.col + 1 /\ put.row = v.row
      BY <2>1, <2>3, <2>5, <2>6, ScreenAssumption DEF Screen
    <3> QED BY <2>1, <2>4, <2>6, <3>1, ScreenAssumption
  <2>7. CASE ~(v.col + 1 < W)
    <3> DEFINE edge == [drawn EXCEPT !.col = 0]
    <3>1. edge \in Screen /\ edge.row = v.row
      BY <2>3, ScreenAssumption DEF Screen
    <3>2. put.col >= W
      BY <2>1, <2>3, <2>5, <2>7, ScreenAssumption DEF Screen
    <3>3. vga_newline(put) = vga_newline(edge)
      BY <2>3, <2>5, Zenon DEF vga_newline, Screen
    <3> HIDE DEF edge, put
    <3> QED BY <2>4, <3>1, <3>2, <3>3, NewlineScreen, ScreenAssumption
  <2> QED BY <2>6, <2>7
<1> QED BY <1>1, <1>2, <1>3

(* A step of an interrupted call, given what it does to the screen.        *)
LEMMA StepIInv ==
    ASSUME IInv, NEW from, NEW to \in Steps, NEW reg \in 0..(W + H), Goto(from, to, reg),
           vga' \in Screen,
           to # "undo" => vga'.row < H,
           to # "newline" => vga'.col < W,
           to \in {"put", "advance", "back", "clear_pixels"} => reg < W,
           to \in {"put", "draw"} => write.c \in Letter,
           to \in {"row", "scroll"} => reg < H,
           to = "undo" => reg = H - 1,
           to = "up" => reg \in 1..(H - 1)
    PROVE  IInv'
<1>1. Input'
  BY Zenon DEF IInv, Input, Goto
<1>2. CASE to = "idle"
  BY <1>1, <1>2, ScreenAssumption DEF Goto, Idle, Steps, IInv, Cursor
<1>3. CASE to # "idle"
  <2>1. write' = [write EXCEPT !.pc = to, !.reg = reg]
    BY <1>3 DEF Goto
  <2>2. /\ write' \in [pc : Steps, c : Letter \cup {NUL, NL, BS}, reg : 0..(W + H)]
        /\ write'.pc = to /\ write'.reg = reg /\ write'.c = write.c
    BY <2>1, Zenon DEF IInv, Cursor
  <2> QED BY <1>1, <2>2 DEF IInv, Cursor
<1> QED BY <1>2, <1>3

(* A key does not depend on the step at which it strikes.                  *)
LEMMA EchoIInv ==
    ASSUME IInv, write' = write, Input',
           vga' \in Screen, vga'.col < W, vga.row < H => vga'.row < H
    PROVE  IInv'
  BY DEF IInv, Cursor

LEMMA OnOrBeside == IInv => vga \in Screen /\ (vga.row < H \/ vga.col < W)
  BY DEF IInv, Cursor

LEMMA EmptyLine == <<>> \in Seq(Letter)
  OBVIOUS

LEMMA InitIInv == Init => IInv
<1> SUFFICES ASSUME Init PROVE IInv
  OBVIOUS
<1>1. PICK c \in Letter : vga = vga_putchar(NewScreen, c)
  BY DEF Init
<1>2. NewScreen \in Screen /\ NewScreen.row < H /\ NewScreen.col < W
  <2>1. 0 \in 0..(W * (H + 1) - 1)
    BY PosInReach, ScreenAssumption DEF get_pos, Reach
  <2> QED BY <2>1, ScreenAssumption DEF NewScreen, Screen, Blank, Char
<1>3. vga \in Screen /\ vga.col < W /\ vga.row < H
  BY <1>1, <1>2, PutcharScreen
<1>4. Input
  BY EmptyLine, Zenon DEF Init, Input
<1>5. write = [pc |-> "clear", c |-> NUL, reg |-> 0]
  BY DEF Init, Idle
<1>6. Cursor
  BY <1>3, <1>5, ScreenAssumption DEF Cursor, Steps
<1> QED BY <1>4, <1>6 DEF IInv

(* The keys.                                                               *)
LEMMA LetterIInv ==
    ASSUME IInv, NEW c \in Letter, PressLetter(c)
    PROVE  IInv'
<1>1. vga' \in Screen /\ vga'.col < W /\ (vga.row < H => vga'.row < H)
  BY OnOrBeside, PutcharScreen DEF PressLetter
<1>2. Input'
  <2>1. line \in Seq(Letter) => Append(line, c) \in Seq(Letter)
    OBVIOUS
  <2> QED BY <2>1, Zenon DEF PressLetter, IInv, Input
<1>3. write' = write
  BY DEF PressLetter
<1> QED BY <1>1, <1>2, <1>3, EchoIInv

LEMMA BackspaceIInv ==
    ASSUME IInv, PressBackspace
    PROVE  IInv'
<1> DEFINE v == vga_putchar(vga, BS)
           u == vga_putchar(v, SP)
<1>1. v \in Screen /\ v.col < W /\ (vga.row < H => v.row < H)
  BY OnOrBeside, PutcharScreen
<1> HIDE DEF v
<1>2. u \in Screen /\ u.col < W /\ (vga.row < H => u.row < H)
  BY <1>1, PutcharScreen
<1> HIDE DEF u
<1>3. vga' = vga_putchar(u, BS)
  BY DEF PressBackspace, u, v
<1>4. vga' \in Screen /\ vga'.col < W /\ (vga.row < H => vga'.row < H)
  BY <1>2, <1>3, PutcharScreen
<1>5. Input'
  <2>1. line \in Seq(Letter) /\ line # <<>> => SubSeq(line, 1, Len(line) - 1) \in Seq(Letter)
    OBVIOUS
  <2> QED BY <2>1, Zenon DEF PressBackspace, IInv, Input
<1>6. write' = write
  BY DEF PressBackspace
<1> QED BY <1>4, <1>5, <1>6, EchoIInv

LEMMA EnterIInv ==
    ASSUME IInv, PressEnter
    PROVE  IInv'
<1>1. vga' \in Screen /\ vga'.col < W /\ (vga.row < H => vga'.row < H)
  BY OnOrBeside, PutcharScreen DEF PressEnter
<1>2. Input'
  BY EmptyLine, Zenon DEF PressEnter, Input
<1>3. write' = write
  BY DEF PressEnter
<1> QED BY <1>1, <1>2, <1>3, EchoIInv

(* A call of vga_putchar by a program begins, and a program reads.         *)
LEMMA WriteIInv ==
    ASSUME IInv, NEW c \in Letter \cup {NL, BS}, Write(c)
    PROVE  IInv'
<1>1. vga.col \in 0..W /\ vga.col < W /\ vga.row < H
  BY DEF IInv, Cursor, Screen, Write
<1>2. c \notin {NL, BS} => c \in Letter
  OBVIOUS
<1>3. write'.pc = IF c = NL THEN "newline" ELSE IF c = BS THEN "back" ELSE "put"
  BY DEF Write, NL, BS
<1>4. write'.c = c /\ write'.reg = vga.col
  BY DEF Write
<1>5. write' \in [pc : Steps, c : Letter \cup {NUL, NL, BS}, reg : 0..(W + H)]
  BY <1>1, <1>3, <1>4, ScreenAssumption DEF Write, Steps
<1>6. Cursor'
  BY <1>1, <1>2, <1>3, <1>4, <1>5 DEF IInv, Cursor, Write
<1>7. Input'
  BY Zenon DEF IInv, Input, Write
<1> QED BY <1>6, <1>7 DEF IInv

LEMMA ReadIInv == IInv /\ Read => IInv'
<1> SUFFICES ASSUME IInv, Read PROVE IInv'
  OBVIOUS
<1>1. Input'
  BY EmptyLine, Zenon DEF Read, Input
<1>2. Cursor'
  BY DEF IInv, Cursor, Read
<1> QED BY <1>1, <1>2 DEF IInv

(* The steps of a call.                                                    *)
LEMMA ClearIInv == IInv /\ vga_clear => IInv'
<1> SUFFICES ASSUME IInv, vga_clear PROVE IInv'
  OBVIOUS
<1> USE ScreenAssumption
<1>0. vga \in Screen /\ vga.row \in 0..H /\ vga.col \in 0..W /\ write.reg \in 0..(W + H)
  BY DEF IInv, Cursor, Screen
<1>1. CASE Goto("clear", "clear_column", 0) /\ vga' = [vga EXCEPT !.row = 0]
  <2>1. vga' = RowAt(vga, 0)
    BY <1>1 DEF RowAt
  <2>2. vga' \in Screen /\ vga'.col = vga.col /\ vga'.row = 0
    BY <1>0, <2>1, RowScreen, SMTT(30)
  <2>3. vga.col < W
    BY <1>1 DEF Goto, IInv, Cursor
  <2> QED BY <1>1, <2>2, <2>3, StepIInv DEF Steps
<1>2. CASE Goto("clear_column", "clear_pixels", 0) /\ vga' = [vga EXCEPT !.col = 0]
  <2>1. vga' = ColumnAt(vga, 0)
    BY <1>2 DEF ColumnAt
  <2>2. vga' \in Screen /\ vga'.col = 0 /\ vga'.row = vga.row
    BY <1>0, <2>1, ColumnScreen, SMTT(30)
  <2>3. vga.row < H
    BY <1>2 DEF Goto, IInv, Cursor
  <2> QED BY <1>2, <2>2, <2>3, StepIInv DEF Steps
<1>3. CASE /\ Goto("clear_pixels", IF write.reg + 1 < W THEN "clear_pixels" ELSE "idle", write.reg + 1)
           /\ vga' = [vga EXCEPT !.pixels =
                        [p \in Cells |-> IF p % W = write.reg THEN SP ELSE @[p]]]
  <2> DEFINE pixels == [p \in Cells |-> IF p % W = write.reg THEN SP ELSE vga.pixels[p]]
             to == IF write.reg + 1 < W THEN "clear_pixels" ELSE "idle"
  <2>1. pixels \in [Cells -> Char]
    BY <1>0 DEF Screen, Char
  <2>2. vga' = [vga EXCEPT !.pixels = pixels]
    BY <1>0, <1>3 DEF Screen
  <2> HIDE DEF pixels
  <2>3. vga' \in Screen /\ vga'.col = vga.col /\ vga'.row = vga.row
    BY <1>0, <2>1, <2>2 DEF Screen
  <2>4. write.pc = "clear_pixels" /\ vga.row < H /\ vga.col < W /\ write.reg < W
    BY <1>3 DEF Goto, IInv, Cursor
  <2>5. to \in Steps /\ to \in {"clear_pixels", "idle"} /\ (to = "clear_pixels" => write.reg + 1 < W)
    BY DEF Steps
  <2>6. write.reg + 1 \in 0..(W + H) /\ Goto("clear_pixels", to, write.reg + 1)
    BY <1>0, <1>3, <2>4
  <2> HIDE DEF to
  <2> QED BY <2>3, <2>4, <2>5, <2>6, StepIInv
<1> QED BY <1>1, <1>2, <1>3 DEF vga_clear

LEMMA PutIInv == IInv /\ (PutStore \/ PutDraw \/ Load \/ Advance) => IInv'
<1> SUFFICES ASSUME IInv, PutStore \/ PutDraw \/ Load \/ Advance PROVE IInv'
  OBVIOUS
<1> USE ScreenAssumption
<1>0. vga \in Screen /\ vga.row \in 0..H /\ vga.col \in 0..W /\ write.reg \in 0..(W + H)
  BY DEF IInv, Cursor, Screen
<1>1. CASE PutStore
  <2>1. /\ vga.row < H /\ vga.col < W /\ write.reg \in 0..W
        /\ write.c \in Letter /\ write.c \in Char
    BY <1>0, <1>1 DEF PutStore, Goto, IInv, Cursor, Char
  <2>2. get_pos(vga.row, write.reg) \in Reach
    BY <1>0, <2>1, PosInReach
  <2>3. vga' \in Screen /\ vga'.row = vga.row /\ vga'.col = vga.col
    BY <1>0, <1>1, <2>1, <2>2, StoreScreen DEF PutStore
  <2> QED BY <1>1, <2>1, <2>3, StepIInv DEF PutStore, Steps
<1>2. CASE PutDraw
  <2>1. vga.row < H /\ vga.col < W /\ write.c \in Char
    BY <1>0, <1>2 DEF PutDraw, Goto, IInv, Cursor, Char
  <2>2. vga' \in Screen /\ vga'.row = vga.row /\ vga'.col = vga.col
    BY <1>0, <1>2, <2>1, DrawScreen DEF PutDraw
  <2> QED BY <1>2, <2>1, <2>2, StepIInv DEF PutDraw, Steps
<1>3. CASE Load
  <2>1. vga.row < H /\ vga.col < W /\ vga' = vga /\ vga.col \in 0..(W + H)
    BY <1>0, <1>3 DEF Load, Goto, IInv, Cursor
  <2> QED BY <1>0, <1>3, <2>1, StepIInv DEF Load, Steps
<1>4. CASE Advance
  <2> DEFINE to == IF write.reg + 1 >= W THEN "newline" ELSE "idle"
  <2>1. vga.row < H /\ write.reg < W /\ write.reg + 1 \in 0..W
    BY <1>0, <1>4 DEF Advance, Goto, IInv, Cursor
  <2>2. vga' = ColumnAt(vga, write.reg + 1)
    BY <1>4 DEF Advance, ColumnAt
  <2>3. vga' \in Screen /\ vga'.row = vga.row /\ vga'.col = write.reg + 1
    BY <1>0, <2>1, <2>2, ColumnScreen, Zenon
  <2>4. to \in Steps /\ to \in {"newline", "idle"} /\ (to = "idle" => write.reg + 1 < W)
    BY <1>0 DEF Steps
  <2>5. Goto("advance", to, 0)
    BY <1>4 DEF Advance
  <2> HIDE DEF to
  <2> QED BY <2>1, <2>3, <2>4, <2>5, StepIInv
<1> QED BY <1>1, <1>2, <1>3, <1>4

LEMMA NewlineIInv == IInv /\ (NewlineColumn \/ NewlineRow \/ NewlineUndo \/ ScrollStep) => IInv'
<1> SUFFICES ASSUME IInv, NewlineColumn \/ NewlineRow \/ NewlineUndo \/ ScrollStep PROVE IInv'
  OBVIOUS
<1> USE ScreenAssumption
<1>0. vga \in Screen /\ vga.row \in 0..H /\ vga.col \in 0..W /\ write.reg \in 0..(W + H)
  BY DEF IInv, Cursor, Screen
<1>1. CASE NewlineColumn
  <2>1. vga.row < H /\ vga.row \in 0..(W + H)
    BY <1>0, <1>1 DEF NewlineColumn, Goto, IInv, Cursor
  <2>2. vga' = ColumnAt(vga, 0)
    BY <1>1 DEF NewlineColumn, ColumnAt
  <2>3. vga' \in Screen /\ vga'.row = vga.row /\ vga'.col = 0
    BY <1>0, <2>2, ColumnScreen, SMTT(30)
  <2>4. Goto("newline", "row", vga.row) /\ "row" \in Steps /\ vga.row \in 0..(W + H)
    BY <1>0, <1>1 DEF NewlineColumn, Steps
  <2> QED BY <1>0, <2>1, <2>3, <2>4, StepIInv
<1>2. CASE NewlineRow
  <2> DEFINE to == IF write.reg + 1 < H THEN "idle" ELSE "undo"
  <2>1. vga.col < W /\ write.reg < H /\ write.reg + 1 \in 0..H
    BY <1>0, <1>2 DEF NewlineRow, Goto, IInv, Cursor
  <2>2. vga' = RowAt(vga, write.reg + 1)
    BY <1>2 DEF NewlineRow, RowAt
  <2>3. vga' \in Screen /\ vga'.row = write.reg + 1 /\ vga'.col = vga.col
    BY <1>0, <2>1, <2>2, RowScreen, Zenon
  <2>4. /\ to \in Steps /\ to \in {"idle", "undo"}
        /\ to = "idle" => write.reg + 1 < H
        /\ to = "undo" => write.reg = H - 1
    BY <1>0, <2>1 DEF Steps
  <2>5. Goto("row", to, write.reg)
    BY <1>2 DEF NewlineRow
  <2> HIDE DEF to
  <2> QED BY <1>0, <2>1, <2>3, <2>4, <2>5, StepIInv
<1>3. CASE NewlineUndo
  <2>1. vga.col < W /\ write.reg < H /\ write.reg \in 0..H
    BY <1>0, <1>3 DEF NewlineUndo, Goto, IInv, Cursor
  <2>2. vga' = RowAt(vga, write.reg)
    BY <1>3 DEF NewlineUndo, RowAt
  <2>3. vga' \in Screen /\ vga'.row = write.reg /\ vga'.col = vga.col
    BY <1>0, <2>1, <2>2, RowScreen, Zenon
  <2>4. Goto("undo", "scroll", 0) /\ "scroll" \in Steps /\ 0 \in 0..(W + H)
    BY <1>0, <1>3 DEF NewlineUndo, Steps
  <2> QED BY <1>0, <2>1, <2>3, <2>4, StepIInv
<1>4. CASE ScrollStep
  <2>1. vga.row < H /\ vga.col < W
    BY <1>4 DEF ScrollStep, Goto, IInv, Cursor
  <2>2. CASE /\ write.reg < H - 1 /\ Goto("scroll", "scroll", write.reg + 1)
             /\ vga' = Moved(vga, {write.reg})
    <3>1. {write.reg} \subseteq 0..(H - 2) /\ write.reg + 1 \in 0..(W + H) /\ write.reg + 1 < H
      BY <1>0, <2>2
    <3>2. vga' \in Screen /\ vga'.row = vga.row /\ vga'.col = vga.col
      BY <1>0, <2>2, <3>1, MovedScreen
    <3> QED BY <2>1, <2>2, <3>1, <3>2, StepIInv, Zenon DEF Steps
  <2>3. CASE Goto("scroll", "idle", 0) /\ vga' = ClearRow(vga)
    <3>1. vga' \in Screen /\ vga'.row = vga.row /\ vga'.col = vga.col
      BY <1>0, <2>3, ClearRowScreen
    <3> QED BY <2>1, <2>3, <3>1, StepIInv DEF Steps
  <2> QED BY <1>4, <2>2, <2>3 DEF ScrollStep
<1> QED BY <1>1, <1>2, <1>3, <1>4

LEMMA BackIInv == IInv /\ (BackColumn \/ BackLoadRow \/ BackRow \/ BackEnd) => IInv'
<1> SUFFICES ASSUME IInv, BackColumn \/ BackLoadRow \/ BackRow \/ BackEnd PROVE IInv'
  OBVIOUS
<1> USE ScreenAssumption
<1>0. vga \in Screen /\ vga.row \in 0..H /\ vga.col \in 0..W /\ write.reg \in 0..(W + H)
  BY DEF IInv, Cursor, Screen
<1>1. CASE BackColumn
  <2>1. vga.row < H /\ write.reg - 1 \in 0..W /\ write.reg - 1 < W
    BY <1>0, <1>1 DEF BackColumn, Goto, IInv, Cursor
  <2>2. vga' = ColumnAt(vga, write.reg - 1)
    BY <1>1 DEF BackColumn, ColumnAt
  <2>3. vga' \in Screen /\ vga'.row = vga.row /\ vga'.col = write.reg - 1
    BY <1>0, <2>1, <2>2, ColumnScreen, Zenon
  <2> QED BY <1>1, <2>1, <2>3, StepIInv DEF BackColumn, Steps
<1>2. CASE BackLoadRow
  <2> DEFINE to == IF vga.row = 0 THEN "idle" ELSE "up"
  <2>1. vga.row < H /\ vga.col < W /\ vga' = vga /\ vga.row \in 0..(W + H)
    BY <1>0, <1>2 DEF BackLoadRow, Goto, IInv, Cursor
  <2>2. to \in Steps /\ to \in {"idle", "up"} /\ (to = "up" => vga.row \in 1..(H - 1))
    BY <1>0, <2>1 DEF Steps
  <2>3. Goto("back", to, vga.row)
    BY <1>2 DEF BackLoadRow
  <2> HIDE DEF to
  <2> QED BY <1>0, <2>1, <2>2, <2>3, StepIInv
<1>3. CASE BackRow
  <2>1. vga.col < W /\ write.reg - 1 \in 0..H /\ write.reg - 1 < H
    BY <1>0, <1>3 DEF BackRow, Goto, IInv, Cursor
  <2>2. vga' = RowAt(vga, write.reg - 1)
    BY <1>3 DEF BackRow, RowAt
  <2>3. vga' \in Screen /\ vga'.row = write.reg - 1 /\ vga'.col = vga.col
    BY <1>0, <2>1, <2>2, RowScreen, Zenon
  <2>4. Goto("up", "end", 0) /\ "end" \in Steps /\ 0 \in 0..(W + H)
    BY <1>0, <1>3 DEF BackRow, Steps
  <2> QED BY <1>0, <2>1, <2>3, <2>4, StepIInv
<1>4. CASE BackEnd
  <2>1. vga.row < H /\ W - 1 \in 0..W
    BY <1>0, <1>4 DEF BackEnd, Goto, IInv, Cursor
  <2>2. vga' = ColumnAt(vga, W - 1)
    BY <1>4 DEF BackEnd, ColumnAt
  <2>3. vga' \in Screen /\ vga'.row = vga.row /\ vga'.col = W - 1
    BY <1>0, <2>1, <2>2, ColumnScreen, Zenon
  <2> QED BY <1>4, <2>1, <2>3, StepIInv DEF BackEnd, Steps
<1> QED BY <1>1, <1>2, <1>3, <1>4

(* Whatever is printed and typed, and at whichever step a key interrupts   *)
(* the call, IInv stays.                                                   *)
LEMMA NextIInv == IInv /\ [Next]_vars => IInv'
<1> SUFFICES ASSUME IInv, [Next]_vars PROVE IInv'
  OBVIOUS
<1>1. CASE \E c \in Letter \cup {NL, BS} : Write(c)
  BY <1>1, WriteIInv
<1>2. CASE WriteStep
  BY <1>2, ClearIInv, PutIInv, NewlineIInv, BackIInv DEF WriteStep
<1>3. CASE Read \/ PressBackspace \/ PressEnter
  BY <1>3, ReadIInv, BackspaceIInv, EnterIInv
<1>4. CASE \E c \in Letter : PressLetter(c)
  BY <1>4, LetterIInv
<1>5. CASE UNCHANGED vars
  <2>1. Input'
    BY <1>5, Zenon DEF IInv, Input, vars
  <2> QED BY <1>5, <2>1 DEF IInv, Cursor, vars
<1> QED BY <1>1, <1>2, <1>3, <1>4, <1>5 DEF Next

LEMMA IInvImplies == IInv => CursorOnScreen
<1> SUFFICES ASSUME IInv PROVE CursorOnScreen
  OBVIOUS
<1>1. TypeOK
  <2>1. line \in Seq(Letter) /\ reading \in BOOLEAN
    BY Zenon DEF IInv, Input
  <2>2. vga \in [chars : [Cells -> Char], pixels : [Cells -> Char],
                 row : 0..H, col : 0..W, far : Nat]
    BY DEF IInv, Cursor, Screen
  <2>3. write.c \in Letter \cup {NUL, NL, BS} /\ write.reg \in 0..(W + H)
    BY DEF IInv, Cursor
  <2> QED BY <2>1, <2>2, <2>3, Zenon DEF TypeOK
<1>2. write.pc = "idle" => vga.row < H /\ vga.col < W
  BY DEF IInv, Cursor
<1>3. vga.far < W * (H + 1)
  BY ScreenAssumption DEF IInv, Cursor, Screen
<1> QED BY <1>1, <1>2, <1>3 DEF CursorOnScreen

(* Wherever a key interrupts vga_putchar, vga_newline or vga_clear, the    *)
(* cursor is on the screen whenever no call is under way, and no store is  *)
(* more than a row behind vga_chars, on a screen of any size.              *)
THEOREM CursorAlwaysOnScreen == Spec => []CursorOnScreen
<1> QED BY InitIInv, NextIInv, IInvImplies, PTL DEF Spec

-----------------------------------------------------------------------------

Pos(v) == get_pos(v.row, v.col)

(* The line s is in front of the cursor of v, as far as it is on screen.   *)
Shown(v, s) ==
    \A k \in 1..Len(s) :
        Pos(v) - k >= 0 => /\ v.chars[Pos(v) - k] = s[Len(s) + 1 - k]
                           /\ v.pixels[Pos(v) - k] = v.chars[Pos(v) - k]

(* Screen n after character c was put on screen v and the text moved up by *)
(* d cells: c is in front of the cursor, and before it what was there, and *)
(* it is still shown if it was and is no NUL.                              *)
Advanced(v, n, c, d) ==
    /\ Pos(n) = Pos(v) + 1 - d
    /\ Pos(n) > 0 => n.chars[Pos(n) - 1] = c /\ n.pixels[Pos(n) - 1] = c
    /\ \A p \in Nat : p + 1 < Pos(n) =>
          /\ n.chars[p] = v.chars[p + d]
          /\ v.chars[p + d] # NUL /\ v.pixels[p + d] = v.chars[p + d] => n.pixels[p] = n.chars[p]

(* The row of a cell.                                                      *)
LEMMA RowOf ==
    ASSUME NEW p \in Nat, NEW r \in Nat, p < r * W
    PROVE  p \div W \in 0..(r - 1)
<1> USE ScreenAssumption
<1> DEFINE q == p \div W
<1>1. q \in Nat /\ q * W <= p
  BY SMT
<1> HIDE DEF q
<1>2. ASSUME NEW d \in Nat, q = r + d PROVE FALSE
  <2>1. q * W = r * W + d * W /\ d * W \in Nat /\ r * W \in Nat
    BY <1>2
  <2> QED BY <1>1, <2>1
<1>3. q >= r => \E d \in Nat : q = r + d
  <2>1. q >= r => q - r \in Nat /\ q = r + (q - r)
    BY <1>1
  <2> QED BY <2>1, Zenon
<1>4. q < r
  BY <1>1, <1>2, <1>3
<1> QED BY <1>1, <1>4 DEF q

(* A letter is put in front of the line that is shown.                     *)
LEMMA AdvancedShown ==
    ASSUME NEW v, NEW n, NEW c \in Letter, NEW d \in Nat, Pos(v) \in Nat, Advanced(v, n, c, d),
           NEW s \in Seq(Letter), Shown(v, s)
    PROVE  Shown(n, Append(s, c))
<1> DEFINE t == Append(s, c)
<1>1. /\ Len(s) \in Nat /\ Len(t) = Len(s) + 1 /\ t[Len(s) + 1] = c
      /\ \A j \in 1..Len(s) : t[j] = s[j] /\ s[j] \in Letter
  OBVIOUS
<1> HIDE DEF t
<1>2. Pos(n) \in Int /\ Pos(n) = Pos(v) + 1 - d
  BY DEF Advanced
<1>3. ASSUME NEW k \in 1..Len(t), Pos(n) - k >= 0
      PROVE  n.chars[Pos(n) - k] = t[Len(t) + 1 - k] /\ n.pixels[Pos(n) - k] = n.chars[Pos(n) - k]
  <2>1. CASE k = 1
    <3>1. Pos(n) > 0 /\ Len(t) + 1 - k = Len(s) + 1
      BY <1>1, <1>2, <1>3, <2>1
    <3> QED BY <1>1, <2>1, <3>1 DEF Advanced
  <2>2. CASE k # 1
    <3> DEFINE j == k - 1
               p == Pos(n) - k
    <3>1. j \in 1..Len(s) /\ p \in Nat /\ p + 1 < Pos(n) /\ p + d = Pos(v) - j
      BY <1>1, <1>2, <1>3, <2>2, SMTT(30)
    <3>2. Len(t) + 1 - k = Len(s) + 1 - j /\ Len(s) + 1 - j \in 1..Len(s)
      BY <1>1, <3>1, SMTT(30)
    <3>3. /\ n.chars[p] = v.chars[p + d]
          /\ v.chars[p + d] # NUL /\ v.pixels[p + d] = v.chars[p + d] => n.pixels[p] = n.chars[p]
      BY <3>1, Zenon DEF Advanced
    <3> HIDE DEF j, p
    <3>4. v.chars[p + d] = s[Len(s) + 1 - j] /\ v.pixels[p + d] = v.chars[p + d]
      <4>1. Pos(v) - j >= 0
        BY <3>1
      <4>2. /\ v.chars[Pos(v) - j] = s[Len(s) + 1 - j]
            /\ v.pixels[Pos(v) - j] = v.chars[Pos(v) - j]
        BY <3>1, <4>1 DEF Shown
      <4> QED BY <3>1, <4>2
    <3>5. s[Len(s) + 1 - j] # NUL /\ t[Len(s) + 1 - j] = s[Len(s) + 1 - j]
      BY <1>1, <3>2, LetterAssumption
    <3> QED BY <3>2, <3>3, <3>4, <3>5 DEF p
  <2> QED BY <2>1, <2>2
<1> QED BY <1>3, Zenon DEF Shown, t

(* vga_putchar of a character, step by step.                               *)
LEMMA PutSteps ==
    ASSUME NEW v \in Screen, v.row < H, v.col < W, NEW c \in Letter \cup {SP}
    PROVE  \E w \in Screen :
              /\ w.row = v.row /\ w.col = v.col + 1
              /\ w.chars = [v.chars EXCEPT ![Pos(v)] = c]
              /\ w.pixels = [v.pixels EXCEPT ![Pos(v)] = c]
              /\ vga_putchar(v, c) = IF v.col + 1 >= W THEN vga_newline(w) ELSE w
<1> DEFINE stored == Store(v, get_pos(v.row, v.col), c)
           drawn  == draw_char(stored, v.row, v.col, c)
           put    == [drawn EXCEPT !.col = @ + 1]
<1> USE ScreenAssumption
<1>1. v.row \in 0..H /\ v.col \in 0..W /\ c \in Char /\ v.col + 1 \in 0..W
  BY DEF Screen, Char
<1>2. /\ stored \in Screen /\ stored.row = v.row /\ stored.col = v.col
      /\ stored.chars = [v.chars EXCEPT ![Pos(v)] = c] /\ stored.pixels = v.pixels
  <2>1. stored \in Screen /\ stored.row = v.row /\ stored.col = v.col
    BY <1>1, PosInReach, StoreScreen, SMTT(30)
  <2>2. stored.chars = Put(v.chars, Pos(v), c) /\ stored.pixels = v.pixels
    BY DEF Store, Screen, Pos
  <2>3. Put(v.chars, Pos(v), c) = [v.chars EXCEPT ![Pos(v)] = c]
    BY DEF Put, Screen
  <2> QED BY <2>1, <2>2, <2>3
<1>3. /\ drawn \in Screen /\ drawn.row = v.row /\ drawn.col = v.col
      /\ drawn.chars = [v.chars EXCEPT ![Pos(v)] = c]
      /\ drawn.pixels = [v.pixels EXCEPT ![Pos(v)] = c]
  <2> HIDE DEF stored
  <2>1. drawn \in Screen /\ drawn.row = v.row /\ drawn.col = v.col
    BY <1>1, <1>2, DrawScreen, SMTT(30)
  <2>2. drawn.chars = stored.chars /\ drawn.pixels = Put(stored.pixels, Pos(v), c)
    BY <1>2 DEF draw_char, Screen, Pos
  <2>3. Put(stored.pixels, Pos(v), c) = [stored.pixels EXCEPT ![Pos(v)] = c]
    BY <1>2 DEF Put, Screen
  <2> QED BY <1>2, <2>1, <2>2, <2>3
<1>4. vga_putchar(v, c) = IF put.col >= W THEN vga_newline(put) ELSE put
  BY LetterAssumption DEF vga_putchar, SP, NL, BS
<1> HIDE DEF stored, drawn
<1>5. put = ColumnAt(drawn, v.col + 1)
  BY <1>3 DEF Screen, ColumnAt
<1>6. put \in Screen /\ put.row = v.row /\ put.col = v.col + 1
  BY <1>1, <1>3, <1>5, ColumnScreen
<1>7. put.chars = drawn.chars /\ put.pixels = drawn.pixels
  BY <1>3, <1>5 DEF ColumnAt, Screen
<1> HIDE DEF put
<1> QED BY <1>3, <1>4, <1>6, <1>7

(* A character that does not fill the last row.                            *)
LEMMA PutInside ==
    ASSUME NEW v \in Screen, v.row < H, v.col < W, NEW c \in Letter \cup {SP},
           v.col + 1 < W \/ v.row + 1 < H
    PROVE  Advanced(v, vga_putchar(v, c), c, 0)
<1> USE ScreenAssumption
<1> DEFINE n == vga_putchar(v, c)
<1>1. PICK w \in Screen :
              /\ w.row = v.row /\ w.col = v.col + 1
              /\ w.chars = [v.chars EXCEPT ![Pos(v)] = c]
              /\ w.pixels = [v.pixels EXCEPT ![Pos(v)] = c]
              /\ vga_putchar(v, c) = IF v.col + 1 >= W THEN vga_newline(w) ELSE w
  BY PutSteps
<1>2. v.row \in 0..H /\ v.col \in 0..W
  BY DEF Screen
<1>3. Pos(v) \in Nat /\ Pos(v) \in Cells
  BY <1>2, PosInReach DEF Pos, Cells
<1>4. n.chars = w.chars /\ n.pixels = w.pixels /\ Pos(n) = Pos(v) + 1
  <2>1. CASE v.col + 1 < W
    <3>1. n = w
      BY <1>1, <1>2, <2>1
    <3>2. Pos(n) = Pos(v) + 1
      <4>1. v.row * W \in Nat
        BY <1>2
      <4>2. n.row = v.row /\ n.col = v.col + 1
        BY <1>1, <3>1
      <4> QED BY <1>2, <4>1, <4>2 DEF Pos, get_pos
    <3> QED BY <3>1, <3>2
  <2>2. CASE ~(v.col + 1 < W)
    <3>1. n = CursorAt(w, v.row + 1, 0)
      BY <1>1, <1>2, <2>2 DEF vga_newline, CursorAt, Screen
    <3>2. n.row = v.row + 1 /\ n.col = 0 /\ n.chars = w.chars /\ n.pixels = w.pixels
      BY <3>1 DEF CursorAt, Screen
    <3>3. v.col + 1 = W /\ (v.row + 1) * W = v.row * W + W
      <4>1. \A r \in Nat : (r + 1) * W = r * W + W
        OBVIOUS
      <4>2. v.row \in Nat /\ v.col + 1 = W
        BY <1>2, <2>2
      <4> QED BY <4>1, <4>2
    <3>4. v.row * W \in Nat
      BY <1>2
    <3> QED BY <1>2, <3>2, <3>3, <3>4 DEF Pos, get_pos
  <2> QED BY <2>1, <2>2
<1> HIDE DEF n
<1>5. v.chars \in [Cells -> Char] /\ v.pixels \in [Cells -> Char]
  BY DEF Screen
<1>6. n.chars[Pos(v)] = c /\ n.pixels[Pos(v)] = c /\ Pos(n) - 1 = Pos(v)
  BY <1>1, <1>3, <1>4, <1>5
<1>7. ASSUME NEW p \in Nat, p + 1 < Pos(n)
      PROVE  n.chars[p] = v.chars[p + 0] /\ n.pixels[p] = v.pixels[p + 0]
  <2>1. p \in Cells /\ p # Pos(v) /\ p + 0 = p
    BY <1>3, <1>4, <1>7 DEF Cells
  <2> QED BY <1>1, <1>4, <1>5, <2>1
<1>8. Advanced(v, n, c, 0)
  BY <1>3, <1>4, <1>6, <1>7 DEF Advanced
<1> QED BY <1>8 DEF n

(* A character that fills the last row: the screen scrolls.                *)
LEMMA PutScrolls ==
    ASSUME NEW v \in Screen, v.row < H, v.col < W, NEW c \in Letter \cup {SP},
           ~(v.col + 1 < W \/ v.row + 1 < H), c # NUL
    PROVE  Advanced(v, vga_putchar(v, c), c, W)
<1> USE ScreenAssumption
<1> DEFINE n == vga_putchar(v, c)
           rows == 0..(H - 2)
<1>1. PICK w \in Screen :
              /\ w.row = v.row /\ w.col = v.col + 1
              /\ w.chars = [v.chars EXCEPT ![Pos(v)] = c]
              /\ w.pixels = [v.pixels EXCEPT ![Pos(v)] = c]
              /\ vga_putchar(v, c) = IF v.col + 1 >= W THEN vga_newline(w) ELSE w
  BY PutSteps
<1>2. v.row = H - 1 /\ v.col = W - 1
  BY DEF Screen
<1>3. (H - 1) * W \in Nat /\ Pos(v) = (H - 1) * W + W - 1
  BY <1>2 DEF Pos, get_pos
<1>4. v.chars \in [Cells -> Char] /\ v.pixels \in [Cells -> Char] /\ Pos(v) \in Cells
  BY <1>2, PosInReach DEF Screen, Pos
<1> DEFINE u == ColumnAt(w, 0)
           m == Moved(u, rows)
<1>5. /\ u \in Screen /\ u.row = H - 1 /\ u.col = 0
      /\ u.chars = [v.chars EXCEPT ![Pos(v)] = c] /\ u.pixels = [v.pixels EXCEPT ![Pos(v)] = c]
  <2>1. u \in Screen /\ u.row = H - 1 /\ u.col = 0
    BY <1>1, <1>2, ColumnScreen
  <2>2. u.chars = w.chars /\ u.pixels = w.pixels
    BY DEF ColumnAt, Screen
  <2> QED BY <1>1, <2>1, <2>2
<1>6. n = ClearRow(m)
  <2>1. n = vga_newline(w)
    BY <1>1, <1>2
  <2> QED BY <1>1, <1>2, <2>1 DEF vga_newline, Scroll, ColumnAt
<1> HIDE DEF n, u
<1>7. /\ m \in Screen /\ m.row = H - 1 /\ m.col = 0
      /\ \A p \in Cells : m.chars[p] = IF p \div W \in rows THEN u.chars[p + W] ELSE u.chars[p]
      /\ \A p \in Cells : p \div W \in rows /\ m.chars[p] # NUL => m.pixels[p] = m.chars[p]
  <2>1. m \in Screen /\ m.row = H - 1 /\ m.col = 0
    <3>1. rows \in SUBSET (0..(H - 2))
      OBVIOUS
    <3> HIDE DEF rows
    <3> QED BY <1>5, <3>1, MovedScreen
  <2> DEFINE chars == [p \in Cells |-> IF p \div W \in rows THEN u.chars[p + W] ELSE u.chars[p]]
             pixels == [p \in Cells |-> IF p \div W \in rows /\ chars[p] # NUL
                                        THEN chars[p] ELSE u.pixels[p]]
  <2>2. m = [u EXCEPT !.chars = chars, !.pixels = pixels]
    BY <1>5 DEF Moved, Screen
  <2>3. m.chars = chars /\ m.pixels = pixels
    <3> HIDE DEF chars, pixels, rows, m
    <3> QED BY <1>5, <2>2 DEF Screen
  <2> HIDE DEF rows, m
  <2> QED BY <2>1, <2>3
<1> HIDE DEF m
<1>8. /\ n \in Screen /\ n.row = H - 1 /\ n.col = 0
      /\ \A p \in Cells : p \div W # H - 1 => n.chars[p] = m.chars[p] /\ n.pixels[p] = m.pixels[p]
  <2>1. n \in Screen /\ n.row = H - 1 /\ n.col = 0
    BY <1>6, <1>7, ClearRowScreen
  <2> DEFINE Cleared(f) == [p \in Cells |-> IF p \div W = m.row THEN SP ELSE f[p]]
             far == Larger(m.far, get_pos(m.row, W - 1))
  <2>2. n = [m EXCEPT !.chars = Cleared(m.chars), !.pixels = Cleared(m.pixels), !.far = far]
    BY <1>6, <1>7 DEF ClearRow, Screen
  <2>3. n.chars = Cleared(m.chars) /\ n.pixels = Cleared(m.pixels)
    <3> HIDE DEF Cleared, far
    <3> QED BY <1>7, <2>2 DEF Screen
  <2> QED BY <1>7, <2>1, <2>3
<1>9. Pos(n) = (H - 1) * W
  BY <1>3, <1>8 DEF Pos, get_pos
<1>10. ASSUME NEW p \in Nat, p < Pos(n)
       PROVE  /\ p \in Cells /\ p + W \in Cells
              /\ n.chars[p] = u.chars[p + W]
              /\ n.chars[p] # NUL => n.pixels[p] = n.chars[p]
  <2>1. p \div W \in 0..(H - 1 - 1)
    BY <1>9, <1>10, RowOf
  <2>2. p \div W \in rows /\ p \div W \in 0..(H - 2) /\ p \div W # H - 1
    BY <2>1
  <2>3. p \in Cells
    BY <1>3, <1>4, <1>9, <1>10, SMTT(30) DEF Cells
  <2>4. p + W \in Cells
    BY <2>2, <2>3, NextRow
  <2> HIDE DEF rows
  <2> QED BY <1>7, <1>8, <2>2, <2>3, <2>4, SMTT(30)
<1>11. Pos(n) = Pos(v) + 1 - W
  BY <1>3, <1>9
<1>12. Pos(n) > 0 => n.chars[Pos(n) - 1] = c /\ n.pixels[Pos(n) - 1] = c
  <2>1. CASE Pos(n) > 0
    <3>1. Pos(n) - 1 \in Nat /\ Pos(n) - 1 < Pos(n) /\ Pos(n) - 1 + W = Pos(v)
      BY <1>3, <1>9, <2>1
    <3>2. n.chars[Pos(n) - 1] = u.chars[Pos(v)]
      BY <1>10, <3>1
    <3>3. u.chars[Pos(v)] = c
      BY <1>4, <1>5
    <3> QED BY <1>10, <3>1, <3>2, <3>3
  <2> QED BY <2>1
<1>13. ASSUME NEW p \in Nat, p + 1 < Pos(n)
       PROVE  /\ n.chars[p] = v.chars[p + W]
              /\ v.chars[p + W] # NUL => n.pixels[p] = n.chars[p]
  <2>1. p < Pos(n) /\ p + W # Pos(v)
    BY <1>3, <1>9, <1>13
  <2>2. u.chars[p + W] = v.chars[p + W]
    BY <1>4, <1>5, <1>10, <2>1
  <2> QED BY <1>10, <2>1, <2>2
<1>14. Advanced(v, n, c, W)
  BY <1>11, <1>12, <1>13 DEF Advanced
<1> QED BY <1>14 DEF n

(* A line without letters is shown.                                        *)
LEMMA NothingShown == \A v : Shown(v, <<>>)
  BY DEF Shown

(* A letter is added to the line.                                          *)
LEMMA LetterShown ==
    ASSUME NEW v \in Screen, v.row < H, v.col < W, NEW c \in Letter,
           NEW s \in Seq(Letter), Shown(v, s)
    PROVE  Shown(vga_putchar(v, c), Append(s, c))
<1>1. Pos(v) \in Nat
  BY PosInReach DEF Screen, Pos, Cells
<1>2. c \in Letter \cup {SP} /\ c # NUL /\ W \in Nat
  BY LetterAssumption, ScreenAssumption
<1>3. CASE v.col + 1 < W \/ v.row + 1 < H
  BY <1>1, <1>2, <1>3, PutInside, AdvancedShown
<1>4. CASE ~(v.col + 1 < W \/ v.row + 1 < H)
  BY <1>1, <1>2, <1>4, PutScrolls, AdvancedShown
<1> QED BY <1>3, <1>4

(* The cursor goes back by a cell, over the end of a row too.              *)
LEMMA BackPos ==
    ASSUME NEW v \in Screen, v.row < H, v.col < W
    PROVE  /\ vga_putchar(v, BS) \in Screen
           /\ vga_putchar(v, BS).row < H /\ vga_putchar(v, BS).col < W
           /\ vga_putchar(v, BS).chars = v.chars /\ vga_putchar(v, BS).pixels = v.pixels
           /\ Pos(vga_putchar(v, BS)) = IF Pos(v) = 0 THEN 0 ELSE Pos(v) - 1
           /\ Pos(v) # 0 => \/ vga_putchar(v, BS).col + 1 < W
                            \/ vga_putchar(v, BS).row + 1 < H
<1> USE ScreenAssumption
<1> DEFINE n == vga_putchar(v, BS)
<1>1. n = Back(v)
  BY DEF vga_putchar, NL, BS
<1>2. v.row \in 0..H /\ v.col \in 0..W
  BY DEF Screen
<1>3. n \in Screen /\ n.row < H /\ n.col < W
  BY PutcharScreen
<1>4. \A r \in Nat : (r + 1) * W = r * W + W /\ r * W \in Nat
  OBVIOUS
<1>5. CASE v.col # 0
  <2>1. n = ColumnAt(v, v.col - 1)
    BY <1>1, <1>2, <1>5 DEF Back, ColumnAt
  <2>2. n.col = v.col - 1 /\ n.row = v.row /\ n.chars = v.chars /\ n.pixels = v.pixels
    BY <2>1 DEF ColumnAt, Screen
  <2>3. Pos(v) # 0 /\ Pos(n) = Pos(v) - 1 /\ n.col + 1 < W
    BY <1>2, <1>4, <1>5, <2>2 DEF Pos, get_pos
  <2> QED BY <1>3, <2>2, <2>3
<1>6. CASE v.col = 0 /\ v.row # 0
  <2>1. n = CursorAt(v, v.row - 1, W - 1)
    BY <1>1, <1>6 DEF Back, CursorAt
  <2>2. n.col = W - 1 /\ n.row = v.row - 1 /\ n.chars = v.chars /\ n.pixels = v.pixels
    BY <2>1 DEF CursorAt, Screen
  <2>3. PICK r \in Nat : v.row = r + 1
    BY <1>2, <1>6
  <2>4. Pos(v) = r * W + W /\ Pos(n) = r * W + W - 1 /\ r * W \in Nat /\ n.row + 1 < H
    BY <1>2, <1>4, <1>6, <2>2, <2>3 DEF Pos, get_pos
  <2> QED BY <1>3, <2>2, <2>4
<1>7. CASE v.col = 0 /\ v.row = 0
  <2>1. n = v
    BY <1>1, <1>7 DEF Back
  <2>2. Pos(v) = 0
    BY <1>7 DEF Pos, get_pos
  <2> QED BY <1>3, <2>1, <2>2
<1> QED BY <1>5, <1>6, <1>7

(* Backspace takes the last letter off the screen.                         *)
LEMMA BackspaceShown ==
    ASSUME NEW v \in Screen, v.row < H, v.col < W, NEW s \in Seq(Letter), s # <<>>, Shown(v, s)
    PROVE  Shown(vga_putchar(vga_putchar(vga_putchar(v, BS), SP), BS), SubSeq(s, 1, Len(s) - 1))
<1> DEFINE a == vga_putchar(v, BS)
           b == vga_putchar(a, SP)
           n == vga_putchar(b, BS)
           t == SubSeq(s, 1, Len(s) - 1)
<1>1. /\ a \in Screen /\ a.row < H /\ a.col < W /\ a.chars = v.chars /\ a.pixels = v.pixels
      /\ Pos(a) = IF Pos(v) = 0 THEN 0 ELSE Pos(v) - 1
      /\ Pos(v) # 0 => a.col + 1 < W \/ a.row + 1 < H
  BY BackPos
<1> HIDE DEF a
<1>2. b \in Screen /\ b.row < H /\ b.col < W
  BY <1>1, PutcharScreen
<1>3. SP \in Letter \cup {SP} /\ SP # NUL /\ W \in Nat \ {0}
  BY ScreenAssumption DEF SP, NUL
<1>4. \/ Advanced(a, b, SP, 0)
      \/ Pos(v) = 0 /\ Advanced(a, b, SP, W)
  <2>1. CASE a.col + 1 < W \/ a.row + 1 < H
    BY <1>1, <1>3, <2>1, PutInside
  <2>2. CASE ~(a.col + 1 < W \/ a.row + 1 < H)
    BY <1>1, <1>3, <2>2, PutScrolls
  <2> QED BY <2>1, <2>2
<1> HIDE DEF b
<1>5. n.chars = b.chars /\ n.pixels = b.pixels /\ Pos(n) = IF Pos(b) = 0 THEN 0 ELSE Pos(b) - 1
  BY <1>2, BackPos
<1> HIDE DEF n
<1>6. Pos(v) \in Nat /\ Pos(b) \in Nat
  BY <1>2, PosInReach DEF Screen, Pos, Cells
<1>7. Len(s) \in Nat \ {0} /\ Len(t) = Len(s) - 1 /\ \A j \in 1..Len(t) : t[j] = s[j]
  BY SMTT(30)
<1> HIDE DEF t
<1>8. CASE Pos(v) = 0
  <2>1. Pos(n) = 0
    BY <1>1, <1>3, <1>4, <1>5, <1>6, <1>8 DEF Advanced
  <2> QED BY <1>7, <2>1 DEF Shown, a, b, n, t
<1>9. CASE Pos(v) # 0
  <2>1. Advanced(a, b, SP, 0) /\ Pos(a) = Pos(v) - 1 /\ Pos(b) = Pos(v) /\ Pos(n) = Pos(v) - 1
    <3>1. Advanced(a, b, SP, 0) /\ Pos(a) = Pos(v) - 1
      BY <1>1, <1>4, <1>9
    <3>2. Pos(b) = Pos(a) + 1 - 0
      BY <3>1 DEF Advanced
    <3> QED BY <1>5, <1>6, <1>9, <3>1, <3>2
  <2>2. ASSUME NEW k \in 1..Len(t), Pos(n) - k >= 0
        PROVE  /\ n.chars[Pos(n) - k] = t[Len(t) + 1 - k]
               /\ n.pixels[Pos(n) - k] = n.chars[Pos(n) - k]
    <3> DEFINE p == Pos(n) - k
               j == k + 1
    <3>1. /\ p \in Nat /\ p + 1 < Pos(b) /\ p + 0 = p /\ p = Pos(v) - j /\ Pos(v) - j >= 0
          /\ j \in 1..Len(s)
      BY <1>6, <1>7, <2>1, <2>2
    <3>2. Len(t) + 1 - k = Len(s) + 1 - j /\ Len(t) + 1 - k \in 1..Len(t)
      <4>1. Len(s) \in Nat /\ Len(t) = Len(s) - 1 /\ k \in 1..Len(t)
        BY <1>7, <2>2
      <4> QED BY <4>1
    <3> HIDE DEF p, j
    <3>3. v.chars[p] = s[Len(s) + 1 - j] /\ v.pixels[p] = v.chars[p]
      BY <3>1 DEF Shown
    <3>4. /\ b.chars[p] = a.chars[p]
          /\ a.chars[p] # NUL /\ a.pixels[p] = a.chars[p] => b.pixels[p] = b.chars[p]
      BY <2>1, <3>1 DEF Advanced
    <3>5. s[Len(s) + 1 - j] = t[Len(t) + 1 - k] /\ s[Len(s) + 1 - j] # NUL
      <4>1. Len(s) + 1 - j \in 1..Len(s)
        BY <1>7, <3>2
      <4>2. s[Len(s) + 1 - j] \in Letter
        BY <4>1
      <4> QED BY <1>7, <3>2, <4>2, LetterAssumption
    <3> QED BY <1>1, <1>5, <3>3, <3>4, <3>5 DEF p
  <2> QED BY <2>2 DEF Shown, a, b, n, t
<1> QED BY <1>8, <1>9

(* A line is typed only while a program waits for it, and then no call of  *)
(* vga_putchar is interrupted.                                             *)
Reader == (line # <<>> => reading) /\ (reading => write.pc = "idle")

LineInv == IInv /\ Reader /\ Shown(vga, line)

LEMMA EmptyLineInv ==
    ASSUME IInv', line' = <<>>, Reader'
    PROVE  LineInv'
<1>1. Shown(vga', line')
  BY NothingShown
<1> QED BY <1>1, Zenon DEF LineInv

(* A step of a program's call finds no line.                               *)
LEMMA StepLine ==
    ASSUME LineInv, NEW from, NEW to, NEW reg, from # "idle", Goto(from, to, reg), IInv'
    PROVE  LineInv'
<1>1. ~reading /\ line = <<>>
  BY Zenon DEF LineInv, Reader, Goto
<1>2. line' = <<>> /\ ~reading'
  BY <1>1, Zenon DEF Goto
<1>3. Reader'
  BY <1>2, Zenon DEF Reader
<1> QED BY <1>2, <1>3, EmptyLineInv, Zenon

LEMMA WriteStepLine ==
    ASSUME LineInv, WriteStep, IInv'
    PROVE  LineInv'
<1>1. CASE vga_clear
  BY <1>1, StepLine DEF vga_clear
<1>2. CASE PutStore \/ PutDraw \/ Load \/ Advance
  BY <1>2, StepLine DEF PutStore, PutDraw, Load, Advance
<1>3. CASE NewlineColumn \/ NewlineRow \/ NewlineUndo \/ ScrollStep
  BY <1>3, StepLine DEF NewlineColumn, NewlineRow, NewlineUndo, ScrollStep
<1>4. CASE BackColumn \/ BackLoadRow \/ BackRow \/ BackEnd
  BY <1>4, StepLine DEF BackColumn, BackLoadRow, BackRow, BackEnd
<1> QED BY <1>1, <1>2, <1>3, <1>4 DEF WriteStep

LEMMA LetterLine ==
    ASSUME LineInv, NEW c \in Letter, PressLetter(c), IInv'
    PROVE  LineInv'
<1>1. CASE reading
  <2>1. vga \in Screen /\ vga.row < H /\ vga.col < W /\ line \in Seq(Letter)
    <3>1. write.pc = "idle" /\ IInv /\ line \in Seq(Letter)
      BY <1>1, Zenon DEF LineInv, Reader, IInv, Input
    <3> QED BY <3>1 DEF IInv, Cursor
  <2>2. vga' = vga_putchar(vga, c) /\ line' = Append(line, c)
    BY <1>1, Zenon DEF PressLetter
  <2>3. Shown(vga', line')
    <3>1. Shown(vga, line)
      BY DEF LineInv
    <3> QED BY <2>1, <2>2, <3>1, LetterShown
  <2>4. Reader'
    BY <1>1, Zenon DEF LineInv, Reader, PressLetter
  <2> QED BY <2>3, <2>4, Zenon DEF LineInv
<1>2. CASE ~reading
  <2>1. line' = <<>> /\ ~reading'
    BY <1>2, Zenon DEF LineInv, Reader, PressLetter
  <2>2. Reader'
    BY <2>1, Zenon DEF Reader
  <2> QED BY <2>1, <2>2, EmptyLineInv, Zenon
<1> QED BY <1>1, <1>2

LEMMA BackspaceLine ==
    ASSUME LineInv, PressBackspace, IInv'
    PROVE  LineInv'
<1>1. CASE reading /\ line # <<>>
  <2>1. vga \in Screen /\ vga.row < H /\ vga.col < W /\ line \in Seq(Letter)
    <3>1. write.pc = "idle" /\ IInv /\ line \in Seq(Letter)
      BY <1>1, Zenon DEF LineInv, Reader, IInv, Input
    <3> QED BY <3>1 DEF IInv, Cursor
  <2>2. /\ vga' = vga_putchar(vga_putchar(vga_putchar(vga, BS), SP), BS)
        /\ line' = SubSeq(line, 1, Len(line) - 1)
    BY <1>1, Zenon DEF PressBackspace
  <2>3. Shown(vga', line')
    <3>1. Shown(vga, line) /\ line # <<>>
      BY <1>1, Zenon DEF LineInv
    <3> QED BY <2>1, <2>2, <3>1, BackspaceShown
  <2>4. Reader'
    BY <1>1, Zenon DEF LineInv, Reader, PressBackspace
  <2> QED BY <2>3, <2>4, Zenon DEF LineInv
<1>2. CASE ~(reading /\ line # <<>>)
  <2>1. line' = <<>> /\ UNCHANGED <<write, reading>>
    BY <1>2, Zenon DEF LineInv, Reader, PressBackspace
  <2>2. Reader'
    BY <2>1, Zenon DEF LineInv, Reader
  <2> QED BY <2>1, <2>2, EmptyLineInv, Zenon
<1> QED BY <1>1, <1>2

(* Every step keeps the line in front of the cursor.                       *)
LEMMA NextLine == LineInv /\ [Next]_vars => LineInv'
<1> SUFFICES ASSUME LineInv, [Next]_vars PROVE LineInv'
  OBVIOUS
<1>0. IInv'
  BY NextIInv, Zenon DEF LineInv
<1>1. CASE \E c \in Letter \cup {NL, BS} : Write(c)
  <2>0. ~reading /\ line' = line /\ reading' = reading
    BY <1>1, Zenon DEF Write
  <2>1. line' = <<>> /\ ~reading'
    BY <2>0, Zenon DEF LineInv, Reader
  <2>2. Reader'
    BY <2>1, Zenon DEF Reader
  <2> QED BY <1>0, <2>1, <2>2, EmptyLineInv, Zenon
<1>2. CASE WriteStep
  BY <1>0, <1>2, WriteStepLine
<1>3. CASE Read
  <2>1. line' = <<>> /\ write'.pc = "idle"
    BY <1>3, Zenon DEF Read
  <2>2. Reader'
    BY <2>1, Zenon DEF Reader
  <2> QED BY <1>0, <2>1, <2>2, EmptyLineInv, Zenon
<1>4. CASE PressEnter
  <2>1. line' = <<>> /\ ~reading'
    BY <1>4, Zenon DEF PressEnter
  <2>2. Reader'
    BY <2>1, Zenon DEF Reader
  <2> QED BY <1>0, <2>1, <2>2, EmptyLineInv, Zenon
<1>5. CASE PressBackspace
  BY <1>0, <1>5, BackspaceLine
<1>6. CASE \E c \in Letter : PressLetter(c)
  BY <1>0, <1>6, LetterLine
<1>7. CASE UNCHANGED vars
  BY <1>0, <1>7, Zenon DEF LineInv, Reader, Shown, Pos, vars
<1> QED BY <1>1, <1>2, <1>3, <1>4, <1>5, <1>6, <1>7, Zenon DEF Next

LEMMA InitLine == Init => LineInv
<1> SUFFICES ASSUME Init PROVE LineInv
  OBVIOUS
<1>1. line = <<>> /\ ~reading
  BY Zenon DEF Init
<1>2. Shown(vga, line)
  BY <1>1, NothingShown
<1> QED BY <1>1, <1>2, InitIInv, Zenon DEF LineInv, Reader

(* While a program reads, the characters in front of the cursor are the    *)
(* line being typed, on the screen and in vga_chars, on a screen of any    *)
(* size: vga_putchar over the end of a row, the scrolling of vga_newline   *)
(* and the three calls for Backspace keep them together.                   *)
THEOREM LineAlwaysShown == Spec => []LineShown
<1>1. LineInv => LineShown
  BY Zenon DEF LineInv, Shown, Pos, LineShown
<1> QED BY <1>1, InitLine, NextLine, PTL DEF Spec
=============================================================================
