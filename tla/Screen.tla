------------------------------- MODULE Screen -------------------------------
(***************************************************************************)
(* The output side of a virtual terminal (vt.rs) and the VGA text display  *)
(* that shows it (vgabuf.rs).  The terminal keeps its rows in a ring:      *)
(* buf_line is the row of buf that is on top of the screen.                *)
(***************************************************************************)
EXTENDS Ansi

VARIABLES
  vt,       \* VirtualTerminalInternals
  vga       \* the display: cells in the order of its memory, and its cursor

White == 67
Black == 0

VTChar(v, ch) == <<ch, v.fg_color, v.bg_color>>

NewTerminal(w, h) ==
  [size |-> <<w, h>>, buf |-> [i \in 0 .. w * h - 1 |-> <<" ", White, Black>>], buf_line |-> 0,
   ansi |-> NewParser, cursor_pos |-> <<0, 0>>, fg_color |-> White, bg_color |-> Black]

RowOf(v, y) == IF y + v.buf_line >= v.size[2] THEN y + v.buf_line - v.size[2] ELSE y + v.buf_line
Off(v, x, y) == RowOf(v, y) * v.size[1] + x
BufEnd(v) == v.size[1] * v.size[2]

ClearRange(v, start, end) ==
  [v EXCEPT !.buf = [i \in DOMAIN @ |->
     IF IF start <= end THEN i >= start /\ i < end ELSE i >= start \/ i < end
     THEN VTChar(v, " ") ELSE @[i]]]

Monus(a, b) == IF a < b THEN 0 ELSE a - b

(* Mutant: clears the last row before it moves the rows up. *)
ScrollUpClearsFirst(v, n) ==
  LET h == v.size[2]
      c == ClearRange(v, Off(v, 0, h - n), Off(v, 0, h))
  IN  [c EXCEPT !.cursor_pos = <<0, Monus(@[2], n)>>,
                !.buf_line = IF @ + n >= h THEN @ + n - h ELSE @ + n]

ScrollUp(v, n) ==
  LET h == v.size[2]
      s == [v EXCEPT !.cursor_pos = <<0, Monus(@[2], n)>>,
                     !.buf_line = IF @ + n >= h THEN @ + n - h ELSE @ + n]
  IN  IF n >= h THEN [ClearRange(v, 0, BufEnd(v)) EXCEPT !.cursor_pos = <<0, 0>>]
      ELSE ClearRange(s, Off(s, 0, h - n), Off(s, 0, h))

NewLine(v) ==
  LET n == [v EXCEPT !.cursor_pos = <<0, @[2] + 1>>]
  IN  IF n.cursor_pos[2] >= v.size[2] THEN ScrollUp(n, 1) ELSE n

WriteChar(v, ch) ==
  LET x == v.cursor_pos[1]
      y == v.cursor_pos[2]
      put == [v EXCEPT !.buf[Off(v, x, y)] = VTChar(v, ch), !.cursor_pos[1] = @ + 1]
  IN  CASE ch = "NL" -> NewLine(v)
        [] ch = "BS" -> IF x > 0 THEN [v EXCEPT !.cursor_pos = <<x - 1, y>>]
                        ELSE IF y > 0 THEN [v EXCEPT !.cursor_pos = <<v.size[1] - 1, y - 1>>]
                        ELSE v
        [] ch = "CTL" -> v
        [] OTHER -> IF put.cursor_pos[1] >= v.size[1] THEN NewLine(put) ELSE put

Min2(a, b) == IF a < b THEN a ELSE b

(* The colours, foreground and background, after the commands of one SGR
   sequence. *)
SetPen(pen, c) ==
  CASE c[1] = "reset" -> <<White, Black>>
    [] c[1] = "fg" -> <<c[2], pen[2]>>
    [] c[1] = "bg" -> <<pen[1], c[2]>>
    [] OTHER -> pen

SetPens(pen, cmds) ==
  LET after[i \in 0 .. Len(cmds)] == IF i = 0 THEN pen ELSE SetPen(after[i - 1], cmds[i])
  IN  after[Len(cmds)]

(* write_byte: the parser, then what its action does to the terminal. *)
Perform(v, a) ==
  LET x == v.cursor_pos[1]
      y == v.cursor_pos[2]
  IN  CASE a.op = "none" -> v
        [] a.op = "char" -> WriteChar(v, a.ch)
        [] a.op = "up" -> [v EXCEPT !.cursor_pos = <<x, Monus(y, a.n)>>]
        [] a.op = "down" -> [v EXCEPT !.cursor_pos = <<x, Min2(y + a.n, v.size[2] - 1)>>]
        [] a.op = "right" -> [v EXCEPT !.cursor_pos = <<Min2(x + a.n, v.size[1] - 1), y>>]
        [] a.op = "left" -> [v EXCEPT !.cursor_pos = <<Monus(x, a.n), y>>]
        [] a.op = "erase" -> ClearRange(v, Off(v, x, y), Off(v, 0, y + 1))
        [] a.op = "sgr" -> LET pen == SetPens(<<v.fg_color, v.bg_color>>, a.cmds)
                           IN  [v EXCEPT !.fg_color = pen[1], !.bg_color = pen[2]]

AfterByte(v, b) == Perform([v EXCEPT !.ansi = AnsiState(v.ansi, b)], AnsiAction(v.ansi, b))

(* VgaTextBufferDevice::redraw: characters that are not printable ASCII
   show as a block. *)
Glyph(ch) == IF ch \in {"CB", "wide", "replacement"} THEN "block" ELSE ch

Redraw(v) ==
  [cells |-> [i \in 0 .. BufEnd(v) - 1 |->
                LET c == v.buf[Off(v, i % v.size[1], i \div v.size[1])]
                IN  <<Glyph(c[1]), c[2], c[3]>>],
   cursor |-> v.cursor_pos]

(* VirtualTerminal::write of one byte: every piece a program writes is
   drawn before the next. *)
WriteByte(b) ==
  /\ vt' = AfterByte(vt, b)
  /\ vga' = Redraw(AfterByte(vt, b))

(* The screen that ScreenAbs has, read off the display. *)
Abs == INSTANCE ScreenAbs WITH
         Glyphs <- Printable \cup {"block"},
         size <- vt.size,
         rows <- [y \in 0 .. vt.size[2] - 1 |->
                    [x \in 0 .. vt.size[1] - 1 |-> vga.cells[y * vt.size[1] + x]]],
         cursor <- vga.cursor,
         pen <- <<vt.fg_color, vt.bg_color>>
=============================================================================
