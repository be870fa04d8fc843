----------------------------- MODULE ScreenAbs -----------------------------
(***************************************************************************)
(* What a terminal promises: a screen of rows that move up when a line is  *)
(* added below the last one, a cursor that never leaves it, and a pen.     *)
(***************************************************************************)
EXTENDS Naturals

CONSTANT Glyphs         \* what a cell can show

VARIABLES size,         \* <<width, height>>
          rows,         \* rows[y][x] is a glyph and its colours
          cursor,       \* <<x, y>>
          pen           \* colours of what is written next

vars == <<size, rows, cursor, pen>>

W == size[1]
H == size[2]
Blank == <<" ", pen[1], pen[2]>>

Init ==
  /\ rows = [y \in 0 .. H - 1 |-> [x \in 0 .. W - 1 |-> Blank]]
  /\ cursor = <<0, 0>>

(* The screen and the cursor after one more line, given rows r. *)
NextLine(r) ==
  IF cursor[2] < H - 1
  THEN rows' = r /\ cursor' = <<0, cursor[2] + 1>>
  ELSE /\ rows' = [y \in 0 .. H - 1 |-> IF y < H - 1 THEN r[y + 1] ELSE [x \in 0 .. W - 1 |-> Blank]]
       /\ cursor' = <<0, H - 1>>

Put(g) ==
  LET r == [rows EXCEPT ![cursor[2]][cursor[1]] = <<g, pen[1], pen[2]>>] IN
  /\ IF cursor[1] < W - 1
     THEN rows' = r /\ cursor' = <<cursor[1] + 1, cursor[2]>>
     ELSE NextLine(r)
  /\ UNCHANGED <<size, pen>>

NewLine == NextLine(rows) /\ UNCHANGED <<size, pen>>

(* The cursor moves along its row or its column, or back over the end of
   the row above. *)
MoveCursor ==
  /\ \/ \E x \in 0 .. W - 1 : cursor' = <<x, cursor[2]>>
     \/ \E y \in 0 .. H - 1 : cursor' = <<cursor[1], y>>
     \/ cursor[1] = 0 /\ cursor[2] > 0 /\ cursor' = <<W - 1, cursor[2] - 1>>
  /\ UNCHANGED <<size, rows, pen>>

EraseToLineEnd ==
  /\ rows' = [rows EXCEPT ![cursor[2]] =
                [x \in 0 .. W - 1 |-> IF x >= cursor[1] THEN Blank ELSE @[x]]]
  /\ UNCHANGED <<size, cursor, pen>>

ChangePen == pen' /= pen /\ UNCHANGED <<size, rows, cursor>>

Next == (\E g \in Glyphs : Put(g)) \/ NewLine \/ MoveCursor \/ EraseToLineEnd \/ ChangePen

Spec == Init /\ [][Next]_vars
=============================================================================
