--------------------------- MODULE ConsoleProofs ---------------------------
(***************************************************************************)
(* Proofs about Console, for every size of the terminals: the terminal is  *)
(* the scrolling screen of ScreenAbs; no arrow key changes a line of the   *)
(* history; and when the console waits for a key the screen shows the line *)
(* it edits.  The last takes what strings of bytes do to the row of the    *)
(* cursor (Writes), string by string.                                      *)
(***************************************************************************)
EXTENDS Console, Integers, SequenceTheorems, FiniteSetTheorems, WellFoundedInduction, TLAPS

----------------------------------------------------------------------------
(* The history of the line editor. *)

\* What the line editor's history needs to be.
HistInv == /\ hist.len \in 0 .. HistCap /\ hpos \in 0 .. hist.len
           /\ DOMAIN modified = 0 .. HistCap

\* At the start the history is empty.
LEMMA InitHist == Init => HistInv
  <1> SUFFICES ASSUME Init PROVE HistInv
    OBVIOUS
  <1>1. hist = History!New /\ hpos = 0 /\ modified = Fresh
    BY DEF Init, RlInit
  <1>2. hist.len = 0
    BY <1>1 DEF History!New
  <1> QED  BY <1>1, <1>2, HistAssumption DEF HistInv, Fresh

\* The history after a line was entered.
Entered == History!PushBack(IF History!IsFull(hist) THEN History!PopFront(hist) ELSE hist, line)

\* Entering a line keeps the history within its capacity: the oldest line goes.
LEMMA EnteredLen == ASSUME HistInv PROVE Entered.len \in 0 .. HistCap
  <1> DEFINE d == IF History!IsFull(hist) THEN History!PopFront(hist) ELSE hist
  <1>1. hist.len \in 0 .. HistCap /\ HistCap \in Nat /\ HistCap # 0
    BY HistAssumption DEF HistInv
  <1>2. d.len \in 0 .. HistCap - 1
    <2>1. CASE hist.len = HistCap
      <3>1. d = History!PopFront(hist) /\ hist.len # 0
        BY <1>1, <2>1 DEF History!IsFull
      <3>2. d.len = hist.len - 1
        BY <3>1 DEF History!PopFront
      <3>3. HistCap - 1 \in 0 .. HistCap - 1
        BY <1>1
      <3> QED  BY <2>1, <3>2, <3>3
    <2>2. CASE hist.len # HistCap
      <3>1. d = hist
        BY <2>2 DEF History!IsFull
      <3> QED  BY <1>1, <2>2, <3>1
    <2> QED  BY <2>1, <2>2
  <1> HIDE DEF d
  <1>3. History!PushBack(d, line).len \in 0 .. HistCap
    BY <1>1, <1>2 DEF History!PushBack, History!IsFull
  <1> QED  BY <1>3 DEF Entered, d

\* Moving to another place of the history keeps the line at every place, the one that is left included.
LEMMA RecallKeeps ==
    ASSUME HistInv, NEW p \in 0 .. hist.len, p # hpos, Recall(p)
    PROVE  HistInv' /\ \A i \in 0 .. hist.len : LineAt(i)' = LineAt(i)
  <1> DEFINE m == [modified EXCEPT ![hpos] = {line}, ![p] = {}]
  <1>1. hist' = hist /\ hpos' = p /\ modified' = m /\ line' = LineAt(p)
    BY DEF Recall, LineAt
  <1>2. DOMAIN modified = 0 .. HistCap /\ 0 .. hist.len \subseteq 0 .. HistCap /\ hpos \in 0 .. hist.len
    <2>1. hist.len \in 0 .. HistCap /\ HistCap \in Nat
      BY HistAssumption DEF HistInv
    <2> QED  BY <2>1 DEF HistInv
  <1>3. DOMAIN m = 0 .. HistCap /\ m[hpos] = {line} /\ \A i \in 0 .. hist.len : i # p /\ i # hpos => m[i] = modified[i]
    BY <1>2
  <1> HIDE DEF m
  <1>4. HistInv'
    BY <1>1, <1>2, <1>3 DEF HistInv
  <1>5. ASSUME NEW i \in 0 .. hist.len PROVE LineAt(i)' = LineAt(i)
    <2>1. CASE i = p
      BY <1>1, <2>1 DEF LineAt
    <2>2. CASE i = hpos
      <3>1. LineAt(i)' = CHOOSE x \in {line} : TRUE
        <4>1. modified'[i] = {line} /\ i # hpos'
          BY <1>1, <1>3, <2>2
        <4> QED  BY <4>1 DEF LineAt
      <3>2. (CHOOSE x \in {line} : TRUE) = line
        OBVIOUS
      <3> QED  BY <2>2, <3>1, <3>2 DEF LineAt
    <2>3. CASE i # p /\ i # hpos
      <3>1. modified'[i] = modified[i] /\ hist' = hist /\ i # hpos'
        BY <1>1, <1>3, <2>3
      <3> QED  BY <2>3, <3>1 DEF LineAt
    <2> QED  BY <2>1, <2>2, <2>3
  <1> QED  BY <1>4, <1>5

\* A key that leaves the lines alone leaves what every place holds.
LEMMA SameHist ==
    ASSUME HistInv, UNCHANGED <<line, hist, hpos, modified>>
    PROVE  HistInv' /\ \A i \in 0 .. hist.len : LineAt(i)' = LineAt(i)
  BY DEF HistInv, LineAt

\* So does every arrow key.
LEMMA ArrowKeeps ==
    ASSUME HistInv, NEW ch, Arrow(ch)
    PROVE  HistInv' /\ \A i \in 0 .. hist.len : LineAt(i)' = LineAt(i)
  <1>1. hpos \in 0 .. hist.len /\ hist.len \in Nat
    BY HistAssumption DEF HistInv
  <1>2. CASE ch = "A" /\ hpos # 0 /\ Recall(hpos - 1)
    <2>1. hpos - 1 \in 0 .. hist.len /\ hpos - 1 # hpos
      BY <1>1, <1>2
    <2> QED  BY <1>2, <2>1, RecallKeeps
  <1>3. CASE ch = "B" /\ hpos # hist.len /\ Recall(hpos + 1)
    <2>1. hpos + 1 \in 0 .. hist.len /\ hpos + 1 # hpos
      BY <1>1, <1>3
    <2> QED  BY <1>3, <2>1, RecallKeeps
  <1>4. CASE UNCHANGED <<line, hist, hpos, modified>>
    BY <1>4, SameHist
  <1> QED  BY <1>2, <1>3, <1>4 DEF Arrow

\* A step of the console keeps HistInv, and all lines if it is an arrow key.
LEMMA NextHist ==
    ASSUME HistInv, [Next]_vars
    PROVE  HistInv' /\ (esc = <<"ESC", "[">> => \A i \in 0 .. hist.len : LineAt(i)' = LineAt(i))
  <1>1. CASE UNCHANGED <<line, hist, hpos, modified>>
    BY <1>1, SameHist
  <1>2. ASSUME NEW ch, Type(ch)
        PROVE  HistInv' /\ (esc = <<"ESC", "[">> => \A i \in 0 .. hist.len : LineAt(i)' = LineAt(i))
    <2>0. <<>> # <<"ESC", "[">>
      OBVIOUS
    <2>1. CASE EscapeChar(ch)
      BY <2>1, SameHist DEF EscapeChar
    <2>2. CASE esc = <<"ESC", "[">> /\ Arrow(ch)
      BY <2>2, ArrowKeeps
    <2>3. CASE esc = <<>> /\ \E o \in Outputs : Enter(o)
      <3>1. hist' = Entered /\ hpos' = Entered.len /\ modified' = Fresh
        BY <2>3 DEF Enter, Start, Entered
      <3>2. Entered.len \in 0 .. HistCap /\ HistCap \in Nat
        BY EnteredLen, HistAssumption
      <3>3. HistInv'
        BY <3>1, <3>2 DEF HistInv, Fresh
      <3> QED  BY <2>0, <2>3, <3>3
    <2>4. CASE esc = <<>> /\ (Backspace \/ Insert(ch))
      <3>1. UNCHANGED <<hist, hpos, modified>>
        BY <2>4 DEF Backspace, Insert
      <3> QED  BY <2>0, <2>4, <3>1 DEF HistInv
    <2> QED  BY <1>2, <2>1, <2>2, <2>3, <2>4 DEF Type, Typed
  <1>3. ASSUME NEW b, WriteAny(b) PROVE UNCHANGED <<line, hist, hpos, modified>>
    BY <1>3 DEF WriteAny, rlVars
  <1>4. CASE WriteOut
    BY <1>1, <1>4 DEF WriteOut
  <1>5. CASE UNCHANGED vars
    BY <1>1, <1>5 DEF vars, rlVars
  <1> QED  BY <1>1, <1>2, <1>3, <1>4, <1>5 DEF Next

\* The position in the history is a place of the history.
THEOREM HistInvariant == Spec => []HistInv
  BY InitHist, NextHist, PTL DEF Spec

\* No arrow key changes a line of the history (readline).
THEOREM HistorySafe == Spec => HistoryKept
  <1>1. HistInv /\ [Next]_vars => [esc = <<"ESC", "[">> => \A p \in 0 .. hist.len : LineAt(p)' = LineAt(p)]_vars
    BY NextHist
  <1> QED  BY <1>1, HistInvariant, PTL DEF Spec, HistoryKept

----------------------------------------------------------------------------
(* The screen: cells, rows and the ring they are kept in. *)

\* Rows do not overlap.
LEMMA MulMono == ASSUME NEW w \in Nat, NEW p \in Nat, NEW q \in Nat, p < q
  PROVE p * w + w <= q * w
  OBVIOUS

\* A cell number gives its row and column back.
LEMMA DivModUnique == ASSUME NEW w \in Nat \ {0}, NEW q \in Nat, NEW r \in 0 .. w - 1
  PROVE (q * w + r) \div w = q /\ (q * w + r) % w = r
  OBVIOUS

\* A row and a column give a place, and no two the same.
LEMMA Place ==
    ASSUME NEW w \in Nat \ {0}, NEW h \in Nat, NEW r \in 0 .. h - 1, NEW x \in 0 .. w - 1
    PROVE  /\ r * w + x \in 0 .. w * h - 1 /\ r * w \in Nat /\ w * h \in Nat
           /\ \A s \in Nat, z \in 0 .. w - 1 : r * w + x = s * w + z => r = s /\ x = z
  <1>1. r \in Nat /\ r < h /\ r * w \in Nat /\ w * h \in Nat
    OBVIOUS
  <1>2. r * w + w <= h * w /\ h * w = w * h
    BY <1>1, MulMono
  <1>3. ASSUME NEW s \in Nat, NEW z \in 0 .. w - 1, r * w + x = s * w + z PROVE r = s /\ x = z
    <2>1. (r * w + x) \div w = r /\ (r * w + x) % w = x
      BY <1>1, DivModUnique
    <2>2. (s * w + z) \div w = s /\ (s * w + z) % w = z
      BY DivModUnique
    <2> QED  BY <1>3, <2>1, <2>2
  <1> DEFINE rw == r * w
             wh == w * h
  <1>4. rw + x \in 0 .. wh - 1
    <2>1. rw + w <= wh /\ rw \in Nat /\ wh \in Nat
      BY <1>1, <1>2
    <2> HIDE DEF rw, wh
    <2> QED  BY <2>1
  <1> QED  BY <1>1, <1>3, <1>4

\* The fields of a terminal.
VtFields == {"size", "buf", "buf_line", "ansi", "cursor_pos", "fg_color", "bg_color"}

\* A terminal of w columns and h rows, with the cursor at x and y.
Grid(v, w, h) ==
  /\ DOMAIN v = VtFields /\ v.size = <<w, h>> /\ w \in Nat \ {0} /\ h \in Nat \ {0, 1}
  /\ DOMAIN v.buf = 0 .. w * h - 1 /\ v.buf_line \in 0 .. h - 1
\* A ring of rows with its start within it.
Rows(v, w, h) == v.size = <<w, h>> /\ w \in Nat \ {0} /\ h \in Nat \ {0, 1} /\ v.buf_line \in 0 .. h - 1
\* The same with the cursor on the screen.
VtOK(v, w, h, x, y) ==
  Grid(v, w, h) /\ v.cursor_pos = <<x, y>> /\ x \in 0 .. w - 1 /\ y \in 0 .. h - 1

\* Where the rows of the screen are in the ring.
LEMMA Ring ==
    ASSUME NEW v, NEW w, NEW h, Rows(v, w, h)
    PROVE  /\ \A y \in 0 .. h : RowOf(v, y) \in 0 .. h - 1 /\ \A x : Off(v, x, y) = RowOf(v, y) * w + x
           /\ \A y, z \in 0 .. h - 1 : RowOf(v, y) = RowOf(v, z) => y = z
           /\ \A y \in 0 .. h - 1 : RowOf(v, y + 1) = IF RowOf(v, y) = h - 1 THEN 0 ELSE RowOf(v, y) + 1
           /\ RowOf(v, h) = v.buf_line
           /\ BufEnd(v) = w * h
  <1> USE DEF Rows
  <1>1. \A y : RowOf(v, y) = IF y + v.buf_line >= h THEN y + v.buf_line - h ELSE y + v.buf_line
    BY DEF RowOf
  <1>2. \A x, y : Off(v, x, y) = RowOf(v, y) * w + x
    BY DEF Off
  <1>3. BufEnd(v) = w * h
    BY DEF BufEnd
  <1>4. \A y \in 0 .. h : RowOf(v, y) \in 0 .. h - 1
    BY <1>1
  <1>5. \A y, z \in 0 .. h - 1 : RowOf(v, y) = RowOf(v, z) => y = z
    BY <1>1
  <1>6. \A y \in 0 .. h - 1 : RowOf(v, y + 1) = IF RowOf(v, y) = h - 1 THEN 0 ELSE RowOf(v, y) + 1
    BY <1>1
  <1>7. RowOf(v, h) = v.buf_line
    BY <1>1
  <1> QED  BY <1>2, <1>3, <1>4, <1>5, <1>6, <1>7

\* The cells of the screen are cells of the buffer, each of them once.
LEMMA Cells ==
    ASSUME NEW v, NEW w, NEW h, Rows(v, w, h), NEW x \in 0 .. w - 1, NEW y \in 0 .. h - 1
    PROVE  /\ Off(v, x, y) \in 0 .. w * h - 1
           /\ \A s \in 0 .. w - 1, z \in 0 .. h - 1 : Off(v, x, y) = Off(v, s, z) => x = s /\ y = z
  <1>0. h \in Nat /\ w \in Nat \ {0}
    BY DEF Rows
  <1>1. RowOf(v, y) \in 0 .. h - 1 /\ Off(v, x, y) = RowOf(v, y) * w + x
    <2>1. y \in 0 .. h
      BY <1>0
    <2> QED  BY <2>1, Ring
  <1> DEFINE r == RowOf(v, y)
  <1>2. /\ Off(v, x, y) \in 0 .. w * h - 1
        /\ \A s \in Nat, z \in 0 .. w - 1 : Off(v, x, y) = s * w + z => r = s /\ x = z
    <2>1. r \in 0 .. h - 1 /\ Off(v, x, y) = r * w + x /\ w \in Nat \ {0} /\ x \in 0 .. w - 1
      BY <1>0, <1>1
    <2> HIDE DEF r
    <2>2. /\ r * w + x \in 0 .. w * h - 1
          /\ \A s \in Nat, z \in 0 .. w - 1 : r * w + x = s * w + z => r = s /\ x = z
      BY ONLY <1>0, <2>1, Place
    <2> QED  BY <2>1, <2>2
  <1>3. ASSUME NEW s \in 0 .. w - 1, NEW z \in 0 .. h - 1, Off(v, x, y) = Off(v, s, z) PROVE x = s /\ y = z
    <2>1. RowOf(v, z) \in 0 .. h - 1 /\ Off(v, s, z) = RowOf(v, z) * w + s
      <3>1. z \in 0 .. h
        BY <1>0
      <3> QED  BY <3>1, Ring
    <2>2. RowOf(v, z) \in Nat
      BY <1>0, <2>1
    <2>3. RowOf(v, y) = RowOf(v, z) /\ x = s
      BY <1>2, <1>3, <2>1, <2>2
    <2> QED  BY <2>3, Ring
  <1> QED  BY <1>2, <1>3

\* What the screen shows at a place.
Face(c) == <<Glyph(c[1]), c[2], c[3]>>
\* The cell at x and y of the screen, and what the display makes of it.
Cell(v, x, y) == v.buf[Off(v, x, y)]
Shown(v, x, y) == Face(Cell(v, x, y))

\* redraw copies every cell of the screen to the display, whatever the start of the ring.
LEMMA RedrawShows ==
    ASSUME NEW v, NEW w, NEW h, NEW cx, NEW cy, VtOK(v, w, h, cx, cy)
    PROVE  /\ Redraw(v).cursor = <<cx, cy>>
           /\ \A x \in 0 .. w - 1, y \in 0 .. h - 1 : Redraw(v).cells[y * w + x] = Shown(v, x, y)
  <1>1. v.size = <<w, h>> /\ w \in Nat \ {0} /\ h \in Nat \ {0, 1} /\ v.cursor_pos = <<cx, cy>>
        /\ v.buf_line \in 0 .. h - 1 /\ v.size[1] = w
    BY DEF VtOK, Grid
  <1>2. BufEnd(v) = w * h
    BY <1>1 DEF BufEnd
  <1> DEFINE f == [i \in 0 .. w * h - 1 |-> Face(v.buf[Off(v, i % w, i \div w)])]
  <1>3. Redraw(v).cells = f /\ Redraw(v).cursor = <<cx, cy>>
    BY <1>1, <1>2 DEF Redraw, Face
  <1>4. ASSUME NEW x \in 0 .. w - 1, NEW y \in 0 .. h - 1
        PROVE  f[y * w + x] = Shown(v, x, y)
    <2> DEFINE i == y * w + x
    <2>1. i \in 0 .. w * h - 1
      <3>1. h \in Nat
        BY <1>1
      <3> QED  BY <1>1, <3>1, Place
    <2>2. i \div w = y /\ i % w = x
      <3>1. y \in Nat
        OBVIOUS
      <3> QED  BY <1>1, <3>1, DivModUnique
    <2> HIDE DEF i
    <2>3. f[i] = Face(v.buf[Off(v, i % w, i \div w)])
      BY <2>1
    <2> HIDE DEF f
    <2>4. f[i] = Shown(v, x, y)
      BY <2>2, <2>3 DEF Shown, Cell
    <2> QED  BY <2>4 DEF i
  <1> HIDE DEF f
  <1> QED  BY <1>3, <1>4

\* Everything but the cells.
Alike(u, v) == /\ DOMAIN u = DOMAIN v /\ u.size = v.size /\ u.buf_line = v.buf_line /\ u.ansi = v.ansi
               /\ u.cursor_pos = v.cursor_pos /\ u.fg_color = v.fg_color /\ u.bg_color = v.bg_color

\* The fields are there.
LEMMA Fields == /\ "size" \in VtFields /\ "buf" \in VtFields /\ "buf_line" \in VtFields /\ "ansi" \in VtFields
                /\ "cursor_pos" \in VtFields /\ "fg_color" \in VtFields /\ "bg_color" \in VtFields
  BY DEF VtFields

\* From start to end in the ring, past its end when end comes first.
Within(i, start, end) == IF start <= end THEN i >= start /\ i < end ELSE i >= start \/ i < end

\* u is v with the cells from start to end cleared.
Cleared(u, v, start, end) ==
  /\ Alike(u, v) /\ DOMAIN u.buf = DOMAIN v.buf
  /\ \A i \in DOMAIN v.buf : u.buf[i] = IF Within(i, start, end) THEN VTChar(v, " ") ELSE v.buf[i]

\* clear_range does that.
LEMMA ClearCells ==
    ASSUME NEW v, DOMAIN v = VtFields, NEW start, NEW end
    PROVE  Cleared(ClearRange(v, start, end), v, start, end)
  <1> DEFINE f == [i \in DOMAIN v.buf |-> IF Within(i, start, end) THEN VTChar(v, " ") ELSE v.buf[i]]
             u == ClearRange(v, start, end)
  <1>1. u = [v EXCEPT !.buf = f]
    BY DEF ClearRange, Within
  <1>2. DOMAIN f = DOMAIN v.buf
        /\ \A i \in DOMAIN v.buf : f[i] = IF Within(i, start, end) THEN VTChar(v, " ") ELSE v.buf[i]
    OBVIOUS
  <1> HIDE DEF f, u
  <1>3. u.buf = f
    BY <1>1, Fields
  <1>4. Alike(u, v)
    BY <1>1, Fields DEF Alike
  <1> QED  BY <1>2, <1>3, <1>4 DEF u, Cleared

\* The cells of one row, up to its end.
InRow(w, h, r, x, e, s, z) ==
  /\ w \in Nat \ {0} /\ h \in Nat \ {0, 1} /\ r \in 0 .. h - 1 /\ x \in 0 .. w - 1
  /\ e = (IF r = h - 1 THEN 0 ELSE r + 1) /\ (r * w + x # 0 \/ r # h - 1)
  /\ s \in 0 .. h - 1 /\ z \in 0 .. w - 1

\* Clearing up to the start of the next row clears the rest of this one.
LEMMA RowRange ==
    ASSUME NEW w, NEW h, NEW r, NEW x, NEW e, NEW s, NEW z, InRow(w, h, r, x, e, s, z)
    PROVE  Within(s * w + z, r * w + x, e * w + 0) <=> s = r /\ z >= x
  <1> USE DEF InRow
  <1> DEFINE rw == r * w
             sw == s * w
             ew == e * w
  <1>1. rw \in Nat /\ sw \in Nat /\ ew \in Nat
    OBVIOUS
  <1>2. s = r => sw = rw
    OBVIOUS
  <1>3. s < r => sw + w <= rw
    <2>1. s \in Nat /\ r \in Nat /\ w \in Nat
      OBVIOUS
    <2> QED  BY <2>1, MulMono
  <1>4. r < s => rw + w <= sw
    <2>1. s \in Nat /\ r \in Nat /\ w \in Nat
      OBVIOUS
    <2> QED  BY <2>1, MulMono
  <1>5. CASE r = h - 1
    <2>1. ew = 0 /\ s <= r
      BY <1>5
    <2> HIDE DEF rw, sw, ew
    <2>2. rw + x # 0
      BY <1>5 DEF rw
    <2> QED  BY <1>1, <1>2, <1>3, <2>1, <2>2 DEF Within, rw, sw, ew
  <1>6. CASE r # h - 1
    <2>1. ew = rw + w
      BY <1>6
    <2> HIDE DEF rw, sw, ew
    <2>2. Within(sw + z, rw + x, ew + 0) <=> s = r /\ z >= x
      BY <1>1, <1>2, <1>3, <1>4, <2>1 DEF Within
    <2> QED  BY <2>2 DEF rw, sw, ew
  <1> QED  BY <1>5, <1>6

\* The colours are the same.
Pens(u, v) == u.fg_color = v.fg_color /\ u.bg_color = v.bg_color

\* The row that Off(v, 0, y + 1) begins is the one after the row of y, and
\* the cells from x of row y up to it are the rest of that row.
LEMMA RestOfRow ==
    ASSUME NEW v, NEW w, NEW h, Rows(v, w, h), NEW x \in 0 .. w - 1, NEW y \in 0 .. h - 1,
           NEW s \in 0 .. w - 1, NEW z \in 0 .. h - 1
    PROVE  Within(Off(v, s, z), Off(v, x, y), Off(v, 0, y + 1)) <=> z = y /\ s >= x
  <1> DEFINE r == RowOf(v, y)
             e == RowOf(v, y + 1)
             t == RowOf(v, z)
  <1>1. w \in Nat \ {0} /\ h \in Nat \ {0, 1}
    BY DEF Rows
  <1>2. y \in 0 .. h /\ y + 1 \in 0 .. h /\ z \in 0 .. h
    BY <1>1
  <1>3. \A k \in 0 .. h : RowOf(v, k) \in 0 .. h - 1 /\ \A j : Off(v, j, k) = RowOf(v, k) * w + j
    BY Ring
  <1>4. \A k, j \in 0 .. h - 1 : RowOf(v, k) = RowOf(v, j) => k = j
    BY Ring
  <1>5. e = IF r = h - 1 THEN 0 ELSE r + 1
    BY Ring
  <1>6. r \in 0 .. h - 1 /\ t \in 0 .. h - 1
    BY <1>2, <1>3
  <1>7. Off(v, s, z) = t * w + s /\ Off(v, x, y) = r * w + x /\ Off(v, 0, y + 1) = e * w + 0
    BY <1>2, <1>3
  <1>8. t = r <=> z = y
    BY <1>4
  <1> HIDE DEF r, e, t
  <1>9. r * w + x # 0 \/ r # h - 1
    <2>1. ASSUME r = h - 1 PROVE r * w + x # 0
      <3>1. r \in Nat /\ 0 < r /\ w \in Nat /\ x \in Nat /\ w > 0 /\ 0 \in Nat
        BY <1>1, <1>6, <2>1
      <3>2. 0 * w + w <= r * w
        BY ONLY <3>1, MulMono
      <3> DEFINE rw == r * w
      <3>3. rw \in Nat /\ 0 + w <= rw
        BY <3>1, <3>2
      <3> HIDE DEF rw
      <3>4. rw + x # 0
        BY <3>1, <3>3
      <3> QED  BY <3>4 DEF rw
    <2> QED  BY <2>1
  <1>10. s \in 0 .. w - 1 /\ x \in 0 .. w - 1
    OBVIOUS
  <1>11. Within(t * w + s, r * w + x, e * w + 0) <=> t = r /\ s >= x
    <2>1. InRow(w, h, r, x, e, t, s)
      BY <1>1, <1>5, <1>6, <1>9, <1>10 DEF InRow
    <2> QED  BY ONLY <2>1, RowRange
  <1> QED  BY <1>7, <1>8, <1>11

\* EraseToLineEnd clears the row of the cursor from the cursor on.
Erased(u, v, w, h, x, y) ==
  /\ VtOK(u, w, h, x, y) /\ Alike(u, v)
  /\ \A s \in 0 .. w - 1, z \in 0 .. h - 1 :
       Cell(u, s, z) = IF z = y /\ s >= x THEN VTChar(v, " ") ELSE Cell(v, s, z)

\* EraseToLineEnd clears the rest of the row of the cursor.
LEMMA EraseIs ==
    ASSUME NEW v, NEW w, NEW h, NEW x, NEW y, VtOK(v, w, h, x, y)
    PROVE  Erased(ClearRange(v, Off(v, x, y), Off(v, 0, y + 1)), v, w, h, x, y)
  <1> DEFINE start == Off(v, x, y)
             end == Off(v, 0, y + 1)
             u == ClearRange(v, start, end)
  <1>1. /\ DOMAIN v = VtFields /\ Rows(v, w, h) /\ DOMAIN v.buf = 0 .. w * h - 1
        /\ v.cursor_pos = <<x, y>> /\ x \in 0 .. w - 1 /\ y \in 0 .. h - 1
    BY DEF VtOK, Grid, Rows
  <1>2. Cleared(u, v, start, end)
    BY <1>1, ClearCells
  <1> HIDE DEF u, start, end
  <1>3. Alike(u, v) /\ DOMAIN u.buf = DOMAIN v.buf
    BY <1>2 DEF Cleared
  <1>4. VtOK(u, w, h, x, y)
    BY <1>3 DEF VtOK, Grid, Alike
  <1>6. ASSUME NEW s \in 0 .. w - 1, NEW z \in 0 .. h - 1
        PROVE  Cell(u, s, z) = IF z = y /\ s >= x THEN VTChar(v, " ") ELSE Cell(v, s, z)
    <2> DEFINE i == Off(v, s, z)
    <2>1. i \in 0 .. w * h - 1
      BY <1>1, Cells
    <2>2. Off(u, s, z) = i
      BY <1>3 DEF Off, RowOf, Alike
    <2>3. Within(i, start, end) <=> z = y /\ s >= x
      BY <1>1, RestOfRow DEF start, end
    <2> HIDE DEF i
    <2>4. u.buf[i] = IF Within(i, start, end) THEN VTChar(v, " ") ELSE v.buf[i]
      BY <1>1, <1>2, <2>1 DEF Cleared
    <2> QED  BY <2>2, <2>3, <2>4 DEF Cell, i
  <1> QED  BY <1>3, <1>4, <1>6 DEF u, start, end, Erased

\* new_line: one row down, or the rows one up and the last one cleared.
NewLined(u, v, w, h, y) ==
  /\ VtOK(u, w, h, 0, IF y < h - 1 THEN y + 1 ELSE h - 1) /\ Pens(u, v) /\ u.ansi = v.ansi
  /\ \A s \in 0 .. w - 1, z \in 0 .. h - 1 :
       Cell(u, s, z) = IF y < h - 1 THEN Cell(v, s, z)
                       ELSE IF z < h - 1 THEN Cell(v, s, z + 1) ELSE VTChar(v, " ")

\* new_line takes the cursor to the next row, or gives the screen a new last row.
LEMMA NewLineIs ==
    ASSUME NEW v, NEW w, NEW h, Grid(v, w, h), NEW y \in 0 .. h - 1, v.cursor_pos[2] = y
    PROVE  NewLined(NewLine(v), v, w, h, y)
  <1> DEFINE u == NewLine(v)
             n == [v EXCEPT !.cursor_pos = <<0, v.cursor_pos[2] + 1>>]
  <1>1. /\ DOMAIN v = VtFields /\ v.size = <<w, h>> /\ w \in Nat \ {0} /\ h \in Nat \ {0, 1}
        /\ DOMAIN v.buf = 0 .. w * h - 1 /\ v.buf_line \in 0 .. h - 1
    BY DEF Grid
  <1>2. /\ DOMAIN n = VtFields /\ n.size = v.size /\ n.buf = v.buf /\ n.buf_line = v.buf_line
        /\ n.cursor_pos = <<0, y + 1>> /\ Pens(n, v) /\ n.ansi = v.ansi
    BY <1>1, Fields DEF Pens
  <1>3. u = IF n.cursor_pos[2] >= v.size[2] THEN ScrollUp(n, 1) ELSE n
    BY DEF NewLine
  <1> HIDE DEF n, u
  <1>4. CASE y < h - 1
    <2>1. u = n
      BY <1>1, <1>2, <1>3, <1>4
    <2>2. VtOK(u, w, h, 0, y + 1) /\ Pens(u, v) /\ u.ansi = v.ansi
      <3>1. 0 \in 0 .. w - 1 /\ y + 1 \in 0 .. h - 1
        BY <1>1, <1>4
      <3> QED  BY <1>1, <1>2, <2>1, <3>1 DEF VtOK, Grid
    <2>3. \A s, z : Cell(u, s, z) = Cell(v, s, z)
      BY <1>2, <2>1 DEF Cell, Off, RowOf
    <2> QED  BY <1>4, <2>2, <2>3 DEF u, NewLined
  <1>5. CASE ~(y < h - 1)
    <2> DEFINE bl == IF v.buf_line + 1 >= h THEN v.buf_line + 1 - h ELSE v.buf_line + 1
               m == [n EXCEPT !.cursor_pos = <<0, Monus(n.cursor_pos[2], 1)>>, !.buf_line = bl]
               start == Off(m, 0, h - 1)
               end == Off(m, 0, h)
    <2>1. y = h - 1 /\ h >= 2 /\ bl \in 0 .. h - 1
      BY <1>1, <1>5
    <2>2. u = ClearRange(m, start, end)
      <3>1. u = ScrollUp(n, 1)
        BY <1>1, <1>2, <1>3, <2>1
      <3>2. n.size[2] = h /\ ~(1 >= h)
        BY <1>1, <1>2, <2>1
      <3> QED  BY <1>2, <3>1, <3>2 DEF ScrollUp
    <2>3. /\ DOMAIN m = VtFields /\ m.size = v.size /\ m.buf = v.buf /\ m.buf_line = bl
          /\ m.cursor_pos = <<0, h - 1>> /\ Pens(m, v) /\ m.ansi = v.ansi
      <3>1. Monus(n.cursor_pos[2], 1) = h - 1
        BY <1>1, <1>2, <2>1 DEF Monus
      <3> QED  BY <1>2, <3>1, Fields DEF Pens
    <2>b. bl = IF v.buf_line + 1 >= h THEN v.buf_line + 1 - h ELSE v.buf_line + 1
      OBVIOUS
    <2> HIDE DEF m, bl, start, end
    <2>4. Rows(m, w, h)
      BY <1>1, <2>1, <2>3 DEF Rows
    <2>5. Cleared(u, m, start, end)
      BY ONLY <2>2, <2>3, ClearCells
    <2>6. Alike(u, m) /\ DOMAIN u.buf = DOMAIN v.buf
      BY <2>3, <2>5 DEF Cleared
    <2>7. VtOK(u, w, h, 0, h - 1) /\ Pens(u, v) /\ u.ansi = v.ansi
      <3>1. 0 \in 0 .. w - 1 /\ h - 1 \in 0 .. h - 1
        BY <1>1
      <3> QED  BY <1>1, <2>1, <2>3, <2>6, <3>1 DEF VtOK, Grid, Alike, Pens
    <2>8. ASSUME NEW s \in 0 .. w - 1, NEW z \in 0 .. h - 1
          PROVE  Cell(u, s, z) = IF z < h - 1 THEN Cell(v, s, z + 1) ELSE VTChar(v, " ")
      <3> DEFINE i == Off(m, s, z)
      <3>1. i \in 0 .. w * h - 1
        BY <2>4, Cells
      <3>2. Off(u, s, z) = i
        BY <2>6 DEF Off, RowOf, Alike
      <3>3. Within(i, start, end) <=> z = h - 1
        <4>1. 0 \in 0 .. w - 1 /\ h - 1 \in 0 .. h - 1 /\ (h - 1) + 1 = h /\ s >= 0
          BY <1>1
        <4>2. end = Off(m, 0, (h - 1) + 1) /\ start = Off(m, 0, h - 1)
          BY <4>1 DEF end, start
        <4>3. Within(i, Off(m, 0, h - 1), Off(m, 0, (h - 1) + 1)) <=> z = h - 1 /\ s >= 0
          BY <2>4, <4>1, RestOfRow
        <4> HIDE DEF i
        <4> QED  BY <4>1, <4>2, <4>3
      <3> HIDE DEF i
      <3>4. u.buf[i] = IF Within(i, start, end) THEN VTChar(v, " ") ELSE v.buf[i]
        <4>1. VTChar(m, " ") = VTChar(v, " ")
          BY <2>3 DEF VTChar, Pens
        <4> QED  BY <1>1, <2>3, <2>5, <3>1, <4>1 DEF Cleared
      <3>5. CASE z = h - 1
        <4>1. ~(z < h - 1)
          BY <1>1, <3>5
        <4> QED  BY <3>2, <3>3, <3>4, <3>5, <4>1 DEF Cell
      <3>6. CASE z # h - 1
        <4>1. z < h - 1 /\ z + 1 \in 0 .. h /\ z \in 0 .. h
          BY <1>1, <3>6
        <4>2. RowOf(m, z) = RowOf(v, z + 1)
          <5>1. v.size[2] = h /\ m.size[2] = h
            BY <1>1, <2>3
          <5>2. RowOf(m, z) = IF z + bl >= h THEN z + bl - h ELSE z + bl
            BY <2>3, <5>1 DEF RowOf
          <5>3. RowOf(v, z + 1) = IF (z + 1) + v.buf_line >= h THEN (z + 1) + v.buf_line - h ELSE (z + 1) + v.buf_line
            BY <5>1 DEF RowOf
          <5>4. v.buf_line \in 0 .. h - 1 /\ h \in Nat
            BY <1>1
          <5> QED  BY <2>b, <4>1, <5>2, <5>3, <5>4
        <4>3. i = Off(v, s, z + 1)
          BY <2>3, <4>2 DEF i, Off
        <4> QED  BY <3>2, <3>3, <3>4, <3>6, <4>1, <4>3 DEF Cell
      <3> QED  BY <3>5, <3>6
    <2> QED  BY <1>5, <2>7, <2>8 DEF u, NewLined
  <1> QED  BY <1>4, <1>5

\* u shows what v does; u shows what v does but for a glyph at x and y; and u
\* is v a line on, where old says what the rows were.
Same(u, v, w, h) == \A s \in 0 .. w - 1, z \in 0 .. h - 1 : Shown(u, s, z) = Shown(v, s, z)
\* A glyph in the colours of the terminal.
Tile(v, g) == <<g, v.fg_color, v.bg_color>>
\* The screen with a glyph put at x and y.
With(v, x, y, g, s, z) == IF s = x /\ z = y THEN Tile(v, g) ELSE Shown(v, s, z)
\* The row after y, on a screen that scrolls.
Next1(y, h) == IF y < h - 1 THEN y + 1 ELSE h - 1

\* The screen after a line feed at row y.
LineOn(u, v, w, h, y) ==
  \A s \in 0 .. w - 1, z \in 0 .. h - 1 :
    Shown(u, s, z) = IF y < h - 1 THEN Shown(v, s, z)
                     ELSE IF z < h - 1 THEN Shown(v, s, z + 1) ELSE Tile(v, " ")
\* The screen after a character at x and y,
PutOn(u, v, w, h, x, y, g) ==
  \A s \in 0 .. w - 1, z \in 0 .. h - 1 : Shown(u, s, z) = With(v, x, y, g, s, z)
\* the same at the end of a row, where a line feed follows,
PutEnd(u, v, w, h, x, y, g) ==
  \A s \in 0 .. w - 1, z \in 0 .. h - 1 :
    Shown(u, s, z) = IF y < h - 1 THEN With(v, x, y, g, s, z)
                     ELSE IF z < h - 1 THEN With(v, x, y, g, s, z + 1) ELSE Tile(v, " ")
\* and after the rest of a row was cleared.
Wiped(u, v, w, h, x, y) ==
  \A s \in 0 .. w - 1, z \in 0 .. h - 1 :
    Shown(u, s, z) = IF z = y /\ s >= x THEN Tile(v, " ") ELSE Shown(v, s, z)

\* What a character looks like on the display.
LEMMA FaceIs == ASSUME NEW v, NEW ch PROVE Face(VTChar(v, ch)) = Tile(v, Glyph(ch))
  BY DEF Face, VTChar, Tile

\* A blank is a blank.
LEMMA BlankFace == ASSUME NEW v PROVE Face(VTChar(v, " ")) = Tile(v, " ")
  <1>1. Glyph(" ") = " "
    BY DEF Glyph
  <1> QED  BY <1>1, FaceIs

\* A terminal that differs only in its cursor, its parser or its pen.
LEMMA SameCells ==
    ASSUME NEW u, NEW v, NEW w, NEW h, NEW x, NEW y, NEW x1, NEW y1, VtOK(v, w, h, x, y),
           DOMAIN u = DOMAIN v, u.size = v.size, u.buf = v.buf, u.buf_line = v.buf_line,
           u.cursor_pos = <<x1, y1>>, x1 \in 0 .. w - 1, y1 \in 0 .. h - 1
    PROVE  VtOK(u, w, h, x1, y1) /\ Same(u, v, w, h)
  <1>1. VtOK(u, w, h, x1, y1)
    BY DEF VtOK, Grid
  <1>2. \A s, z : Cell(u, s, z) = Cell(v, s, z)
    BY DEF Cell, Off, RowOf
  <1> QED  BY <1>1, <1>2 DEF Same, Shown

\* new_line, as it is seen.
LEMMA LineShows ==
    ASSUME NEW u, NEW v, NEW w, NEW h, NEW y, NewLined(u, v, w, h, y)
    PROVE  LineOn(u, v, w, h, y)
  BY BlankFace DEF NewLined, LineOn, Shown

\* EraseToLineEnd, as it is seen.
LEMMA WipeShows ==
    ASSUME NEW u, NEW v, NEW w, NEW h, NEW x, NEW y, Erased(u, v, w, h, x, y)
    PROVE  Wiped(u, v, w, h, x, y)
  BY BlankFace DEF Erased, Wiped, Shown

\* A character in its place, before the cursor is brought back to the screen.
Placed(v, ch) == [v EXCEPT !.buf[Off(v, v.cursor_pos[1], v.cursor_pos[2])] = VTChar(v, ch),
                           !.cursor_pos[1] = @ + 1]

\* Writing a cell shows the glyph there and changes no other cell.
LEMMA PlaceIs ==
    ASSUME NEW v, NEW w, NEW h, NEW x, NEW y, VtOK(v, w, h, x, y), NEW ch
    PROVE  LET p == Placed(v, ch)
           IN  /\ Grid(p, w, h) /\ p.cursor_pos = <<x + 1, y>> /\ Pens(p, v) /\ p.ansi = v.ansi
               /\ \A s \in 0 .. w - 1, z \in 0 .. h - 1 : Shown(p, s, z) = With(v, x, y, Glyph(ch), s, z)
  <1> DEFINE k == Off(v, x, y)
             f == [v.buf EXCEPT ![k] = VTChar(v, ch)]
             p == Placed(v, ch)
  <1>1. /\ DOMAIN v = VtFields /\ Rows(v, w, h) /\ DOMAIN v.buf = 0 .. w * h - 1
        /\ v.cursor_pos = <<x, y>> /\ x \in 0 .. w - 1 /\ y \in 0 .. h - 1 /\ Grid(v, w, h)
    BY DEF VtOK, Grid, Rows
  <1>2. /\ DOMAIN p = VtFields /\ p.size = v.size /\ p.buf = f /\ p.buf_line = v.buf_line
        /\ p.cursor_pos = <<x + 1, y>> /\ Pens(p, v) /\ p.ansi = v.ansi
    BY <1>1, Fields DEF Placed, Pens
  <1>3. k \in 0 .. w * h - 1 /\ \A s \in 0 .. w - 1, z \in 0 .. h - 1 : k = Off(v, s, z) => x = s /\ y = z
    BY <1>1, Cells
  <1>4. DOMAIN f = DOMAIN v.buf /\ f[k] = VTChar(v, ch) /\ \A i \in DOMAIN v.buf : i # k => f[i] = v.buf[i]
    BY <1>1, <1>3
  <1>5. Grid(p, w, h)
    <2> HIDE DEF p, f
    <2> QED  BY <1>1, <1>2, <1>4 DEF Grid
  <1>6. ASSUME NEW s \in 0 .. w - 1, NEW z \in 0 .. h - 1
        PROVE  Shown(p, s, z) = With(v, x, y, Glyph(ch), s, z)
    <2> HIDE DEF p, f
    <2>1. Off(p, s, z) = Off(v, s, z)
      BY <1>2 DEF Off, RowOf
    <2>2. Off(v, s, z) \in DOMAIN v.buf
      BY <1>1, Cells
    <2>3. Off(v, s, z) = k <=> s = x /\ z = y
      BY <1>3
    <2>4. Cell(p, s, z) = IF s = x /\ z = y THEN VTChar(v, ch) ELSE Cell(v, s, z)
      <3> HIDE DEF k
      <3> QED  BY <1>2, <1>4, <2>1, <2>2, <2>3 DEF Cell
    <2> QED  BY <2>4, FaceIs DEF Shown, With
  <1> QED  BY <1>2, <1>5, <1>6

\* The characters the parser hands on.
Chars1 == Printable \cup {"CB", "wide", "replacement"}

\* write_char of something that is shown.
Drew(u, v, w, h, x, y, ch) ==
  /\ Pens(u, v)
  /\ \/ x < w - 1 /\ VtOK(u, w, h, x + 1, y) /\ PutOn(u, v, w, h, x, y, Glyph(ch))
     \/ x = w - 1 /\ VtOK(u, w, h, 0, Next1(y, h)) /\ PutEnd(u, v, w, h, x, y, Glyph(ch))

\* write_char draws a character and moves on, feeds a line, goes back, or does nothing.
LEMMA CharIs ==
    ASSUME NEW v, NEW w, NEW h, NEW x, NEW y, VtOK(v, w, h, x, y), NEW ch, ch \notin {"NL", "BS", "CTL"}
    PROVE  Drew(WriteChar(v, ch), v, w, h, x, y, ch) /\ WriteChar(v, ch).ansi = v.ansi
  <1> DEFINE p == Placed(v, ch)
             u == WriteChar(v, ch)
  <1>1. v.cursor_pos = <<x, y>> /\ x \in 0 .. w - 1 /\ y \in 0 .. h - 1 /\ v.size = <<w, h>> /\ w \in Nat \ {0} /\ h \in Nat
    BY DEF VtOK, Grid
  <1>2. u = IF p.cursor_pos[1] >= v.size[1] THEN NewLine(p) ELSE p
    BY DEF WriteChar, Placed
  <1>3. /\ Grid(p, w, h) /\ p.cursor_pos = <<x + 1, y>> /\ Pens(p, v) /\ p.ansi = v.ansi
        /\ \A s \in 0 .. w - 1, z \in 0 .. h - 1 : Shown(p, s, z) = With(v, x, y, Glyph(ch), s, z)
    BY PlaceIs
  <1> HIDE DEF p, u
  <1>4. p.cursor_pos[1] = x + 1 /\ v.size[1] = w /\ p.cursor_pos[2] = y
    BY <1>1, <1>3
  <1>5. CASE x < w - 1
    <2>1. u = p /\ x + 1 \in 0 .. w - 1
      BY <1>1, <1>2, <1>4, <1>5
    <2>2. VtOK(u, w, h, x + 1, y)
      BY <1>1, <1>3, <2>1 DEF VtOK
    <2> QED  BY <1>3, <1>5, <2>1, <2>2 DEF Drew, PutOn, u
  <1>6. CASE ~(x < w - 1)
    <2>1. u = NewLine(p) /\ x = w - 1
      BY <1>1, <1>2, <1>4, <1>6
    <2>2. NewLined(u, p, w, h, y)
      BY <1>1, <1>3, <1>4, <2>1, NewLineIs
    <2>3. LineOn(u, p, w, h, y)
      BY <2>2, LineShows
    <2>4. VtOK(u, w, h, 0, Next1(y, h)) /\ Pens(u, v) /\ u.ansi = v.ansi
      BY <1>3, <2>2 DEF NewLined, Next1, Pens
    <2>5. PutEnd(u, v, w, h, x, y, Glyph(ch))
      <3>1. Tile(p, " ") = Tile(v, " ")
        BY <1>3 DEF Pens, Tile
      <3>2. \A z \in 0 .. h - 1 : z < h - 1 => z + 1 \in 0 .. h - 1
        BY <1>1
      <3> QED  BY <1>3, <2>3, <3>1, <3>2 DEF PutEnd, LineOn
    <2> QED  BY <2>1, <2>4, <2>5 DEF Drew, u
  <1> QED  BY <1>5, <1>6

----------------------------------------------------------------------------
(* The parser and the actions it asks for. *)

\* The actions the parser can ask for.
Controls == {"NL", "BS", "CTL"}
\* The directions of the cursor.
Dirs == {"up", "down", "left", "right"}
\* What the parser may ask of the terminal.
IsAction(a) ==
  \/ a = NoAction \/ a = Erase
  \/ \E ch \in Chars1 \cup Controls : a = WriteCh(ch)
  \/ \E d \in Dirs, n \in Nat : a = Move(d, n)
  \/ \E c : a = Sgr(c)

\* Parameters are numbers.
LEMMA NumbersNat ==
    ASSUME NEW d \in Nat, NEW buf
    PROVE  Numbers(d, buf) \subseteq Nat
  <1> DEFINE n[i \in 0 .. Len(buf)] == IF i = 0 THEN 0 ELSE 10 * n[i - 1] + Value(buf[i])
             k == n[Len(buf)]
  <1>1. Numbers(d, buf) = CASE buf = <<>> -> {d}
                            [] buf /= <<>> /\ (\E i \in DOMAIN buf : ~IsDigit(buf[i])) -> {}
                            [] OTHER -> {k} \cap 0 .. U32Max
    BY DEF Numbers
  <1> HIDE DEF k
  <1> QED  BY <1>1

\* A parameter gives a move,
LEMMA MovedIs ==
    ASSUME NEW d \in Dirs, NEW buf
    PROVE  IsAction(Moved(d, buf))
  <1>1. Numbers(1, buf) \subseteq Nat
    BY NumbersNat
  <1>2. CASE Numbers(1, buf) = {}
    BY <1>2 DEF Moved, IsAction
  <1>3. CASE Numbers(1, buf) # {}
    <2>1. (CHOOSE n \in Numbers(1, buf) : TRUE) \in Nat
      BY <1>1, <1>3
    <2>2. Moved(d, buf) = Move(d, CHOOSE n \in Numbers(1, buf) : TRUE)
      BY <1>3 DEF Moved
    <2> QED  BY <2>1, <2>2 DEF IsAction
  <1> QED  BY <1>2, <1>3

\* every sequence one of these actions,
LEMMA CsiIs ==
    ASSUME NEW buf, NEW b
    PROVE  IsAction(CsiAction(buf, b))
  <1>1. \A d \in Dirs : IsAction(Moved(d, buf))
    BY MovedIs
  <1>2. IsAction(NoAction) /\ IsAction(Erase) /\ \A c : IsAction(Sgr(c))
    BY DEF IsAction
  <1>3. "up" \in Dirs /\ "down" \in Dirs /\ "left" \in Dirs /\ "right" \in Dirs
    BY DEF Dirs
  <1>4. CASE b \in {"m", "A", "B", "C", "D", "K"}
    <2>1. CASE b = "m"
      BY <1>2, <2>1 DEF CsiAction
    <2>2. CASE b = "A"
      BY <1>1, <1>3, <2>2 DEF CsiAction
    <2>3. CASE b = "B"
      BY <1>1, <1>3, <2>3 DEF CsiAction
    <2>4. CASE b = "C"
      BY <1>1, <1>3, <2>4 DEF CsiAction
    <2>5. CASE b = "D"
      BY <1>1, <1>3, <2>5 DEF CsiAction
    <2>6. CASE b = "K"
      BY <1>2, <2>6 DEF CsiAction
    <2> QED  BY <1>4, <2>1, <2>2, <2>3, <2>4, <2>5, <2>6
  <1>5. CASE b \notin {"m", "A", "B", "C", "D", "K"}
    BY <1>2, <1>5 DEF CsiAction
  <1> QED  BY <1>4, <1>5

\* and so does every byte in every state of the parser.
LEMMA ActionIs ==
    ASSUME NEW p, NEW b \in AllBytes
    PROVE  IsAction(AnsiAction(p, b))
  <1> DEFINE n == p.state = "Normal" /\ b /= "ESC" /\ LeadLength(b) = 1
             q == p.state = "PartialUtf8" /\ Len(p.buf) + 1 = LeadLength(p.buf[1])
             c == p.state = "PartialCsi" /\ Len(p.buf) < MaxCsi
  <1>1. AnsiAction(p, b) = CASE n -> WriteCh(b) [] q -> WriteCh(Decoded(Append(p.buf, b)))
                             [] c -> CsiAction(p.buf, b) [] OTHER -> NoAction
    BY DEF AnsiAction
  <1>2. (n => ~q /\ ~c) /\ (q => ~c)
    OBVIOUS
  <1>3. CASE n
    <2>1. b \in Chars1 \cup Controls
      BY <1>3 DEF AllBytes, LeadLength, Chars1, Controls
    <2>2. AnsiAction(p, b) = WriteCh(b)
      <3> HIDE DEF n, q, c
      <3> QED  BY <1>1, <1>2, <1>3
    <2> QED  BY <2>1, <2>2 DEF IsAction
  <1> HIDE DEF n
  <1>4. CASE q
    <2>1. Decoded(Append(p.buf, b)) \in Chars1 \cup Controls
      BY DEF Decoded, Chars1
    <2>2. AnsiAction(p, b) = WriteCh(Decoded(Append(p.buf, b)))
      <3> HIDE DEF q, c
      <3> QED  BY <1>1, <1>2, <1>4
    <2> QED  BY <2>1, <2>2 DEF IsAction
  <1> HIDE DEF q
  <1>5. CASE c
    <2>2. AnsiAction(p, b) = CsiAction(p.buf, b)
      <3> HIDE DEF c
      <3> QED  BY <1>1, <1>2, <1>5
    <2> QED  BY <2>2, CsiIs
  <1> HIDE DEF c
  <1>6. CASE ~n /\ ~q /\ ~c
    BY <1>1, <1>6 DEF IsAction
  <1> QED  BY <1>3, <1>4, <1>5, <1>6

\* What one action does to the screen that has its cursor at x and y.
Moves(w, h, x, y, x1, y1) == x1 = x \/ y1 = y \/ (x = 0 /\ y > 0 /\ x1 = w - 1 /\ y1 = y - 1)
\* One step of the screen that ScreenAbs describes, from v to u.
Shift(u, v, w, h, x, y) ==
  \/ \E x1, y1 : Pens(u, v) /\ Moves(w, h, x, y, x1, y1) /\ VtOK(u, w, h, x1, y1) /\ Same(u, v, w, h)
  \/ VtOK(u, w, h, x, y) /\ Same(u, v, w, h)
  \/ Pens(u, v) /\ VtOK(u, w, h, x, y) /\ Wiped(u, v, w, h, x, y)
  \/ Pens(u, v) /\ VtOK(u, w, h, 0, Next1(y, h)) /\ LineOn(u, v, w, h, y)
  \/ \E ch \in Chars1 : Drew(u, v, w, h, x, y, ch)

\* Moving the cursor changes no cell.
LEMMA CursorOnly ==
    ASSUME NEW v, NEW w, NEW h, NEW x, NEW y, VtOK(v, w, h, x, y), NEW x1 \in 0 .. w - 1, NEW y1 \in 0 .. h - 1
    PROVE  LET u == [v EXCEPT !.cursor_pos = <<x1, y1>>]
           IN  VtOK(u, w, h, x1, y1) /\ Same(u, v, w, h) /\ Pens(u, v) /\ u.ansi = v.ansi
  <1> DEFINE u == [v EXCEPT !.cursor_pos = <<x1, y1>>]
  <1>1. DOMAIN v = VtFields
    BY DEF VtOK, Grid
  <1>2. /\ DOMAIN u = DOMAIN v /\ u.size = v.size /\ u.buf = v.buf /\ u.buf_line = v.buf_line
        /\ u.cursor_pos = <<x1, y1>> /\ Pens(u, v) /\ u.ansi = v.ansi
    BY <1>1, Fields DEF Pens
  <1> HIDE DEF u
  <1>3. VtOK(u, w, h, x1, y1) /\ Same(u, v, w, h)
    BY <1>2, SameCells
  <1> QED  BY <1>2, <1>3 DEF u

\* The steps that change nothing.
LEMMA NoChange ==
    ASSUME NEW v, NEW w, NEW h, NEW x, NEW y, VtOK(v, w, h, x, y)
    PROVE  Shift(v, v, w, h, x, y)
  BY DEF Shift, Same

\* Each action is such a step: a character,
LEMMA CharShift ==
    ASSUME NEW v, NEW w, NEW h, NEW x, NEW y, VtOK(v, w, h, x, y), NEW ch \in Chars1 \cup Controls
    PROVE  Shift(WriteChar(v, ch), v, w, h, x, y)
  <1>1. v.cursor_pos = <<x, y>> /\ x \in 0 .. w - 1 /\ y \in 0 .. h - 1 /\ v.size = <<w, h>> /\ w \in Nat \ {0} /\ h \in Nat
        /\ v.size[1] = w /\ v.cursor_pos[1] = x /\ v.cursor_pos[2] = y /\ Grid(v, w, h)
    BY DEF VtOK, Grid
  <1>2. CASE ch = "NL"
    <2>1. WriteChar(v, ch) = NewLine(v)
      BY <1>2 DEF WriteChar
    <2>2. NewLined(NewLine(v), v, w, h, y)
      BY <1>1, NewLineIs
    <2>3. LineOn(NewLine(v), v, w, h, y)
      BY <2>2, LineShows
    <2> QED  BY <2>1, <2>2, <2>3 DEF Shift, NewLined, Next1
  <1>3. CASE ch = "BS"
    <2>1. WriteChar(v, ch) = IF x > 0 THEN [v EXCEPT !.cursor_pos = <<x - 1, y>>]
                             ELSE IF y > 0 THEN [v EXCEPT !.cursor_pos = <<w - 1, y - 1>>] ELSE v
      BY <1>1, <1>3 DEF WriteChar
    <2>2. CASE x > 0
      <3>1. x - 1 \in 0 .. w - 1 /\ WriteChar(v, ch) = [v EXCEPT !.cursor_pos = <<x - 1, y>>]
        BY <1>1, <2>1, <2>2
      <3>2. Moves(w, h, x, y, x - 1, y)
        BY DEF Moves
      <3> QED  BY <1>1, <3>1, <3>2, CursorOnly DEF Shift
    <2>3. CASE x = 0 /\ y > 0
      <3>1. w - 1 \in 0 .. w - 1 /\ y - 1 \in 0 .. h - 1 /\ WriteChar(v, ch) = [v EXCEPT !.cursor_pos = <<w - 1, y - 1>>]
        BY <1>1, <2>1, <2>3
      <3>2. Moves(w, h, x, y, w - 1, y - 1)
        BY <2>3 DEF Moves
      <3> QED  BY <1>1, <3>1, <3>2, CursorOnly DEF Shift
    <2>4. CASE x = 0 /\ y = 0
      BY <2>1, <2>4, NoChange
    <2> QED  BY <1>1, <2>2, <2>3, <2>4
  <1>4. CASE ch = "CTL"
    <2>1. WriteChar(v, ch) = v
      BY <1>4 DEF WriteChar
    <2> QED  BY <2>1, NoChange
  <1>5. CASE ch \notin {"NL", "BS", "CTL"}
    <2>1. ch \in Chars1
      BY <1>5 DEF Controls
    <2> QED  BY <1>5, <2>1, CharIs DEF Shift
  <1> QED  BY <1>2, <1>3, <1>4, <1>5

\* a move,
LEMMA MoveShift ==
    ASSUME NEW v, NEW w, NEW h, NEW x, NEW y, VtOK(v, w, h, x, y), NEW d \in Dirs, NEW n \in Nat
    PROVE  Shift(Perform(v, Move(d, n)), v, w, h, x, y)
  <1>1. v.cursor_pos = <<x, y>> /\ x \in 0 .. w - 1 /\ y \in 0 .. h - 1 /\ v.size = <<w, h>> /\ w \in Nat \ {0} /\ h \in Nat \ {0}
        /\ v.size[1] = w /\ v.size[2] = h /\ v.cursor_pos[1] = x /\ v.cursor_pos[2] = y
    BY DEF VtOK, Grid
  <1> DEFINE a == Move(d, n)
  <1>2. a.op = d /\ a.n = n
    BY DEF Move
  <1>3. \A x1 \in 0 .. w - 1, y1 \in 0 .. h - 1 : Moves(w, h, x, y, x1, y1) =>
          Shift([v EXCEPT !.cursor_pos = <<x1, y1>>], v, w, h, x, y)
    BY CursorOnly DEF Shift
  <1> HIDE DEF a
  <1>4. CASE d = "up"
    <2>1. Perform(v, a) = [v EXCEPT !.cursor_pos = <<x, Monus(y, n)>>]
      BY <1>1, <1>2, <1>4 DEF Perform
    <2>2. Monus(y, n) \in 0 .. h - 1 /\ Moves(w, h, x, y, x, Monus(y, n))
      BY <1>1 DEF Monus, Moves
    <2> QED  BY <1>1, <1>3, <2>1, <2>2 DEF a
  <1>5. CASE d = "down"
    <2>1. Perform(v, a) = [v EXCEPT !.cursor_pos = <<x, Min2(y + n, h - 1)>>]
      BY <1>1, <1>2, <1>5 DEF Perform
    <2>2. Min2(y + n, h - 1) \in 0 .. h - 1 /\ Moves(w, h, x, y, x, Min2(y + n, h - 1))
      BY <1>1 DEF Min2, Moves
    <2> QED  BY <1>1, <1>3, <2>1, <2>2 DEF a
  <1>6. CASE d = "right"
    <2>1. Perform(v, a) = [v EXCEPT !.cursor_pos = <<Min2(x + n, w - 1), y>>]
      BY <1>1, <1>2, <1>6 DEF Perform
    <2>2. Min2(x + n, w - 1) \in 0 .. w - 1 /\ Moves(w, h, x, y, Min2(x + n, w - 1), y)
      BY <1>1 DEF Min2, Moves
    <2> QED  BY <1>1, <1>3, <2>1, <2>2 DEF a
  <1>7. CASE d = "left"
    <2>1. Perform(v, a) = [v EXCEPT !.cursor_pos = <<Monus(x, n), y>>]
      BY <1>1, <1>2, <1>7 DEF Perform
    <2>2. Monus(x, n) \in 0 .. w - 1 /\ Moves(w, h, x, y, Monus(x, n), y)
      BY <1>1 DEF Monus, Moves
    <2> QED  BY <1>1, <1>3, <2>1, <2>2 DEF a
  <1> QED  BY <1>4, <1>5, <1>6, <1>7 DEF Dirs

\* colours,
LEMMA SgrShift ==
    ASSUME NEW v, NEW w, NEW h, NEW x, NEW y, VtOK(v, w, h, x, y), NEW c
    PROVE  Shift(Perform(v, Sgr(c)), v, w, h, x, y)
  <1> DEFINE a == Sgr(c)
             pen == SetPens(<<v.fg_color, v.bg_color>>, a.cmds)
             u == [v EXCEPT !.fg_color = pen[1], !.bg_color = pen[2]]
  <1>1. Perform(v, a) = u
    BY DEF Perform, Sgr
  <1>2. DOMAIN v = VtFields /\ v.cursor_pos = <<x, y>> /\ x \in 0 .. w - 1 /\ y \in 0 .. h - 1
    BY DEF VtOK, Grid
  <1> HIDE DEF pen
  <1>3. /\ DOMAIN u = DOMAIN v /\ u.size = v.size /\ u.buf = v.buf /\ u.buf_line = v.buf_line
        /\ u.cursor_pos = <<x, y>>
    BY <1>2, Fields
  <1> HIDE DEF u, a
  <1>4. VtOK(u, w, h, x, y) /\ Same(u, v, w, h)
    BY <1>2, <1>3, SameCells
  <1> QED  BY <1>1, <1>4 DEF Shift, a

\* and erasing.
LEMMA EraseShift ==
    ASSUME NEW v, NEW w, NEW h, NEW x, NEW y, VtOK(v, w, h, x, y)
    PROVE  Shift(Perform(v, Erase), v, w, h, x, y)
  <1> DEFINE u == ClearRange(v, Off(v, x, y), Off(v, 0, y + 1))
  <1>1. v.cursor_pos[1] = x /\ v.cursor_pos[2] = y
    BY DEF VtOK
  <1>2. Perform(v, Erase) = u
    BY <1>1 DEF Perform, Erase
  <1>3. Erased(u, v, w, h, x, y)
    BY EraseIs
  <1> HIDE DEF u
  <1>4. Wiped(u, v, w, h, x, y)
    BY <1>3, WipeShows
  <1> QED  BY <1>2, <1>3, <1>4 DEF Shift, Erased, Alike, Pens

\* So is whatever the parser asks for.
LEMMA PerformIs ==
    ASSUME NEW v, NEW w, NEW h, NEW x, NEW y, VtOK(v, w, h, x, y), NEW a, IsAction(a)
    PROVE  Shift(Perform(v, a), v, w, h, x, y)
  <1>1. CASE a = NoAction
    <2>1. Perform(v, a) = v
      BY <1>1 DEF Perform, NoAction
    <2> QED  BY <2>1, NoChange
  <1>2. ASSUME NEW ch \in Chars1 \cup Controls, a = WriteCh(ch) PROVE Shift(Perform(v, a), v, w, h, x, y)
    <2>1. Perform(v, a) = WriteChar(v, ch)
      BY <1>2 DEF Perform, WriteCh
    <2> QED  BY <2>1, CharShift
  <1> QED  BY <1>1, <1>2, MoveShift, SgrShift, EraseShift DEF IsAction

----------------------------------------------------------------------------
(* The terminal implements ScreenAbs. *)

\* A byte changes the parser and then the screen.
LEMMA ByteShift ==
    ASSUME NEW v, NEW w, NEW h, NEW x, NEW y, VtOK(v, w, h, x, y), NEW b \in AllBytes
    PROVE  Shift(AfterByte(v, b), v, w, h, x, y)
  <1> DEFINE p == [v EXCEPT !.ansi = AnsiState(v.ansi, b)]
             a == AnsiAction(v.ansi, b)
             u == Perform(p, a)
  <1>1. AfterByte(v, b) = u
    BY DEF AfterByte
  <1>2. DOMAIN v = VtFields /\ v.cursor_pos = <<x, y>> /\ x \in 0 .. w - 1 /\ y \in 0 .. h - 1
    BY DEF VtOK, Grid
  <1>3. /\ DOMAIN p = DOMAIN v /\ p.size = v.size /\ p.buf = v.buf /\ p.buf_line = v.buf_line
        /\ p.cursor_pos = <<x, y>> /\ Pens(p, v)
    BY <1>2, Fields DEF Pens
  <1>4. IsAction(a)
    BY ActionIs
  <1> HIDE DEF p, a
  <1>5. VtOK(p, w, h, x, y) /\ Same(p, v, w, h)
    BY <1>2, <1>3, SameCells
  <1>6. Shift(u, p, w, h, x, y)
    BY <1>4, <1>5, PerformIs
  <1> HIDE DEF u
  <1>7. \A g : Tile(p, g) = Tile(v, g)
    BY <1>3 DEF Tile, Pens
  <1>8. \A s \in 0 .. w - 1, z \in 0 .. h - 1 : Shown(p, s, z) = Shown(v, s, z)
    BY <1>5 DEF Same
  <1>9. h \in Nat /\ w \in Nat
    BY DEF VtOK, Grid
  <1>a. \A z \in 0 .. h - 1 : z < h - 1 => z + 1 \in 0 .. h - 1
    BY <1>9
  <1>b. \A g : \A s \in 0 .. w - 1, z \in 0 .. h - 1 : With(p, x, y, g, s, z) = With(v, x, y, g, s, z)
    BY <1>7, <1>8 DEF With
  <1>c. \A x1, y1 : Pens(u, p) => Pens(u, v)
    BY <1>3 DEF Pens
  <1>d. Same(u, p, w, h) => Same(u, v, w, h)
    BY <1>8 DEF Same
  <1>e. Wiped(u, p, w, h, x, y) => Wiped(u, v, w, h, x, y)
    BY <1>7, <1>8 DEF Wiped
  <1>f. LineOn(u, p, w, h, y) => LineOn(u, v, w, h, y)
    BY <1>7, <1>8, <1>a DEF LineOn
  <1>g. \A g : PutOn(u, p, w, h, x, y, g) => PutOn(u, v, w, h, x, y, g)
    BY <1>b DEF PutOn
  <1>h. \A g : PutEnd(u, p, w, h, x, y, g) => PutEnd(u, v, w, h, x, y, g)
    BY <1>7, <1>a, <1>b DEF PutEnd
  <1>i. ASSUME NEW ch, Drew(u, p, w, h, x, y, ch) PROVE Drew(u, v, w, h, x, y, ch)
    BY <1>c, <1>g, <1>h, <1>i DEF Drew
  <1> QED  BY <1>1, <1>6, <1>c, <1>d, <1>e, <1>f, <1>i DEF Shift

\* The screen as ScreenAbs has it.
Screen0(v, w, h) == [y \in 0 .. h - 1 |-> [x \in 0 .. w - 1 |-> Shown(v, x, y)]]
\* The rows of the display, as Screen gives them to ScreenAbs.
RowsNow == [y \in 0 .. vt.size[2] - 1 |-> [x \in 0 .. vt.size[1] - 1 |-> vga.cells[y * vt.size[1] + x]]]

\* The terminal is well formed, and the display shows it.
ScreenInv == /\ \E w, h, x, y : VtOK(vt, w, h, x, y)
             /\ vga = Redraw(vt)

\* They are the rows of the screen.
LEMMA RowsAre ==
    ASSUME NEW w, NEW h, NEW x, NEW y, VtOK(vt, w, h, x, y), vga = Redraw(vt)
    PROVE  RowsNow = Screen0(vt, w, h) /\ vga.cursor = <<x, y>> /\ vt.size = <<w, h>>
  <1>1. vt.size = <<w, h>> /\ vt.size[1] = w /\ vt.size[2] = h
    BY DEF VtOK, Grid
  <1>2. /\ vga.cursor = <<x, y>>
        /\ \A s \in 0 .. w - 1, z \in 0 .. h - 1 : vga.cells[z * w + s] = Shown(vt, s, z)
    BY RedrawShows
  <1> QED  BY <1>1, <1>2 DEF RowsNow, Screen0

\* A new terminal is a blank screen.
LEMMA InitScreen ==
    ASSUME Init
    PROVE  ScreenInv /\ Abs!Init
  <1> PICK w \in Nat \ {0}, h \in Nat \ {0, 1} : vt = NewTerminal(w, h)
    BY ConsoleAssumption DEF Init
  <1> DEFINE f == [i \in 0 .. w * h - 1 |-> <<" ", White, Black>>]
  <1>1. /\ DOMAIN vt = VtFields /\ vt.size = <<w, h>> /\ vt.buf = f /\ vt.buf_line = 0 /\ vt.cursor_pos = <<0, 0>>
        /\ vt.fg_color = White /\ vt.bg_color = Black
    BY DEF NewTerminal, VtFields
  <1>2. DOMAIN f = 0 .. w * h - 1 /\ \A i \in 0 .. w * h - 1 : f[i] = <<" ", White, Black>>
    OBVIOUS
  <1> HIDE DEF f
  <1>3. 0 \in 0 .. w - 1 /\ 0 \in 0 .. h - 1
    OBVIOUS
  <1>4. VtOK(vt, w, h, 0, 0)
    BY <1>1, <1>2, <1>3 DEF VtOK, Grid
  <1>5. vga = Redraw(vt)
    BY DEF Init
  <1>6. RowsNow = Screen0(vt, w, h) /\ vga.cursor = <<0, 0>>
    BY <1>4, <1>5, RowsAre
  <1>7. \A x \in 0 .. w - 1, y \in 0 .. h - 1 : Shown(vt, x, y) = Tile(vt, " ")
    <2> TAKE x \in 0 .. w - 1, y \in 0 .. h - 1
    <2>1. Rows(vt, w, h)
      BY <1>1, <1>3 DEF Rows
    <2>2. Off(vt, x, y) \in 0 .. w * h - 1
      BY <2>1, Cells
    <2>3. Cell(vt, x, y) = VTChar(vt, " ")
      BY <1>1, <1>2, <2>2 DEF Cell, VTChar
    <2> QED  BY <2>3, BlankFace DEF Shown
  <1>8. Abs!Init
    <2>1. RowsNow = [y \in 0 .. h - 1 |-> [x \in 0 .. w - 1 |-> Tile(vt, " ")]]
      BY <1>6, <1>7 DEF Screen0
    <2>2. vt.size[1] = w /\ vt.size[2] = h
      BY <1>1
    <2> QED  BY <1>6, <2>1, <2>2 DEF Abs!Init, Abs!H, Abs!W, Abs!Blank, RowsNow, Tile
  <1> QED  BY <1>4, <1>5, <1>8 DEF ScreenInv

\* ScreenAbs in the terms of a screen R with the cursor at x and y, the pen
\* of v, and R1 the screen afterwards.
BlankRow(v, w) == [s \in 0 .. w - 1 |-> Tile(v, " ")]
UpOne(R, v, w, h) == [z \in 0 .. h - 1 |-> IF z < h - 1 THEN R[z + 1] ELSE BlankRow(v, w)]

\* Two screens are the same when they show the same everywhere.
LEMMA SameScreen ==
    ASSUME NEW u, NEW v, NEW w, NEW h, Same(u, v, w, h)
    PROVE  Screen0(u, w, h) = Screen0(v, w, h)
  BY DEF Same, Screen0

\* Clearing, putting and scrolling, written the way ScreenAbs has them, are what is seen.
WipeInto(R, v, w, x, y) == [R EXCEPT ![y] = [s \in 0 .. w - 1 |-> IF s >= x THEN Tile(v, " ") ELSE R[y][s]]]

\* Clearing the rest of a row.
LEMMA WipeScreen ==
    ASSUME NEW u, NEW v, NEW w, NEW h, NEW x, NEW y, Wiped(u, v, w, h, x, y), y \in 0 .. h - 1
    PROVE  Screen0(u, w, h) = WipeInto(Screen0(v, w, h), v, w, x, y)
  <1> DEFINE R == Screen0(v, w, h)
             row == [s \in 0 .. w - 1 |-> IF s >= x THEN Tile(v, " ") ELSE R[y][s]]
             row1 == [s \in 0 .. w - 1 |-> IF s >= x THEN Tile(v, " ") ELSE Shown(v, s, y)]
  <1>1. R = [z \in 0 .. h - 1 |-> [s \in 0 .. w - 1 |-> Shown(v, s, z)]]
    BY DEF Screen0
  <1>2. row = row1
    <2>1. \A s \in 0 .. w - 1 : R[y][s] = Shown(v, s, y)
      BY <1>1
    <2> HIDE DEF R
    <2> QED  BY <2>1
  <1>3. [R EXCEPT ![y] = row] = [z \in 0 .. h - 1 |-> IF z = y THEN row1 ELSE [s \in 0 .. w - 1 |-> Shown(v, s, z)]]
    <2> HIDE DEF R, row, row1
    <2> QED  BY <1>1, <1>2
  <1>4. ASSUME NEW z \in 0 .. h - 1
        PROVE  (IF z = y THEN row1 ELSE [s \in 0 .. w - 1 |-> Shown(v, s, z)])
                 = [s \in 0 .. w - 1 |-> Shown(u, s, z)]
    BY DEF Wiped
  <1>5. [R EXCEPT ![y] = row] = Screen0(u, w, h)
    <2> HIDE DEF R, row, row1
    <2> QED  BY <1>3, <1>4 DEF Screen0
  <1> QED  BY <1>5 DEF WipeInto

\* A glyph put on the screen.
PutInto(v, w, h, x, y, g) == [Screen0(v, w, h) EXCEPT ![y][x] = Tile(v, g)]
\* The same, cell by cell.
WithRows(v, w, h, x, y, g) == [z \in 0 .. h - 1 |-> [s \in 0 .. w - 1 |-> With(v, x, y, g, s, z)]]

\* Both are the same.
LEMMA PutRows ==
    ASSUME NEW v, NEW w, NEW h, NEW x, NEW y, NEW g, y \in 0 .. h - 1, x \in 0 .. w - 1
    PROVE  PutInto(v, w, h, x, y, g) = WithRows(v, w, h, x, y, g)
  <1> DEFINE R == [Screen0(v, w, h) EXCEPT ![y][x] = Tile(v, g)]
             row == [s \in 0 .. w - 1 |-> IF s = x THEN Tile(v, g) ELSE Shown(v, s, y)]
  <1>1. R = [Screen0(v, w, h) EXCEPT ![y] = [@ EXCEPT ![x] = Tile(v, g)]]
    OBVIOUS
  <1>2. Screen0(v, w, h) = [z \in 0 .. h - 1 |-> [s \in 0 .. w - 1 |-> Shown(v, s, z)]]
    BY DEF Screen0
  <1>3. [[s \in 0 .. w - 1 |-> Shown(v, s, y)] EXCEPT ![x] = Tile(v, g)] = row
    OBVIOUS
  <1>4. R = [z \in 0 .. h - 1 |-> IF z = y THEN row ELSE [s \in 0 .. w - 1 |-> Shown(v, s, z)]]
    <2> HIDE DEF row
    <2> QED  BY <1>1, <1>2, <1>3
  <1>5. ASSUME NEW z \in 0 .. h - 1
        PROVE  (IF z = y THEN row ELSE [s \in 0 .. w - 1 |-> Shown(v, s, z)])
                 = [s \in 0 .. w - 1 |-> With(v, x, y, g, s, z)]
    BY DEF With
  <1> HIDE DEF R, row
  <1>6. R = [z \in 0 .. h - 1 |-> [s \in 0 .. w - 1 |-> With(v, x, y, g, s, z)]]
    BY <1>4, <1>5
  <1> QED  BY <1>6 DEF R, PutInto, WithRows

\* A character within a row.
LEMMA PutScreen ==
    ASSUME NEW u, NEW v, NEW w, NEW h, NEW x, NEW y, NEW g, PutOn(u, v, w, h, x, y, g),
           y \in 0 .. h - 1, x \in 0 .. w - 1
    PROVE  Screen0(u, w, h) = PutInto(v, w, h, x, y, g)
  <1>1. Screen0(u, w, h) = WithRows(v, w, h, x, y, g)
    BY DEF PutOn, Screen0, WithRows
  <1> QED  BY <1>1, PutRows

\* A line feed.
LEMMA LineScreen ==
    ASSUME NEW u, NEW v, NEW w, NEW h \in Nat, NEW y \in 0 .. h - 1, LineOn(u, v, w, h, y)
    PROVE  Screen0(u, w, h) = IF y < h - 1 THEN Screen0(v, w, h) ELSE UpOne(Screen0(v, w, h), v, w, h)
  <1>1. CASE y < h - 1
    BY <1>1 DEF LineOn, Screen0
  <1>2. CASE ~(y < h - 1)
    <2> DEFINE R == Screen0(v, w, h)
    <2>1. \A z \in 0 .. h - 1 : R[z] = [s \in 0 .. w - 1 |-> Shown(v, s, z)]
      BY DEF Screen0
    <2>2. ASSUME NEW z \in 0 .. h - 1
          PROVE  [s \in 0 .. w - 1 |-> Shown(u, s, z)] = IF z < h - 1 THEN R[z + 1] ELSE BlankRow(v, w)
      <3>1. CASE z < h - 1
        <4>1. z + 1 \in 0 .. h - 1
          BY <3>1
        <4>2. \A s \in 0 .. w - 1 : Shown(u, s, z) = Shown(v, s, z + 1)
          BY <1>2, <3>1 DEF LineOn
        <4> HIDE DEF R
        <4> QED  BY <2>1, <3>1, <4>1, <4>2
      <3>2. CASE ~(z < h - 1)
        <4>1. \A s \in 0 .. w - 1 : Shown(u, s, z) = Tile(v, " ")
          BY <1>2, <3>2 DEF LineOn
        <4> QED  BY <3>2, <4>1 DEF BlankRow
      <3> QED  BY <3>1, <3>2
    <2> HIDE DEF R
    <2>3. Screen0(u, w, h) = UpOne(R, v, w, h)
      BY <2>2 DEF Screen0, UpOne
    <2> QED  BY <1>2, <2>3 DEF R
  <1> QED  BY <1>1, <1>2

\* A character at the end of a row.
LEMMA PutEndScreen ==
    ASSUME NEW u, NEW v, NEW w, NEW h \in Nat, NEW x, NEW y, NEW g, PutEnd(u, v, w, h, x, y, g),
           y \in 0 .. h - 1, x \in 0 .. w - 1
    PROVE  LET R == PutInto(v, w, h, x, y, g)
           IN  Screen0(u, w, h) = IF y < h - 1 THEN R ELSE UpOne(R, v, w, h)
  <1> DEFINE R == PutInto(v, w, h, x, y, g)
             R0 == WithRows(v, w, h, x, y, g)
  <1>1. R = R0
    BY PutRows
  <1> HIDE DEF R
  <1>2. CASE y < h - 1
    <2>1. Screen0(u, w, h) = R0
      BY <1>2 DEF PutEnd, Screen0, WithRows
    <2> QED  BY <1>1, <1>2, <2>1 DEF R
  <1>3. CASE ~(y < h - 1)
    <2>2. ASSUME NEW z \in 0 .. h - 1
          PROVE  [s \in 0 .. w - 1 |-> Shown(u, s, z)] = IF z < h - 1 THEN R0[z + 1] ELSE BlankRow(v, w)
      <3>1. CASE z < h - 1
        <4>1. z + 1 \in 0 .. h - 1
          BY <3>1
        <4>2. \A s \in 0 .. w - 1 : Shown(u, s, z) = With(v, x, y, g, s, z + 1)
          BY <1>3, <3>1 DEF PutEnd
        <4> QED  BY <3>1, <4>1, <4>2 DEF WithRows
      <3>2. CASE ~(z < h - 1)
        <4>1. \A s \in 0 .. w - 1 : Shown(u, s, z) = Tile(v, " ")
          BY <1>3, <3>2 DEF PutEnd
        <4> QED  BY <3>2, <4>1 DEF BlankRow
      <3> QED  BY <3>1, <3>2
    <2> HIDE DEF R0
    <2>3. Screen0(u, w, h) = UpOne(R0, v, w, h)
      BY <2>2 DEF Screen0, UpOne
    <2> QED  BY <1>1, <1>3, <2>3 DEF R
  <1> QED  BY <1>2, <1>3

\* What can be seen.
Glyphs0 == Printable \cup {"block"}

\* Every character gives one of them.
LEMMA GlyphIn == ASSUME NEW ch \in Chars1 PROVE Glyph(ch) \in Glyphs0
  BY DEF Chars1, Glyph, Glyphs0

\* What Shift does is a step of ScreenAbs, or none.
LEMMA ShiftAbs ==
    ASSUME NEW w, NEW h, NEW x, NEW y, VtOK(vt, w, h, x, y), vga = Redraw(vt), vga' = Redraw(vt'),
           Shift(vt', vt, w, h, x, y)
    PROVE  (\E x1, y1 : VtOK(vt', w, h, x1, y1)) /\ (Abs!Next \/ UNCHANGED Abs!vars)
  <1> DEFINE R == RowsNow
             pen == <<vt.fg_color, vt.bg_color>>
             W == vt.size[1]
             H == vt.size[2]
  <1>1. /\ w \in Nat \ {0} /\ h \in Nat \ {0, 1} /\ x \in 0 .. w - 1 /\ y \in 0 .. h - 1
    BY DEF VtOK, Grid
  <1>2. R = Screen0(vt, w, h) /\ vga.cursor = <<x, y>> /\ vt.size = <<w, h>> /\ W = w /\ H = h
    <2>1. R = Screen0(vt, w, h) /\ vga.cursor = <<x, y>> /\ vt.size = <<w, h>>
      BY RowsAre
    <2> QED  BY <2>1
  <1>3. ASSUME NEW x1, NEW y1, VtOK(vt', w, h, x1, y1)
        PROVE  R' = Screen0(vt', w, h) /\ vga'.cursor = <<x1, y1>> /\ vt'.size = vt.size
    <2>1. vt'.size = <<w, h>> /\ vt'.size[1] = w /\ vt'.size[2] = h
      BY <1>3 DEF VtOK, Grid
    <2>2. /\ vga'.cursor = <<x1, y1>>
          /\ \A s \in 0 .. w - 1, z \in 0 .. h - 1 : vga'.cells[z * w + s] = Shown(vt', s, z)
      BY <1>3, RedrawShows
    <2>3. R' = [z \in 0 .. h - 1 |-> [s \in 0 .. w - 1 |-> vga'.cells[z * w + s]]]
      BY <2>1 DEF RowsNow
    <2> HIDE DEF R
    <2>4. R' = Screen0(vt', w, h)
      BY <2>2, <2>3 DEF Screen0
    <2> QED  BY <1>2, <2>1, <2>2, <2>4
  <1>4. ASSUME Pens(vt', vt) PROVE pen' = pen /\ \A g : Tile(vt, g) = <<g, pen[1], pen[2]>>
    BY <1>4 DEF Pens, Tile
  <1>t. \A g : Tile(vt, g) = <<g, pen[1], pen[2]>>
    BY DEF Tile
  <1> HIDE DEF R
  <1>5. ASSUME NEW x1, NEW y1, Pens(vt', vt), Moves(w, h, x, y, x1, y1), VtOK(vt', w, h, x1, y1), Same(vt', vt, w, h)
        PROVE  Abs!MoveCursor
    <2>1. R' = R /\ vt'.size = vt.size /\ vga'.cursor = <<x1, y1>> /\ pen' = pen
      BY <1>2, <1>3, <1>4, <1>5, SameScreen
    <2>2. x1 \in 0 .. W - 1 /\ y1 \in 0 .. H - 1
      BY <1>2, <1>5 DEF VtOK
    <2>3. /\ \/ \E s \in 0 .. W - 1 : vga'.cursor = <<s, vga.cursor[2]>>
             \/ \E s \in 0 .. H - 1 : vga'.cursor = <<vga.cursor[1], s>>
             \/ vga.cursor[1] = 0 /\ vga.cursor[2] > 0 /\ vga'.cursor = <<W - 1, vga.cursor[2] - 1>>
      BY <1>2, <1>5, <2>1, <2>2 DEF Moves
    <2> QED  BY <2>1, <2>3 DEF Abs!MoveCursor, Abs!W, Abs!H, R, RowsNow
  <1>6. ASSUME VtOK(vt', w, h, x, y), Same(vt', vt, w, h)
        PROVE  Abs!ChangePen \/ UNCHANGED Abs!vars
    <2>1. R' = R /\ vt'.size = vt.size /\ vga'.cursor = vga.cursor
      BY <1>2, <1>3, <1>6, SameScreen
    <2> QED  BY <2>1 DEF Abs!ChangePen, Abs!vars, R, RowsNow
  <1>7. ASSUME Pens(vt', vt), VtOK(vt', w, h, x, y), Wiped(vt', vt, w, h, x, y)
        PROVE  Abs!EraseToLineEnd
    <2>1. vt'.size = vt.size /\ vga'.cursor = vga.cursor /\ pen' = pen /\ R' = Screen0(vt', w, h)
      BY <1>2, <1>3, <1>4, <1>7
    <2>2. R' = WipeInto(R, vt, w, x, y)
      BY <1>1, <1>2, <1>7, <2>1, WipeScreen
    <2> DEFINE row == [s \in 0 .. W - 1 |-> IF s >= vga.cursor[1] THEN <<" ", pen[1], pen[2]>> ELSE R[vga.cursor[2]][s]]
               row1 == [s \in 0 .. w - 1 |-> IF s >= x THEN Tile(vt, " ") ELSE R[y][s]]
    <2>3. vga.cursor[1] = x /\ vga.cursor[2] = y
      BY <1>2
    <2>4. row = row1
      <3> HIDE DEF W, pen
      <3>1. W = w /\ Tile(vt, " ") = <<" ", pen[1], pen[2]>>
        BY <1>2, <1>t
      <3> QED  BY <2>3, <3>1
    <2>5. R' = [R EXCEPT ![vga.cursor[2]] = row]
      <3> HIDE DEF row
      <3> QED  BY <2>2, <2>3, <2>4 DEF WipeInto
    <2> QED  BY <2>1, <2>5 DEF Abs!EraseToLineEnd, Abs!W, Abs!Blank, R, RowsNow
  <1> DEFINE U(Q) == [z \in 0 .. H - 1 |-> IF z < H - 1 THEN Q[z + 1] ELSE [s \in 0 .. W - 1 |-> <<" ", pen[1], pen[2]>>]]
  <1>n. ASSUME NEW Q, vga'.cursor = <<0, Next1(y, h)>>, R' = IF y < h - 1 THEN Q ELSE UpOne(Q, vt, w, h)
        PROVE  IF vga.cursor[2] < H - 1 THEN R' = Q /\ vga'.cursor = <<0, vga.cursor[2] + 1>>
               ELSE R' = U(Q) /\ vga'.cursor = <<0, H - 1>>
    <2>1. vga.cursor[2] = y
      BY <1>2
    <2>2. U(Q) = UpOne(Q, vt, w, h)
      <3>1. Tile(vt, " ") = <<" ", pen[1], pen[2]>> /\ H = h /\ W = w
        BY <1>2, <1>t
      <3> HIDE DEF H, W, pen
      <3>2. [s \in 0 .. W - 1 |-> <<" ", pen[1], pen[2]>>] = BlankRow(vt, w)
        BY <3>1 DEF BlankRow
      <3> QED  BY <3>1, <3>2 DEF UpOne
    <2> HIDE DEF U
    <2> QED  BY <1>2, <1>n, <2>1, <2>2 DEF Next1
  <1>8. ASSUME Pens(vt', vt), VtOK(vt', w, h, 0, Next1(y, h)), LineOn(vt', vt, w, h, y)
        PROVE  Abs!NewLine
    <2>1. vt'.size = vt.size /\ vga'.cursor = <<0, Next1(y, h)>> /\ pen' = pen /\ R' = Screen0(vt', w, h)
      BY <1>2, <1>3, <1>4, <1>8
    <2>2. R' = IF y < h - 1 THEN R ELSE UpOne(R, vt, w, h)
      BY <1>1, <1>2, <1>8, <2>1, LineScreen
    <2>3. IF vga.cursor[2] < H - 1 THEN R' = R /\ vga'.cursor = <<0, vga.cursor[2] + 1>>
          ELSE R' = U(R) /\ vga'.cursor = <<0, H - 1>>
      <3> HIDE DEF U, H
      <3> QED  BY <1>n, <2>1, <2>2
    <2> QED  BY <2>1, <2>3 DEF Abs!NewLine, Abs!NextLine, Abs!W, Abs!H, Abs!Blank, R, RowsNow
  <1>9. ASSUME NEW ch \in Chars1, Drew(vt', vt, w, h, x, y, ch)
        PROVE  Abs!Put(Glyph(ch))
    <2> DEFINE g == Glyph(ch)
               P == PutInto(vt, w, h, x, y, g)
    <2>1. P = [R EXCEPT ![vga.cursor[2]][vga.cursor[1]] = <<g, pen[1], pen[2]>>]
      BY <1>2 DEF PutInto, Tile
    <2>2. Pens(vt', vt) /\ pen' = pen
      BY <1>4, <1>9 DEF Drew
    <2>3. CASE x < w - 1 /\ VtOK(vt', w, h, x + 1, y) /\ PutOn(vt', vt, w, h, x, y, g)
      <3>1. vt'.size = vt.size /\ vga'.cursor = <<x + 1, y>> /\ R' = Screen0(vt', w, h)
        BY <1>3, <2>3
      <3>2. R' = P
        BY <1>1, <2>3, <3>1, PutScreen
      <3> HIDE DEF P
      <3> QED  BY <1>2, <2>1, <2>2, <2>3, <3>1, <3>2 DEF Abs!Put, Abs!W, R, RowsNow
    <2>4. CASE x = w - 1 /\ VtOK(vt', w, h, 0, Next1(y, h)) /\ PutEnd(vt', vt, w, h, x, y, g)
      <3>1. vt'.size = vt.size /\ vga'.cursor = <<0, Next1(y, h)>> /\ R' = Screen0(vt', w, h)
        BY <1>3, <2>4
      <3>2. R' = IF y < h - 1 THEN P ELSE UpOne(P, vt, w, h)
        BY <1>1, <2>4, <3>1, PutEndScreen
      <3>3. ~(x < w - 1)
        BY <1>1, <2>4
      <3> HIDE DEF P
      <3> DEFINE Q == [R EXCEPT ![vga.cursor[2]][vga.cursor[1]] = <<g, pen[1], pen[2]>>]
      <3>4. Q = P
        BY <2>1
      <3> HIDE DEF Q
      <3>5. R' = IF y < h - 1 THEN Q ELSE UpOne(Q, vt, w, h)
        BY <3>2, <3>4
      <3>6. IF vga.cursor[2] < H - 1 THEN R' = Q /\ vga'.cursor = <<0, vga.cursor[2] + 1>>
            ELSE R' = U(Q) /\ vga'.cursor = <<0, H - 1>>
        <4> HIDE DEF U, H
        <4> QED  BY <1>n, <3>1, <3>5
      <3>7. ~(vga.cursor[1] < W - 1)
        BY <1>2, <3>3
      <3> QED  BY <2>2, <3>1, <3>6, <3>7 DEF Abs!Put, Abs!NextLine, Abs!W, Abs!H, Abs!Blank, R, RowsNow, Q
    <2> QED  BY <1>9, <2>3, <2>4 DEF Drew
  <1>a. ASSUME NEW ch \in Chars1, Drew(vt', vt, w, h, x, y, ch)
        PROVE  Abs!Next /\ \E x1, y1 : VtOK(vt', w, h, x1, y1)
    <2>1. Glyph(ch) \in Printable \cup {"block"}
      BY GlyphIn DEF Glyphs0
    <2>2. Abs!Put(Glyph(ch))
      BY <1>9, <1>a
    <2>3. Abs!Next
      BY <2>1, <2>2 DEF Abs!Next
    <2> QED  BY <1>a, <2>3 DEF Drew
  <1> QED  BY <1>5, <1>6, <1>7, <1>8, <1>a DEF Shift, Abs!Next

----------------------------------------------------------------------------
(* The line editor and what it writes. *)

\* The lines that can be typed.
Lines == {s \in Seq(Chars) : Len(s) <= MaxLine}

\* The slots of the history in use hold lines.
HistLines(d) ==
  /\ d.head \in 0 .. HistCap - 1 /\ d.len \in 0 .. HistCap /\ DOMAIN d.data = 0 .. HistCap - 1
  /\ \A i \in 0 .. d.len - 1 : d.data[History!Idx(d.head, i)] \in Lines

\* The state of the line editor, and what it has to write.
EditInv ==
  /\ line \in Lines /\ pos \in 0 .. Len(line)
  /\ HistLines(hist) /\ hpos \in 0 .. hist.len
  /\ DOMAIN modified = 0 .. HistCap /\ \A p \in 0 .. HistCap : modified[p] \subseteq Lines
  /\ hpos # hist.len => modified[hist.len] # {}
  /\ out \in Seq(AllBytes)

\* The empty line is a line.
LEMMA EmptyLine == <<>> \in Lines /\ Len(<<>>) = 0
  BY HistAssumption DEF Lines

\* The places of a ring after its first element was taken.
LEMMA IdxNext ==
    ASSUME NEW a \in 0 .. HistCap - 1, NEW i \in 0 .. HistCap - 2, NEW b, b = IF a = HistCap - 1 THEN 0 ELSE a + 1
    PROVE  History!Idx(b, i) = History!Idx(a, i + 1) /\ History!Idx(b, i) # a /\ History!Idx(b, i) \in 0 .. HistCap - 1
  <1>1. HistCap \in Nat \ {0}
    BY HistAssumption
  <1>2. a \in Nat /\ i \in Nat /\ b \in Nat /\ a < HistCap /\ i < HistCap - 1
    BY <1>1
  <1>3. History!Idx(b, i) = IF i >= HistCap - b THEN i - (HistCap - b) ELSE b + i
    BY DEF History!Idx
  <1>4. History!Idx(a, i + 1) = IF i + 1 >= HistCap - a THEN (i + 1) - (HistCap - a) ELSE a + (i + 1)
    BY DEF History!Idx
  <1> QED  BY <1>1, <1>2, <1>3, <1>4

\* Taking the oldest line keeps the others.
LEMMA PopLines ==
    ASSUME NEW d, HistLines(d), d.len # 0
    PROVE  HistLines(History!PopFront(d)) /\ History!PopFront(d).len = d.len - 1
  <1> DEFINE e == History!PopFront(d)
             N == HistCap
  <1>1. N \in Nat \ {0} /\ d.head \in 0 .. N - 1 /\ d.len \in 1 .. N /\ DOMAIN d.data = 0 .. N - 1
    BY HistAssumption DEF HistLines
  <1>2. /\ e.head = (IF d.head = N - 1 THEN 0 ELSE d.head + 1) /\ e.len = d.len - 1
        /\ e.data = [d.data EXCEPT ![d.head] = NoText]
    BY DEF History!PopFront
  <1> HIDE DEF e
  <1>3. e.head \in 0 .. N - 1 /\ e.len \in 0 .. N /\ DOMAIN e.data = 0 .. N - 1
    BY <1>1, <1>2
  <1>4. ASSUME NEW i \in 0 .. e.len - 1 PROVE e.data[History!Idx(e.head, i)] \in Lines
    <2>1. i + 1 \in 0 .. d.len - 1
      BY <1>1, <1>2
    <2>2. History!Idx(e.head, i) = History!Idx(d.head, i + 1) /\ History!Idx(e.head, i) # d.head
          /\ History!Idx(e.head, i) \in 0 .. N - 1
      <3>1. d.head \in 0 .. HistCap - 1 /\ i \in 0 .. HistCap - 2 /\ e.head = IF d.head = HistCap - 1 THEN 0 ELSE d.head + 1
        BY <1>1, <1>2
      <3> QED  BY ONLY <3>1, IdxNext DEF N
    <2>3. d.data[History!Idx(d.head, i + 1)] \in Lines
      BY <2>1 DEF HistLines
    <2> QED  BY <1>1, <1>2, <2>2, <2>3
  <1> QED  BY <1>2, <1>3, <1>4 DEF HistLines, e

\* Adding a line keeps the others.
LEMMA PushLines ==
    ASSUME NEW d, HistLines(d), d.len # HistCap, NEW s \in Lines
    PROVE  HistLines(History!PushBack(d, s)) /\ History!PushBack(d, s).len = d.len + 1
  <1> DEFINE e == History!PushBack(d, s)
             N == HistCap
             k == History!Idx(d.head, d.len)
  <1>1. N \in Nat \ {0} /\ d.head \in 0 .. N - 1 /\ d.len \in 0 .. N - 1 /\ DOMAIN d.data = 0 .. N - 1
    BY HistAssumption DEF HistLines
  <1>2. e.head = d.head /\ e.len = d.len + 1 /\ e.data = [d.data EXCEPT ![k] = s]
    BY DEF History!PushBack, History!IsFull
  <1>3. k \in 0 .. N - 1 /\ \A i \in 0 .. d.len - 1 : History!Idx(d.head, i) # k /\ History!Idx(d.head, i) \in 0 .. N - 1
    <2>1. d.head \in Nat /\ d.len \in Nat /\ d.len < N /\ d.head < N
      BY <1>1
    <2>2. k \in 0 .. N - 1
      BY <1>1, <2>1 DEF History!Idx
    <2>3. ASSUME NEW i \in 0 .. d.len - 1 PROVE History!Idx(d.head, i) # k /\ History!Idx(d.head, i) \in 0 .. N - 1
      <3>1. i \in Nat /\ i < d.len
        BY <2>1
      <3> QED  BY <1>1, <2>1, <3>1 DEF History!Idx
    <2> QED  BY <2>2, <2>3
  <1> HIDE DEF e
  <1>4. e.head \in 0 .. N - 1 /\ e.len \in 0 .. N /\ DOMAIN e.data = 0 .. N - 1
    BY <1>1, <1>2
  <1>5. ASSUME NEW i \in 0 .. e.len - 1 PROVE e.data[History!Idx(e.head, i)] \in Lines
    <2>1. CASE i = d.len
      <3> HIDE DEF k
      <3>1. History!Idx(e.head, i) = k
        BY <1>2, <2>1 DEF k
      <3> QED  BY <1>1, <1>2, <1>3, <3>1
    <2>2. CASE i # d.len
      <3>1. i \in 0 .. d.len - 1
        BY <1>1, <1>2, <2>2
      <3>2. d.data[History!Idx(d.head, i)] \in Lines
        BY <3>1 DEF HistLines
      <3> HIDE DEF k
      <3> QED  BY <1>1, <1>2, <1>3, <3>1, <3>2
    <2> QED  BY <2>1, <2>2
  <1> QED  BY <1>2, <1>4, <1>5 DEF HistLines, e

\* So does entering a line.
LEMMA EnteredLines ==
    ASSUME EditInv
    PROVE  HistLines(Entered)
  <1> DEFINE d == IF History!IsFull(hist) THEN History!PopFront(hist) ELSE hist
  <1>1. HistLines(hist) /\ line \in Lines
    BY DEF EditInv
  <1>2. HistLines(d) /\ d.len # HistCap
    <2>1. HistCap \in Nat \ {0}
      BY HistAssumption
    <2>2. CASE hist.len = HistCap
      <3>1. d = History!PopFront(hist) /\ hist.len # 0
        BY <2>1, <2>2 DEF History!IsFull
      <3>2. HistLines(d) /\ d.len = hist.len - 1
        BY <1>1, <3>1, PopLines
      <3> QED  BY <2>1, <2>2, <3>2
    <2>3. CASE hist.len # HistCap
      <3>1. d = hist
        BY <2>3 DEF History!IsFull
      <3> QED  BY <1>1, <2>3, <3>1
    <2> QED  BY <2>2, <2>3
  <1> HIDE DEF d
  <1>3. HistLines(History!PushBack(d, line))
    BY <1>1, <1>2, PushLines
  <1> QED  BY <1>3 DEF Entered, d

\* The line at a place of the history is a line.
LEMMA LineAtIs ==
    ASSUME EditInv, NEW p \in 0 .. hist.len
    PROVE  LineAt(p) \in Lines
  <1>0. hist.len \in 0 .. HistCap /\ HistCap \in Nat
    BY HistAssumption DEF EditInv, HistLines
  <1>1. CASE p = hpos
    BY <1>1 DEF LineAt, EditInv
  <1>2. CASE p # hpos /\ modified[p] # {}
    <2>1. p \in 0 .. HistCap
      BY <1>0
    <2>2. modified[p] \subseteq Lines
      BY <2>1 DEF EditInv
    <2>3. (CHOOSE m \in modified[p] : TRUE) \in modified[p]
      BY <1>2
    <2> QED  BY <1>2, <2>2, <2>3 DEF LineAt
  <1>3. CASE p # hpos /\ modified[p] = {}
    <2>1. p # hist.len
      BY <1>3 DEF EditInv
    <2>2. p \in 0 .. hist.len - 1 /\ p + 1 \in 1 .. hist.len /\ (p + 1) - 1 = p
      BY <1>0, <2>1
    <2>3. LineAt(p) = hist.data[History!Idx(hist.head, p)]
      BY <1>3, <2>2 DEF LineAt, History!Contents
    <2> QED  BY <2>2, <2>3 DEF EditInv, HistLines
  <1> QED  BY <1>1, <1>2, <1>3

\* A sequence over a set is one over a larger set.
LEMMA SeqWider == ASSUME NEW S, NEW T, S \subseteq T, NEW s \in Seq(S) PROVE s \in Seq(T)
  <1>1. Len(s) \in Nat /\ s \in [1 .. Len(s) -> S]
    OBVIOUS
  <1>2. s \in [1 .. Len(s) -> T]
    BY <1>1
  <1> QED  BY <1>1, <1>2

\* The line from the cursor on.
LEMMA FromIs ==
    ASSUME NEW S, NEW s \in Seq(S), NEW i \in 0 .. Len(s)
    PROVE  /\ From(s, i) \in Seq(S) /\ Len(From(s, i)) = Len(s) - i
           /\ \A j \in 1 .. Len(s) - i : From(s, i)[j] = s[i + j]
  <1>1. Len(s) \in Nat /\ i + 1 \in 1 .. Len(s) + 1 /\ Len(s) \in (i + 1) - 1 .. Len(s)
    OBVIOUS
  <1>2. /\ SubSeq(s, i + 1, Len(s)) \in Seq(S)
        /\ Len(SubSeq(s, i + 1, Len(s))) = IF i + 1 <= Len(s) THEN Len(s) - (i + 1) + 1 ELSE 0
        /\ \A j \in 1 .. Len(s) - (i + 1) + 1 : SubSeq(s, i + 1, Len(s))[j] = s[(i + 1) + j - 1]
    BY <1>1, SubSeqProperties
  <1>3. \A j \in 1 .. Len(s) - i : j \in 1 .. Len(s) - (i + 1) + 1 /\ (i + 1) + j - 1 = i + j
    BY <1>1
  <1>4. Len(SubSeq(s, i + 1, Len(s))) = Len(s) - i
    BY <1>1, <1>2
  <1> QED  BY <1>2, <1>3, <1>4 DEF From

\* The line up to the cursor.
LEMMA UptoIs ==
    ASSUME NEW S, NEW s \in Seq(S), NEW i \in 0 .. Len(s)
    PROVE  /\ SubSeq(s, 1, i) \in Seq(S) /\ Len(SubSeq(s, 1, i)) = i
           /\ \A j \in 1 .. i : SubSeq(s, 1, i)[j] = s[j]
  <1>1. Len(s) \in Nat /\ 1 \in 1 .. Len(s) + 1 /\ i \in 1 - 1 .. Len(s)
    OBVIOUS
  <1>2. /\ SubSeq(s, 1, i) \in Seq(S)
        /\ Len(SubSeq(s, 1, i)) = IF 1 <= i THEN i - 1 + 1 ELSE 0
        /\ \A j \in 1 .. i - 1 + 1 : SubSeq(s, 1, i)[j] = s[1 + j - 1]
    BY <1>1, SubSeqProperties
  <1>3. \A j \in 1 .. i : j \in 1 .. i - 1 + 1 /\ 1 + j - 1 = j
    BY <1>1
  <1>4. Len(SubSeq(s, 1, i)) = i
    BY <1>1, <1>2
  <1> QED  BY <1>2, <1>3, <1>4

\* A line with the character before the cursor taken out.
LEMMA RemoveIs ==
    ASSUME NEW S, NEW s \in Seq(S), NEW i \in 1 .. Len(s)
    PROVE  /\ RemoveAt(s, i) \in Seq(S) /\ Len(RemoveAt(s, i)) = Len(s) - 1
           /\ \A j \in 1 .. Len(s) - 1 : RemoveAt(s, i)[j] = IF j < i THEN s[j] ELSE s[j + 1]
  <1> DEFINE a == SubSeq(s, 1, i - 1)
             b == From(s, i)
             r == RemoveAt(s, i)
  <1>1. Len(s) \in Nat /\ i \in 0 .. Len(s) /\ i - 1 \in 0 .. Len(s)
    OBVIOUS
  <1>2. a \in Seq(S) /\ Len(a) = i - 1 /\ \A j \in 1 .. i - 1 : a[j] = s[j]
    BY <1>1, UptoIs
  <1>3. b \in Seq(S) /\ Len(b) = Len(s) - i /\ \A j \in 1 .. Len(s) - i : b[j] = s[i + j]
    BY <1>1, FromIs
  <1>4. r = a \o b
    BY DEF RemoveAt, From
  <1> HIDE DEF a, b, r
  <1>5. r \in Seq(S) /\ Len(r) = Len(s) - 1 /\ \A j \in 1 .. Len(s) - 1 : r[j] = IF j <= i - 1 THEN a[j] ELSE b[j - (i - 1)]
    <2>1. /\ a \o b \in Seq(S) /\ Len(a \o b) = Len(a) + Len(b)
          /\ \A j \in 1 .. Len(a) + Len(b) : (a \o b)[j] = IF j <= Len(a) THEN a[j] ELSE b[j - Len(a)]
      BY ONLY <1>2, <1>3, ConcatProperties
    <2>2. Len(a) + Len(b) = Len(s) - 1
      BY <1>1, <1>2, <1>3
    <2> QED  BY <1>2, <1>4, <2>1, <2>2
  <1>6. ASSUME NEW j \in 1 .. Len(s) - 1 PROVE r[j] = IF j < i THEN s[j] ELSE s[j + 1]
    <2>1. CASE j < i
      <3>1. j \in 1 .. i - 1
        BY <1>1, <2>1
      <3> QED  BY <1>2, <1>5, <2>1, <3>1
    <2>2. CASE ~(j < i)
      <3>1. j - (i - 1) \in 1 .. Len(s) - i /\ i + (j - (i - 1)) = j + 1 /\ ~(j <= i - 1)
        BY <1>1, <2>2
      <3> QED  BY <1>3, <1>5, <2>2, <3>1
    <2> QED  BY <2>1, <2>2
  <1> QED  BY <1>5, <1>6 DEF r

\* t is s with e put in after its first i characters.
Spliced(t, s, i, e) ==
  \A j \in 1 .. Len(s) + 1 : t[j] = IF j <= i THEN s[j] ELSE IF j = i + 1 THEN e ELSE s[j - 1]

\* A line with a character put in at the cursor.
LEMMA InsertIs ==
    ASSUME NEW S, NEW s \in Seq(S), NEW i \in 0 .. Len(s), NEW e \in S
    PROVE  /\ InsertAt(s, i + 1, e) \in Seq(S) /\ Len(InsertAt(s, i + 1, e)) = Len(s) + 1
           /\ Spliced(InsertAt(s, i + 1, e), s, i, e)
  <1> DEFINE a == SubSeq(s, 1, i)
             b == From(s, i)
             c == a \o <<e>>
             r == InsertAt(s, i + 1, e)
  <1>1. Len(s) \in Nat /\ i \in Nat /\ (i + 1) - 1 = i /\ i <= Len(s)
    OBVIOUS
  <1>2. a \in Seq(S) /\ Len(a) = i /\ \A j \in 1 .. i : a[j] = s[j]
    BY <1>1, UptoIs
  <1>3. b \in Seq(S) /\ Len(b) = Len(s) - i /\ \A j \in 1 .. Len(s) - i : b[j] = s[i + j]
    BY <1>1, FromIs
  <1>4. r = c \o b
    BY <1>1 DEF InsertAt, From
  <1> HIDE DEF a, b, r
  <1>5. c \in Seq(S) /\ Len(c) = i + 1 /\ (\A j \in 1 .. i : c[j] = a[j]) /\ c[i + 1] = e
    BY <1>1, <1>2
  <1> HIDE DEF c
  <1>6. r \in Seq(S) /\ Len(r) = Len(s) + 1 /\ \A j \in 1 .. Len(s) + 1 : r[j] = IF j <= i + 1 THEN c[j] ELSE b[j - (i + 1)]
    BY <1>1, <1>3, <1>4, <1>5
  <1>7. ASSUME NEW j \in 1 .. Len(s) + 1 PROVE r[j] = IF j <= i THEN s[j] ELSE IF j = i + 1 THEN e ELSE s[j - 1]
    <2>1. CASE j <= i
      <3>1. j \in 1 .. i /\ j <= i + 1
        BY <1>1, <2>1
      <3> QED  BY <1>2, <1>5, <1>6, <2>1, <3>1
    <2>2. CASE j = i + 1
      <3>1. ~(j <= i) /\ j <= i + 1
        BY <1>1, <2>2
      <3> QED  BY <1>5, <1>6, <2>2, <3>1
    <2>3. CASE ~(j <= i + 1)
      <3>1. j - (i + 1) \in 1 .. Len(s) - i /\ i + (j - (i + 1)) = j - 1 /\ ~(j <= i) /\ j # i + 1
        BY <1>1, <2>3
      <3> QED  BY <1>3, <1>6, <2>3, <3>1
    <2> QED  BY <1>1, <2>1, <2>2, <2>3
  <1> QED  BY <1>6, <1>7 DEF r, Spliced

\* A digit is printable.
LEMMA DigitIs == ASSUME NEW n \in 0 .. 9 PROVE Digit(n) \in Printable /\ Digit(n) = Digits[n + 1] /\ n + 1 \in DOMAIN Digits
  <1>1. Digit(n) = Digits[n + 1] /\ n + 1 \in DOMAIN Digits
    BY DEF Digit, Digits
  <1> QED  BY <1>1 DEF Printable

\* Numbers are written in digits.
LEMMA DecimalBytes == ASSUME NEW n \in 0 .. 99 PROVE Decimal(n) \in Seq(Printable) /\ Decimal(n) # <<>>
  <1>1. CASE n < 10
    BY <1>1, DigitIs DEF Decimal
  <1>2. CASE ~(n < 10)
    <2>1. n \div 10 \in 0 .. 9 /\ n % 10 \in 0 .. 9
      BY <1>2
    <2> QED  BY <1>2, <2>1, DigitIs DEF Decimal
  <1> QED  BY <1>1, <1>2

\* Cursor moves are bytes.
LEMMA MoveBytes ==
    ASSUME NEW n \in 0 .. 99
    PROVE  Left(n) \in Seq(AllBytes) /\ Right(n) \in Seq(AllBytes)
  <1>1. Decimal(n) \in Seq(AllBytes)
    <2>1. Printable \subseteq AllBytes
      BY DEF AllBytes
    <2> QED  BY <2>1, DecimalBytes, SeqWider
  <1>2. "ESC" \in AllBytes /\ "[" \in AllBytes /\ "C" \in AllBytes /\ "D" \in AllBytes
    BY DEF AllBytes, Printable
  <1> QED  BY <1>1, <1>2 DEF Left, Right

\* The arithmetic of a cursor p in a line of n characters, of at most m.
LEMMA Sizes ==
    ASSUME NEW n \in Nat, NEW p \in 0 .. n, NEW m \in 0 .. 99, n <= m
    PROVE  /\ n - p \in 0 .. 99 /\ n - p \in 0 .. m /\ p \in 0 .. 99
           /\ (p # 0 => p \in 1 .. n /\ n - 1 <= m /\ p - 1 \in 0 .. n - 1 /\ (n - 1) - p + 2 \in 0 .. 99
                          /\ (n - 1) - p + 2 \in 0 .. m)
           /\ p + 1 \in 0 .. n + 1 /\ (n < m => n + 1 <= m)
  OBVIOUS

\* The numbers of the editor.
LEMMA EditSizes ==
    ASSUME EditInv
    PROVE  /\ line \in Seq(Chars) /\ Len(line) \in Nat /\ pos \in 0 .. Len(line)
           /\ MaxLine \in 0 .. 99 /\ Len(line) <= MaxLine
  BY HistAssumption DEF EditInv, Lines

\* Printable characters are bytes the parser knows,
LEMMA PrintableBytes ==
    ASSUME NEW s \in Seq(Printable)
    PROVE  s \in Seq(AllBytes)
  <1>1. Printable \subseteq AllBytes
    BY DEF AllBytes
  <1> QED  BY <1>1, SeqWider

\* so are lines,
LEMMA LineBytes ==
    ASSUME NEW s \in Seq(Chars)
    PROVE  s \in Seq(Printable) /\ s \in Seq(AllBytes)
  <1>1. Chars \subseteq Printable
    BY ConsoleAssumption
  <1>2. s \in Seq(Printable)
    BY <1>1, SeqWider
  <1> QED  BY <1>2, PrintableBytes

\* what commands write,
LEMMA OutputBytes ==
    ASSUME NEW o \in Outputs
    PROVE  o \in Seq(Printable \cup {"NL"}) /\ o \in Seq(AllBytes)
  <1>1. o \in Seq(Printable \cup {"NL"}) /\ Printable \cup {"NL"} \subseteq AllBytes
    BY ConsoleAssumption DEF AllBytes
  <1>2. o \in Seq(AllBytes)
    BY <1>1, SeqWider
  <1> QED  BY <1>1, <1>2

\* and the sequences of the editor.
LEMMA EscBytes ==
    /\ <<"ESC", "[", "C">> \in Seq(AllBytes) /\ <<"ESC", "[", "D">> \in Seq(AllBytes)
    /\ <<"ESC", "[", "K">> \in Seq(AllBytes) /\ <<"NL">> \in Seq(AllBytes) /\ <<" ">> \in Seq(AllBytes)
    /\ <<>> \in Seq(AllBytes)
  <1>1. /\ "ESC" \in AllBytes /\ "[" \in AllBytes /\ "C" \in AllBytes /\ "D" \in AllBytes /\ "K" \in AllBytes
        /\ "NL" \in AllBytes /\ " " \in AllBytes
    BY DEF AllBytes, Printable
  <1>2. \A a, b, c \in AllBytes : <<a, b, c>> \in Seq(AllBytes)
    OBVIOUS
  <1>3. (\A a \in AllBytes : <<a>> \in Seq(AllBytes)) /\ <<>> \in Seq(AllBytes)
    OBVIOUS
  <1> QED  BY <1>1, <1>2, <1>3

\* An empty line at the start.
LEMMA InitEdit == ASSUME Init PROVE EditInv
  <1>1. /\ line = <<>> /\ pos = 0 /\ hist = History!New /\ hpos = 0 /\ modified = Fresh /\ out = Prompt
    BY DEF Init, RlInit
  <1>2. hist.len = 0 /\ hist.head = 0 /\ DOMAIN hist.data = 0 .. HistCap - 1
    BY <1>1 DEF History!New
  <1>3. HistLines(hist)
    BY <1>2, HistAssumption DEF HistLines
  <1>4. DOMAIN modified = 0 .. HistCap /\ \A p \in 0 .. HistCap : modified[p] \subseteq Lines
    BY <1>1 DEF Fresh
  <1>5. out \in Seq(AllBytes)
    BY <1>1, ConsoleAssumption, PrintableBytes
  <1> QED  BY <1>1, <1>2, <1>3, <1>4, <1>5, EmptyLine DEF EditInv

\* What the editor writes goes with the line it keeps.
LEMMA EnterEdit ==
    ASSUME EditInv, NEW o \in Outputs, Enter(o)
    PROVE  EditInv'
  <1>1. /\ line' = <<>> /\ pos' = 0 /\ hist' = Entered /\ hpos' = hist'.len /\ modified' = Fresh
        /\ out' = (IF pos /= Len(line) THEN Right(Len(line) - pos) ELSE <<>>) \o <<"NL">> \o o \o Prompt
    BY DEF Enter, Start, Entered
  <1>2. HistLines(hist')
    BY <1>1, EnteredLines
  <1>3. DOMAIN modified' = 0 .. HistCap /\ \A p \in 0 .. HistCap : modified'[p] \subseteq Lines
    BY <1>1 DEF Fresh
  <1>4. hpos' \in 0 .. hist'.len
    BY <1>1, <1>2 DEF HistLines
  <1>5. out' \in Seq(AllBytes)
    <2> DEFINE r == IF pos /= Len(line) THEN Right(Len(line) - pos) ELSE <<>>
    <2>2. Len(line) - pos \in 0 .. 99
      BY EditSizes, Sizes
    <2>3. r \in Seq(AllBytes)
      BY <2>2, MoveBytes, EscBytes
    <2>4. Prompt \in Seq(AllBytes)
      BY ConsoleAssumption, PrintableBytes
    <2>5. o \in Seq(AllBytes)
      BY OutputBytes
    <2> HIDE DEF r
    <2>6. r \o <<"NL">> \in Seq(AllBytes)
      BY <2>3, EscBytes, ConcatProperties
    <2>7. r \o <<"NL">> \o o \in Seq(AllBytes)
      BY <2>5, <2>6, ConcatProperties
    <2> QED  BY <1>1, <2>4, <2>7, ConcatProperties DEF r
  <1> QED  BY <1>1, <1>2, <1>3, <1>4, <1>5, EmptyLine DEF EditInv

\* Backspace takes one character.
LEMMA BackspaceEdit ==
    ASSUME EditInv, Backspace
    PROVE  EditInv'
  <1> DEFINE s == RemoveAt(line, pos)
  <1>1. /\ pos # 0 /\ line' = s /\ pos' = pos - 1 /\ hist' = hist /\ hpos' = hpos /\ modified' = modified
        /\ out' = <<"ESC", "[", "D">> \o From(s, pos - 1) \o <<" ">> \o Left(Len(s) - pos + 2)
    BY DEF Backspace
  <1>2. line \in Seq(Chars) /\ Len(line) <= MaxLine /\ pos \in 1 .. Len(line) /\ MaxLine \in 0 .. 99 /\ Len(line) \in Nat
    BY <1>1, EditSizes, Sizes
  <1>3. s \in Seq(Chars) /\ Len(s) = Len(line) - 1
    BY <1>2, RemoveIs
  <1> HIDE DEF s
  <1>4. s \in Lines /\ pos - 1 \in 0 .. Len(s) /\ Len(s) - pos + 2 \in 0 .. 99
    <2>1. Len(line) \in Nat /\ Len(s) = Len(line) - 1 /\ pos \in 1 .. Len(line) /\ Len(line) <= MaxLine /\ MaxLine \in 0 .. 99
      BY <1>2, <1>3
    <2>2. Len(s) <= MaxLine /\ pos - 1 \in 0 .. Len(s) /\ Len(s) - pos + 2 \in 0 .. 99
      BY <1>1, <1>3, EditSizes, Sizes
    <2> QED  BY <1>3, <2>2 DEF Lines
  <1>5. out' \in Seq(AllBytes)
    <2>1. From(s, pos - 1) \in Seq(AllBytes)
      BY <1>3, <1>4, FromIs, LineBytes
    <2>2. Left(Len(s) - pos + 2) \in Seq(AllBytes)
      BY <1>4, MoveBytes
    <2>3. <<"ESC", "[", "D">> \o From(s, pos - 1) \in Seq(AllBytes)
      BY <2>1, EscBytes, ConcatProperties
    <2>4. <<"ESC", "[", "D">> \o From(s, pos - 1) \o <<" ">> \in Seq(AllBytes)
      BY <2>3, EscBytes, ConcatProperties
    <2> QED  BY <1>1, <2>2, <2>4, ConcatProperties
  <1> QED  BY <1>1, <1>4, <1>5 DEF EditInv, s

\* A character makes the line one longer.
LEMMA InsertEdit ==
    ASSUME EditInv, NEW ch \in Chars, Insert(ch)
    PROVE  EditInv'
  <1> DEFINE s == InsertAt(line, pos + 1, ch)
             t == IF pos /= Len(line) THEN From(line, pos) \o Left(Len(line) - pos) ELSE <<>>
  <1>1. /\ Len(line) < MaxLine /\ line' = s /\ pos' = pos + 1 /\ hist' = hist /\ hpos' = hpos /\ modified' = modified
        /\ out' = <<ch>> \o t
    BY DEF Insert
  <1>2. line \in Seq(Chars) /\ Len(line) < MaxLine /\ pos \in 0 .. Len(line) /\ MaxLine \in 0 .. 99 /\ Len(line) \in Nat
    BY <1>1, HistAssumption DEF EditInv, Lines
  <1>3. s \in Seq(Chars) /\ Len(s) = Len(line) + 1
    BY <1>2, InsertIs
  <1> HIDE DEF s
  <1>4. s \in Lines /\ pos + 1 \in 0 .. Len(s) /\ Len(line) - pos \in 0 .. 99
    <2>1. Len(line) \in Nat /\ Len(s) = Len(line) + 1 /\ pos \in 0 .. Len(line) /\ Len(line) < MaxLine /\ MaxLine \in 0 .. 99
      BY <1>2, <1>3
    <2>2. Len(s) <= MaxLine /\ pos + 1 \in 0 .. Len(s) /\ Len(line) - pos \in 0 .. 99
      BY <1>1, <1>3, EditSizes, Sizes
    <2> QED  BY <1>3, <2>2 DEF Lines
  <1>5. t \in Seq(AllBytes)
    <2>1. From(line, pos) \in Seq(AllBytes)
      BY <1>2, FromIs, LineBytes
    <2>2. Left(Len(line) - pos) \in Seq(AllBytes)
      BY <1>4, MoveBytes
    <2> QED  BY <2>1, <2>2, EscBytes, ConcatProperties
  <1> HIDE DEF t
  <1>6. <<ch>> \in Seq(AllBytes)
    BY ConsoleAssumption DEF AllBytes
  <1>7. out' \in Seq(AllBytes)
    BY <1>1, <1>5, <1>6, ConcatProperties
  <1> QED  BY <1>1, <1>4, <1>7 DEF EditInv, s

\* Up and down take a line from the history.
LEMMA RecallEdit ==
    ASSUME EditInv, NEW p \in 0 .. hist.len, p # hpos, Recall(p)
    PROVE  EditInv'
  <1> DEFINE m == [modified EXCEPT ![hpos] = {line}, ![p] = {}]
             s == LineAt(p)
             t == IF line /= <<>> THEN Left(pos) \o <<"ESC", "[", "K">> ELSE <<>>
  <1>1. hist' = hist /\ hpos' = p /\ modified' = m /\ line' = s /\ pos' = Len(s) /\ out' = t \o s
    <2> DEFINE r == IF modified[p] /= {} THEN CHOOSE i \in modified[p] : TRUE ELSE History!Contents(hist)[p + 1]
    <2>1. hist' = hist /\ hpos' = p /\ modified' = m /\ line' = r /\ pos' = Len(r) /\ out' = t \o r
      BY DEF Recall
    <2>2. s = r
      BY DEF LineAt
    <2> HIDE DEF r, s, t, m
    <2> QED  BY <2>1, <2>2
  <1>2. /\ DOMAIN modified = 0 .. HistCap /\ 0 .. hist.len \subseteq 0 .. HistCap /\ hpos \in 0 .. hist.len
        /\ hist.len \in 0 .. HistCap /\ line \in Lines /\ \A i \in 0 .. HistCap : modified[i] \subseteq Lines
    <2>1. hist.len \in 0 .. HistCap /\ HistCap \in Nat
      BY HistAssumption DEF EditInv, HistLines
    <2> QED  BY <2>1 DEF EditInv
  <1>3. /\ DOMAIN m = 0 .. HistCap /\ m[hpos] = {line} /\ m[p] = {}
        /\ \A i \in 0 .. HistCap : i # p /\ i # hpos => m[i] = modified[i]
    BY <1>2
  <1> HIDE DEF m
  <1>4. \A i \in 0 .. HistCap : m[i] \subseteq Lines
    BY <1>2, <1>3
  <1>5. p # hist.len => m[hist.len] # {}
    <2>1. CASE hpos = hist.len
      BY <1>3, <2>1
    <2>2. CASE hpos # hist.len
      BY <1>2, <1>3, <2>2 DEF EditInv
    <2> QED  BY <2>1, <2>2
  <1>6. s \in Lines
    BY LineAtIs
  <1> HIDE DEF s
  <1>7. s \in Seq(Chars) /\ Len(s) \in 0 .. Len(s)
    BY <1>6 DEF Lines
  <1>8. t \in Seq(AllBytes)
    <2>1. pos \in 0 .. 99
      BY HistAssumption DEF EditInv, Lines
    <2>2. Left(pos) \in Seq(AllBytes)
      BY <2>1, MoveBytes
    <2> QED  BY <2>2, EscBytes, ConcatProperties
  <1> HIDE DEF t
  <1>9. out' \in Seq(AllBytes)
    BY <1>1, <1>7, <1>8, LineBytes, ConcatProperties
  <1> QED  BY <1>1, <1>2, <1>3, <1>4, <1>5, <1>6, <1>7, <1>9 DEF EditInv

\* Every arrow key keeps it.
LEMMA ArrowEdit ==
    ASSUME EditInv, out = <<>>, NEW ch, Arrow(ch)
    PROVE  EditInv'
  <1>1. hpos \in 0 .. hist.len /\ hist.len \in Nat /\ pos \in 0 .. Len(line) /\ Len(line) \in Nat
    BY HistAssumption DEF EditInv, HistLines, Lines
  <1>2. CASE ch = "A" /\ hpos # 0 /\ Recall(hpos - 1)
    <2>1. hpos - 1 \in 0 .. hist.len /\ hpos - 1 # hpos
      BY <1>1, <1>2
    <2> QED  BY <1>2, <2>1, RecallEdit
  <1>3. CASE ch = "B" /\ hpos # hist.len /\ Recall(hpos + 1)
    <2>1. hpos + 1 \in 0 .. hist.len /\ hpos + 1 # hpos
      BY <1>1, <1>3
    <2> QED  BY <1>3, <2>1, RecallEdit
  <1>4. ASSUME UNCHANGED <<line, hist, hpos, modified>>, pos' \in 0 .. Len(line), out' \in Seq(AllBytes)
        PROVE  EditInv'
    BY <1>4 DEF EditInv, HistLines
  <1>5. CASE pos # Len(line) /\ pos' = pos + 1 /\ out' = <<"ESC", "[", "C">> /\ UNCHANGED <<line, hist, hpos, modified>>
    <2>1. pos' \in 0 .. Len(line)
      BY <1>1, <1>5
    <2> QED  BY <1>4, <1>5, <2>1, EscBytes
  <1>6. CASE pos # 0 /\ pos' = pos - 1 /\ out' = <<"ESC", "[", "D">> /\ UNCHANGED <<line, hist, hpos, modified>>
    <2>1. pos' \in 0 .. Len(line)
      BY <1>1, <1>6
    <2> QED  BY <1>4, <1>6, <2>1, EscBytes
  <1>7. CASE UNCHANGED <<line, pos, hist, hpos, modified, out>>
    BY <1>7 DEF EditInv, HistLines
  <1> QED  BY <1>2, <1>3, <1>5, <1>6, <1>7 DEF Arrow

\* Every step keeps it.
LEMMA NextEdit ==
    ASSUME EditInv, [Next]_vars
    PROVE  EditInv'
  <1>1. CASE UNCHANGED <<line, pos, hist, hpos, modified, out>>
    BY <1>1 DEF EditInv, HistLines
  <1>2. ASSUME NEW ch, Type(ch) PROVE EditInv'
    <2>1. CASE EscapeChar(ch)
      BY <1>1, <2>1 DEF EscapeChar
    <2>2. CASE Arrow(ch) /\ out = <<>>
      BY <2>2, ArrowEdit
    <2>3. CASE \E o \in Outputs : Enter(o)
      BY <2>3, EnterEdit
    <2>4. CASE Backspace
      BY <2>4, BackspaceEdit
    <2>5. CASE ch \in Chars /\ Insert(ch)
      BY <2>5, InsertEdit
    <2> QED  BY <1>2, <2>1, <2>2, <2>3, <2>4, <2>5 DEF Type, Typed
  <1>3. ASSUME NEW b, WriteAny(b) PROVE EditInv'
    BY <1>1, <1>3 DEF WriteAny, rlVars
  <1>4. CASE WriteOut
    <2>1. out' = Tail(out) /\ out # <<>> /\ UNCHANGED <<line, pos, hist, hpos, modified>>
      BY <1>4 DEF WriteOut
    <2>2. out' \in Seq(AllBytes)
      BY <2>1 DEF EditInv
    <2> QED  BY <2>1, <2>2 DEF EditInv, HistLines
  <1>5. CASE UNCHANGED vars
    BY <1>1, <1>5 DEF vars, rlVars
  <1> QED  BY <1>2, <1>3, <1>4, <1>5 DEF Next

\* The cursor is in the line, lines have their bound, and every place of the history has a line.
THEOREM EditInvariant == Spec => []EditInv
  BY InitEdit, NextEdit, PTL DEF Spec

\* A step of the console is a step of the screen ScreenAbs has, or none.
LEMMA StepScreen ==
    ASSUME EditInv, ScreenInv, [Next]_vars
    PROVE  ScreenInv' /\ (Abs!Next \/ UNCHANGED Abs!vars)
  <1>1. PICK w, h, x, y : VtOK(vt, w, h, x, y)
    BY DEF ScreenInv
  <1>2. ASSUME NEW b \in AllBytes, WriteByte(b) PROVE ScreenInv' /\ (Abs!Next \/ UNCHANGED Abs!vars)
    <2>1. vt' = AfterByte(vt, b) /\ vga' = Redraw(vt') /\ vga = Redraw(vt)
      BY <1>2 DEF WriteByte, ScreenInv
    <2>2. Shift(vt', vt, w, h, x, y)
      BY <1>1, <2>1, ByteShift
    <2>3. (\E x1, y1 : VtOK(vt', w, h, x1, y1)) /\ (Abs!Next \/ UNCHANGED Abs!vars)
      BY <1>1, <2>1, <2>2, ShiftAbs
    <2> QED  BY <2>1, <2>3 DEF ScreenInv
  <1>3. ASSUME UNCHANGED <<vt, vga>> PROVE ScreenInv' /\ UNCHANGED Abs!vars
    BY <1>3 DEF ScreenInv, Abs!vars
  <1>4. ASSUME NEW b \in TextBytes \cup SeqBytes, WriteAny(b) PROVE ScreenInv' /\ (Abs!Next \/ UNCHANGED Abs!vars)
    <2>1. b \in AllBytes
      BY ConsoleAssumption
    <2> QED  BY <1>2, <1>4, <2>1 DEF WriteAny
  <1>5. CASE WriteOut
    <2>1. Head(out) \in AllBytes
      BY <1>5 DEF WriteOut, EditInv
    <2> QED  BY <1>2, <1>5, <2>1 DEF WriteOut
  <1>6. ASSUME NEW ch, Type(ch) PROVE ScreenInv' /\ UNCHANGED Abs!vars
    BY <1>3, <1>6 DEF Type
  <1>7. CASE UNCHANGED vars
    BY <1>3, <1>7 DEF vars
  <1> QED  BY <1>4, <1>5, <1>6, <1>7 DEF Next

\* The cursor stays on the screen, and the display shows the terminal.
THEOREM ScreenInvariant == Spec => []ScreenInv
  BY InitScreen, StepScreen, EditInvariant, PTL DEF Spec

\* The terminal implements ScreenAbs: the ring of rows, the parser and the redraw are not seen.
THEOREM ScreenRefines == Spec => ImplementsScreen
  <1>1. Init => Abs!Init
    BY InitScreen
  <1>2. EditInv /\ ScreenInv /\ [Next]_vars => [Abs!Next]_Abs!vars
    BY StepScreen
  <1> QED  BY <1>1, <1>2, EditInvariant, ScreenInvariant, PTL DEF Spec, ImplementsScreen, Abs!Spec

----------------------------------------------------------------------------
(* Strings of bytes. *)

\* Induction, for a set of numbers.
LEMMA NatInduct ==
    ASSUME NEW S, 0 \in S, \A n \in Nat : n \in S => n + 1 \in S
    PROVE  Nat \subseteq S
  <1> DEFINE T == Nat \ S
  <1> SUFFICES ASSUME T # {} PROVE FALSE
    BY Zenon
  <1>1. IsWellFoundedOn(OpToRel(<, Nat), Nat)
    BY NatLessThanWellFounded, Zenon
  <1>2. T \subseteq Nat
    OBVIOUS
  <1> HIDE DEF T
  <1>3. PICK x \in T : \A y \in T : ~(<<y, x>> \in OpToRel(<, Nat))
    BY <1>1, <1>2, WFMin
  <1>4. x \in Nat /\ x \notin S /\ x # 0
    BY <1>3 DEF T
  <1>5. x - 1 \in Nat /\ x - 1 < x
    BY <1>4
  <1>6. <<x - 1, x>> \in OpToRel(<, Nat)
    BY <1>4, <1>5 DEF OpToRel
  <1>7. x - 1 \in S
    BY <1>3, <1>5, <1>6 DEF T
  <1>8. (x - 1) + 1 \in S
    BY <1>5, <1>7
  <1> QED  BY <1>4, <1>8

\* The same up to a bound.
LEMMA UpInduct ==
    ASSUME NEW S, NEW m \in Nat, 0 \in S, \A n \in 0 .. m - 1 : n \in S => n + 1 \in S
    PROVE  0 .. m \subseteq S
  <1> DEFINE T == S \cup {n \in Nat : n > m}
  <1>1. 0 \in T
    OBVIOUS
  <1>2. ASSUME NEW n \in Nat, n \in T PROVE n + 1 \in T
    <2>1. CASE n < m
      BY <1>2, <2>1
    <2>2. CASE n >= m
      BY <1>2, <2>2
    <2> QED  BY <2>1, <2>2
  <1> HIDE DEF T
  <1>3. Nat \subseteq T
    BY <1>1, <1>2, NatInduct
  <1> QED  BY <1>3 DEF T


\* u is what v becomes when the first k bytes of bs are written to it.
ReachN(v, bs, k, u) ==
  \E f : f[0] = v /\ f[k] = u /\ \A i \in 1 .. k : f[i] = AfterByte(f[i - 1], bs[i])
Reach(v, bs, u) == ReachN(v, bs, Len(bs), u)

\* No byte.
LEMMA ReachNone == ASSUME NEW v, NEW bs PROVE ReachN(v, bs, 0, v)
  <1> DEFINE f == [i \in {0} |-> v]
  <1>1. f[0] = v /\ \A i \in 1 .. 0 : f[i] = AfterByte(f[i - 1], bs[i])
    OBVIOUS
  <1> QED  BY <1>1 DEF ReachN

\* One more byte.
LEMMA ReachMore ==
    ASSUME NEW v, NEW bs, NEW k \in Nat, NEW u, ReachN(v, bs, k, u)
    PROVE  ReachN(v, bs, k + 1, AfterByte(u, bs[k + 1]))
  <1>1. PICK f : f[0] = v /\ f[k] = u /\ \A i \in 1 .. k : f[i] = AfterByte(f[i - 1], bs[i])
    BY DEF ReachN
  <1> DEFINE g == [i \in 0 .. k + 1 |-> IF i <= k THEN f[i] ELSE AfterByte(u, bs[k + 1])]
  <1>2. \A i \in 0 .. k : g[i] = f[i]
    OBVIOUS
  <1>3. g[k + 1] = AfterByte(u, bs[k + 1])
    OBVIOUS
  <1> HIDE DEF g
  <1>4. g[0] = v
    BY <1>1, <1>2
  <1>5. ASSUME NEW i \in 1 .. k + 1 PROVE g[i] = AfterByte(g[i - 1], bs[i])
    <2>1. CASE i <= k
      <3>1. i \in 1 .. k /\ i \in 0 .. k /\ i - 1 \in 0 .. k
        BY <2>1
      <3> QED  BY <1>1, <1>2, <3>1
    <2>2. CASE ~(i <= k)
      <3>1. i = k + 1 /\ i - 1 = k /\ k \in 0 .. k
        BY <2>2
      <3>2. g[i - 1] = u
        BY <1>1, <1>2, <3>1
      <3> QED  BY <1>3, <3>1, <3>2
    <2> QED  BY <2>1, <2>2
  <1> QED  BY <1>3, <1>4, <1>5 DEF ReachN

\* The empty string.
LEMMA ReachNil == ASSUME NEW v PROVE Reach(v, <<>>, v) /\ \A u : Reach(v, <<>>, u) => u = v
  <1>1. Len(<<>>) = 0
    OBVIOUS
  <1>2. Reach(v, <<>>, v)
    BY <1>1, ReachNone DEF Reach
  <1>3. ASSUME NEW u, Reach(v, <<>>, u) PROVE u = v
    BY <1>1, <1>3 DEF Reach, ReachN
  <1> QED  BY <1>2, <1>3

\* One byte.
LEMMA ReachOne == ASSUME NEW v, NEW b PROVE Reach(v, <<b>>, AfterByte(v, b))
  <1>1. Len(<<b>>) = 0 + 1 /\ <<b>>[0 + 1] = b /\ 0 \in Nat
    OBVIOUS
  <1>2. ReachN(v, <<b>>, 0, v)
    BY ReachNone
  <1>3. ReachN(v, <<b>>, 0 + 1, AfterByte(v, <<b>>[0 + 1]))
    BY <1>1, <1>2, ReachMore
  <1> QED  BY <1>1, <1>3 DEF Reach

\* One piece after the other.
LEMMA ReachCat ==
    ASSUME NEW S, NEW a \in Seq(S), NEW b \in Seq(S), NEW v, NEW u, NEW t, Reach(v, a, u), Reach(u, b, t)
    PROVE  Reach(v, a \o b, t)
  <1> DEFINE c == a \o b
             m == Len(a)
             n == Len(b)
  <1>1. m \in Nat /\ n \in Nat /\ Len(c) = m + n /\ (\A i \in 1 .. m : c[i] = a[i]) /\ \A i \in 1 .. n : c[m + i] = b[i]
    OBVIOUS
  <1>2. PICK f : f[0] = v /\ f[m] = u /\ \A i \in 1 .. m : f[i] = AfterByte(f[i - 1], a[i])
    BY DEF Reach, ReachN
  <1>3. PICK g : g[0] = u /\ g[n] = t /\ \A i \in 1 .. n : g[i] = AfterByte(g[i - 1], b[i])
    BY DEF Reach, ReachN
  <1> HIDE DEF c, m, n
  <1> DEFINE k == [i \in 0 .. m + n |-> IF i <= m THEN f[i] ELSE g[i - m]]
  <1>4. (\A i \in 0 .. m : k[i] = f[i]) /\ \A i \in 0 .. n : k[m + i] = g[i]
    <2>1. \A i \in 0 .. m : k[i] = f[i]
      BY <1>1
    <2>2. ASSUME NEW i \in 0 .. n PROVE k[m + i] = g[i]
      <3>1. CASE i = 0
        <4>1. m + i = m /\ m \in 0 .. m
          BY <1>1, <3>1
        <4> HIDE DEF k
        <4> QED  BY <1>2, <1>3, <2>1, <3>1, <4>1
      <3>2. CASE i # 0
        <4>1. m + i \in 0 .. m + n /\ ~(m + i <= m) /\ (m + i) - m = i
          BY <1>1, <3>2
        <4> QED  BY <4>1
      <3> QED  BY <3>1, <3>2
    <2> QED  BY <2>1, <2>2
  <1> HIDE DEF k
  <1>5. k[0] = v /\ k[m + n] = t
    <2>1. 0 \in 0 .. m /\ n \in 0 .. n
      BY <1>1
    <2> QED  BY <1>2, <1>3, <1>4, <2>1
  <1>6. ASSUME NEW i \in 1 .. m + n PROVE k[i] = AfterByte(k[i - 1], c[i])
    <2>1. CASE i <= m
      <3>1. i \in 1 .. m /\ i \in 0 .. m /\ i - 1 \in 0 .. m
        BY <1>1, <2>1
      <3> QED  BY <1>1, <1>2, <1>4, <3>1
    <2>2. CASE ~(i <= m)
      <3> DEFINE j == i - m
      <3>1. j \in 1 .. n /\ j \in 0 .. n /\ j - 1 \in 0 .. n /\ m + j = i /\ m + (j - 1) = i - 1
        BY <1>1, <2>2
      <3> HIDE DEF j
      <3>2. k[i] = g[j] /\ k[i - 1] = g[j - 1] /\ c[i] = b[j]
        BY <1>1, <1>4, <3>1
      <3> QED  BY <1>3, <3>1, <3>2
    <2> QED  BY <2>1, <2>2
  <1>7. ReachN(v, c, m + n, t)
    BY <1>5, <1>6 DEF ReachN
  <1> QED  BY <1>1, <1>7 DEF Reach, c

\* Once the first byte is written the others are still to come.
LEMMA ReachRest ==
    ASSUME NEW S, NEW bs \in Seq(S), bs # <<>>, NEW v, NEW u, Reach(v, bs, u)
    PROVE  Reach(AfterByte(v, Head(bs)), Tail(bs), u)
  <1> DEFINE n == Len(bs)
             t == Tail(bs)
  <1>1. n \in Nat /\ n > 0 /\ Len(t) = n - 1 /\ Head(bs) = bs[1] /\ \A i \in 1 .. n - 1 : t[i] = bs[i + 1]
    OBVIOUS
  <1>2. PICK f : f[0] = v /\ f[n] = u /\ \A i \in 1 .. n : f[i] = AfterByte(f[i - 1], bs[i])
    BY DEF Reach, ReachN
  <1> HIDE DEF n, t
  <1> DEFINE g == [i \in 0 .. n - 1 |-> f[i + 1]]
  <1>3. \A i \in 0 .. n - 1 : g[i] = f[i + 1]
    OBVIOUS
  <1> HIDE DEF g
  <1>4. g[0] = AfterByte(v, Head(bs)) /\ g[n - 1] = u
    <2>1. 0 \in 0 .. n - 1 /\ n - 1 \in 0 .. n - 1 /\ (n - 1) + 1 = n /\ 0 + 1 = 1 /\ 1 \in 1 .. n /\ 1 - 1 = 0
      BY <1>1
    <2> QED  BY <1>1, <1>2, <1>3, <2>1
  <1>5. ASSUME NEW i \in 1 .. n - 1 PROVE g[i] = AfterByte(g[i - 1], t[i])
    <2>1. i \in 0 .. n - 1 /\ i - 1 \in 0 .. n - 1 /\ (i - 1) + 1 = i /\ i + 1 \in 1 .. n /\ (i + 1) - 1 = i
      BY <1>1
    <2> QED  BY <1>1, <1>2, <1>3, <2>1
  <1>6. ReachN(AfterByte(v, Head(bs)), t, n - 1, u)
    BY <1>4, <1>5 DEF ReachN
  <1> QED  BY <1>1, <1>6 DEF Reach, t

----------------------------------------------------------------------------
(* The row of the cursor. *)

\* The columns and rows of the console's terminal.
SW == ShellSize[1]
SH == ShellSize[2]
Cols == 0 .. SW - 1

\* There are at least two rows.
LEMMA ShellDims == SW \in Nat \ {0} /\ SH \in Nat \ {0, 1} /\ ShellSize = <<SW, SH>>
  BY ConsoleAssumption DEF SW, SH

\* The cursor is at x of a row that shows F, and the rows below it are blank.
BlankBelow(v, y) == \A z \in 0 .. SH - 1, s \in Cols : z > y => Shown(v, s, z)[1] = " "
RowIs(v, y, F) == \A s \in Cols : Shown(v, s, y)[1] = F[s]
Calm(v, x, y) == VtOK(v, SW, SH, x, y) /\ BlankBelow(v, y)
Body(v, F, x) == \E y : Calm(v, x, y) /\ RowIs(v, y, F)
\* No sequence is being read.
Idle(v) == v.ansi.state = "Normal"
\* A row with nothing on it.
EmptyRow == [s \in Cols |-> " "]

\* The terminal once its parser took the byte.
Parsed(v, b) == [v EXCEPT !.ansi = AnsiState(v.ansi, b)]

\* A byte goes to the parser first, and then what the parser asks for is done.
LEMMA ParsedIs ==
    ASSUME NEW v, NEW w, NEW h, NEW x, NEW y, VtOK(v, w, h, x, y), NEW b
    PROVE  LET p == Parsed(v, b)
           IN  /\ VtOK(p, w, h, x, y) /\ Same(p, v, w, h) /\ p.ansi = AnsiState(v.ansi, b)
               /\ AfterByte(v, b) = Perform(p, AnsiAction(v.ansi, b))
  <1> DEFINE p == Parsed(v, b)
  <1>1. AfterByte(v, b) = Perform(p, AnsiAction(v.ansi, b))
    BY DEF AfterByte, Parsed
  <1>2. DOMAIN v = VtFields /\ v.cursor_pos = <<x, y>> /\ x \in 0 .. w - 1 /\ y \in 0 .. h - 1
    BY DEF VtOK, Grid
  <1>3. /\ DOMAIN p = DOMAIN v /\ p.size = v.size /\ p.buf = v.buf /\ p.buf_line = v.buf_line
        /\ p.cursor_pos = <<x, y>> /\ p.ansi = AnsiState(v.ansi, b)
    BY <1>2, Fields DEF Parsed
  <1> HIDE DEF p
  <1>5. VtOK(p, w, h, x, y) /\ Same(p, v, w, h)
    BY <1>2, <1>3, SameCells
  <1> QED  BY <1>1, <1>3, <1>5 DEF p

\* The parser alone disturbs nothing.
LEMMA CalmParsed ==
    ASSUME NEW v, NEW x, NEW y, Calm(v, x, y), NEW b
    PROVE  LET p == Parsed(v, b)
           IN  /\ Calm(p, x, y) /\ p.ansi = AnsiState(v.ansi, b)
               /\ AfterByte(v, b) = Perform(p, AnsiAction(v.ansi, b))
               /\ \A F : RowIs(v, y, F) => RowIs(p, y, F)
  <1> DEFINE p == Parsed(v, b)
  <1>1. VtOK(v, SW, SH, x, y) /\ BlankBelow(v, y) /\ y \in 0 .. SH - 1
    BY DEF Calm, VtOK
  <1>2. /\ VtOK(p, SW, SH, x, y) /\ Same(p, v, SW, SH) /\ p.ansi = AnsiState(v.ansi, b)
        /\ AfterByte(v, b) = Perform(p, AnsiAction(v.ansi, b))
    BY <1>1, ParsedIs
  <1> HIDE DEF p
  <1>3. Calm(p, x, y)
    BY <1>1, <1>2 DEF Calm, BlankBelow, Same, Cols
  <1>4. \A F : RowIs(v, y, F) => RowIs(p, y, F)
    BY <1>1, <1>2 DEF RowIs, Same, Cols
  <1> QED  BY <1>2, <1>3, <1>4 DEF p

\* A byte that only changes the parser.
LEMMA QuietByte ==
    ASSUME NEW v, NEW F, NEW x, Body(v, F, x), NEW b, AnsiAction(v.ansi, b) = NoAction
    PROVE  Body(AfterByte(v, b), F, x) /\ AfterByte(v, b).ansi = AnsiState(v.ansi, b)
  <1>1. PICK y : Calm(v, x, y) /\ RowIs(v, y, F)
    BY DEF Body
  <1> DEFINE p == Parsed(v, b)
  <1>2. Calm(p, x, y) /\ p.ansi = AnsiState(v.ansi, b) /\ RowIs(p, y, F) /\ AfterByte(v, b) = Perform(p, NoAction)
    BY <1>1, CalmParsed
  <1> HIDE DEF p
  <1>3. Perform(p, NoAction) = p
    BY DEF Perform, NoAction
  <1> QED  BY <1>2, <1>3 DEF Body

\* A byte that moves the cursor along the row.
LEMMA MoveByte ==
    ASSUME NEW v, NEW F, NEW x, Body(v, F, x), NEW b, NEW n \in Nat, NEW d \in {"left", "right"},
           AnsiAction(v.ansi, b) = Move(d, n), NEW x1 \in Cols,
           (d = "left" /\ x1 + n = x) \/ (d = "right" /\ x1 = x + n)
    PROVE  Body(AfterByte(v, b), F, x1) /\ AfterByte(v, b).ansi = AnsiState(v.ansi, b)
  <1>1. PICK y : Calm(v, x, y) /\ RowIs(v, y, F)
    BY DEF Body
  <1> DEFINE p == Parsed(v, b)
             u == [p EXCEPT !.cursor_pos = <<x1, y>>]
  <1>2. Calm(p, x, y) /\ p.ansi = AnsiState(v.ansi, b) /\ RowIs(p, y, F) /\ AfterByte(v, b) = Perform(p, Move(d, n))
    BY <1>1, CalmParsed
  <1> HIDE DEF p
  <1>3. /\ p.cursor_pos[1] = x /\ p.cursor_pos[2] = y /\ p.size[1] = SW /\ p.size[2] = SH /\ x \in 0 .. SW - 1 /\ y \in 0 .. SH - 1
        /\ VtOK(p, SW, SH, x, y) /\ BlankBelow(p, y)
    BY <1>2 DEF Calm, VtOK, Grid
  <1>4. Move(d, n).op = d /\ Move(d, n).n = n
    BY DEF Move
  <1>5. Perform(p, Move(d, n)) = u
    <2>1. CASE d = "left"
      <3>1. Monus(x, n) = x1
        BY <1>3, <2>1, ShellDims DEF Monus, Cols
      <3> QED  BY <1>3, <1>4, <2>1, <3>1 DEF Perform
    <2>2. CASE d = "right"
      <3>1. Min2(x + n, SW - 1) = x1
        BY <1>3, <2>2, ShellDims DEF Min2, Cols
      <3> QED  BY <1>3, <1>4, <2>2, <3>1 DEF Perform
    <2> QED  BY <2>1, <2>2
  <1>6. VtOK(u, SW, SH, x1, y) /\ Same(u, p, SW, SH) /\ u.ansi = p.ansi
    BY <1>3, CursorOnly DEF Cols
  <1> HIDE DEF u
  <1>7. Calm(u, x1, y) /\ RowIs(u, y, F)
    <2>1. \A s \in Cols, z \in 0 .. SH - 1 : Shown(u, s, z) = Shown(p, s, z)
      BY <1>6 DEF Same, Cols
    <2>2. RowIs(u, y, F)
      BY <1>2, <1>3, <2>1 DEF RowIs
    <2>3. BlankBelow(u, y)
      BY <1>3, <2>1 DEF BlankBelow
    <2> QED  BY <1>6, <2>2, <2>3 DEF Calm
  <1> QED  BY <1>2, <1>5, <1>6, <1>7 DEF Body

\* A byte that clears the row from the cursor on.
Cut(G, F, x) == \A s \in Cols : G[s] = IF s >= x THEN " " ELSE F[s]

\* EraseToLineEnd.
LEMMA EraseByte ==
    ASSUME NEW v, NEW F, NEW x, Body(v, F, x), NEW b, AnsiAction(v.ansi, b) = Erase,
           NEW G, Cut(G, F, x)
    PROVE  Body(AfterByte(v, b), G, x) /\ AfterByte(v, b).ansi = AnsiState(v.ansi, b)
  <1>1. PICK y : Calm(v, x, y) /\ RowIs(v, y, F)
    BY DEF Body
  <1> DEFINE p == Parsed(v, b)
             u == ClearRange(p, Off(p, x, y), Off(p, 0, y + 1))
  <1>2. Calm(p, x, y) /\ p.ansi = AnsiState(v.ansi, b) /\ RowIs(p, y, F) /\ AfterByte(v, b) = Perform(p, Erase)
    BY <1>1, CalmParsed
  <1> HIDE DEF p
  <1>3. p.cursor_pos[1] = x /\ p.cursor_pos[2] = y /\ y \in 0 .. SH - 1 /\ VtOK(p, SW, SH, x, y) /\ BlankBelow(p, y)
    <2>1. VtOK(p, SW, SH, x, y) /\ BlankBelow(p, y)
      BY <1>2 DEF Calm
    <2>2. p.cursor_pos = <<x, y>> /\ y \in 0 .. SH - 1
      BY <2>1 DEF VtOK
    <2>3. p.cursor_pos[1] = x /\ p.cursor_pos[2] = y
      BY ONLY <2>2
    <2> QED  BY ONLY <2>1, <2>2, <2>3
  <1>4. Perform(p, Erase) = u
    BY <1>3 DEF Perform, Erase
  <1>5. Erased(u, p, SW, SH, x, y)
    BY <1>3, EraseIs
  <1> HIDE DEF u
  <1>6. Wiped(u, p, SW, SH, x, y) /\ VtOK(u, SW, SH, x, y) /\ u.ansi = p.ansi
    BY <1>5, WipeShows DEF Erased, Alike
  <1>7. \A s \in Cols, z \in 0 .. SH - 1 : Shown(u, s, z) = IF z = y /\ s >= x THEN Tile(p, " ") ELSE Shown(p, s, z)
    BY <1>6 DEF Wiped, Cols
  <1>8. Tile(p, " ")[1] = " "
    BY DEF Tile
  <1>9. RowIs(u, y, G)
    BY <1>2, <1>3, <1>7, <1>8 DEF RowIs, Cut
  <1>10. BlankBelow(u, y)
    BY <1>3, <1>7, <1>8 DEF BlankBelow
  <1> QED  BY <1>2, <1>4, <1>6, <1>9, <1>10 DEF Body, Calm

\* The printable characters.
LEMMA PrintableIs ==
    Printable = {" ", "A", "B", "C", "D", "H", "K", "m", "x", "y", ">", "[", ";", "~",
                 "0", "1", "2", "3", "4", "5", "6", "7", "8", "9"}
  <1>1. DOMAIN Digits = 1 .. 10
    BY DEF Digits
  <1>2. \A i \in 1 .. 10 : i = 1 \/ i = 2 \/ i = 3 \/ i = 4 \/ i = 5 \/ i = 6 \/ i = 7 \/ i = 8 \/ i = 9 \/ i = 10
    OBVIOUS
  <1>3. /\ Digits[1] = "0" /\ Digits[2] = "1" /\ Digits[3] = "2" /\ Digits[4] = "3" /\ Digits[5] = "4"
        /\ Digits[6] = "5" /\ Digits[7] = "6" /\ Digits[8] = "7" /\ Digits[9] = "8" /\ Digits[10] = "9"
    BY DEF Digits
  <1>4. \A b : b \in {Digits[i] : i \in 1 .. 10} <=> b \in {"0", "1", "2", "3", "4", "5", "6", "7", "8", "9"}
    <2>1. \A i \in 1 .. 10 : Digits[i] \in {"0", "1", "2", "3", "4", "5", "6", "7", "8", "9"}
      BY <1>2, <1>3
    <2>2. ASSUME NEW b \in {"0", "1", "2", "3", "4", "5", "6", "7", "8", "9"} PROVE \E i \in 1 .. 10 : Digits[i] = b
      <3>1. /\ 1 \in 1 .. 10 /\ 2 \in 1 .. 10 /\ 3 \in 1 .. 10 /\ 4 \in 1 .. 10 /\ 5 \in 1 .. 10
            /\ 6 \in 1 .. 10 /\ 7 \in 1 .. 10 /\ 8 \in 1 .. 10 /\ 9 \in 1 .. 10 /\ 10 \in 1 .. 10
        OBVIOUS
      <3> QED  BY <1>3, <3>1, Zenon
    <2> QED  BY <2>1, <2>2
  <1>5. {Digits[i] : i \in DOMAIN Digits} = {"0", "1", "2", "3", "4", "5", "6", "7", "8", "9"}
    BY <1>1, <1>4
  <1> QED  BY <1>5 DEF Printable

\* What the parser makes of a printable character and of a line feed.
LEMMA PlainByte ==
    ASSUME NEW p, p.state = "Normal", NEW b \in Printable \cup {"NL"}
    PROVE  AnsiState(p, b) = p /\ AnsiAction(p, b) = WriteCh(b)
  <1>1. b # "ESC" /\ LeadLength(b) = 1
    BY PrintableIs DEF LeadLength
  <1> QED  BY <1>1 DEF AnsiState, AnsiAction

\* A printable character looks like itself.
LEMMA PlainShown == ASSUME NEW ch \in Printable PROVE Glyph(ch) = ch /\ ch \notin {"NL", "BS", "CTL"}
  BY PrintableIs DEF Glyph

\* A character in the row, before its end.
LEMMA CharByte ==
    ASSUME NEW v, NEW F, NEW x, Body(v, F, x), Idle(v), NEW ch \in Printable, x < SW - 1,
           NEW G, \A s \in Cols : G[s] = IF s = x THEN ch ELSE F[s]
    PROVE  Body(AfterByte(v, ch), G, x + 1) /\ Idle(AfterByte(v, ch))
  <1>1. PICK y : Calm(v, x, y) /\ RowIs(v, y, F)
    BY DEF Body
  <1> DEFINE p == Parsed(v, ch)
             u == WriteChar(p, ch)
  <1>0. AnsiState(v.ansi, ch) = v.ansi /\ AnsiAction(v.ansi, ch) = WriteCh(ch)
    BY PlainByte DEF Idle
  <1>2. Calm(p, x, y) /\ p.ansi = v.ansi /\ RowIs(p, y, F) /\ AfterByte(v, ch) = Perform(p, WriteCh(ch))
    BY <1>0, <1>1, CalmParsed
  <1> HIDE DEF p
  <1>3. VtOK(p, SW, SH, x, y) /\ BlankBelow(p, y)
    BY <1>2 DEF Calm
  <1>4. x \in 0 .. SW - 1 /\ y \in 0 .. SH - 1
    BY <1>3 DEF VtOK
  <1>5. Perform(p, WriteCh(ch)) = u
    BY DEF Perform, WriteCh
  <1>6. Glyph(ch) = ch /\ ch \notin {"NL", "BS", "CTL"}
    BY PlainShown
  <1>7. Drew(u, p, SW, SH, x, y, ch) /\ u.ansi = p.ansi
    BY <1>3, <1>6, CharIs
  <1> HIDE DEF u
  <1>8. x # SW - 1
    BY <1>4, ShellDims
  <1>9. VtOK(u, SW, SH, x + 1, y) /\ PutOn(u, p, SW, SH, x, y, ch)
    BY <1>6, <1>7, <1>8 DEF Drew
  <1>10. \A s \in Cols, z \in 0 .. SH - 1 : Shown(u, s, z) = IF s = x /\ z = y THEN Tile(p, ch) ELSE Shown(p, s, z)
    BY <1>9 DEF PutOn, Cols, With
  <1>11. Tile(p, ch)[1] = ch
    BY DEF Tile
  <1>12. RowIs(u, y, G)
    BY <1>2, <1>4, <1>10, <1>11 DEF RowIs
  <1>13. \A z \in 0 .. SH - 1 : z > y => z # y
    BY <1>4, ShellDims
  <1>14. BlankBelow(u, y)
    BY <1>3, <1>10, <1>13 DEF BlankBelow
  <1> QED  BY <1>2, <1>5, <1>7, <1>9, <1>12, <1>14 DEF Body, Calm, Idle

\* A character anywhere leaves the rows below the cursor blank.
LEMMA AnyChar ==
    ASSUME NEW v, NEW x, NEW y, Calm(v, x, y), Idle(v), NEW ch \in Printable
    PROVE  (\E x1, y1 : Calm(AfterByte(v, ch), x1, y1)) /\ Idle(AfterByte(v, ch))
  <1> DEFINE p == Parsed(v, ch)
             u == WriteChar(p, ch)
  <1>0. AnsiState(v.ansi, ch) = v.ansi /\ AnsiAction(v.ansi, ch) = WriteCh(ch)
    BY PlainByte DEF Idle
  <1>2. Calm(p, x, y) /\ p.ansi = v.ansi /\ AfterByte(v, ch) = Perform(p, WriteCh(ch))
    BY <1>0, CalmParsed
  <1> HIDE DEF p
  <1>3. VtOK(p, SW, SH, x, y) /\ BlankBelow(p, y)
    BY <1>2 DEF Calm
  <1>4. x \in 0 .. SW - 1 /\ y \in 0 .. SH - 1
    BY <1>3 DEF VtOK
  <1>5. Perform(p, WriteCh(ch)) = u
    BY DEF Perform, WriteCh
  <1>6. Glyph(ch) = ch /\ ch \notin {"NL", "BS", "CTL"}
    BY PlainShown
  <1>7. Drew(u, p, SW, SH, x, y, ch) /\ u.ansi = p.ansi
    BY <1>3, <1>6, CharIs
  <1> HIDE DEF u
  <1>8. Tile(p, " ")[1] = " "
    BY DEF Tile
  <1>9. CASE VtOK(u, SW, SH, x + 1, y) /\ PutOn(u, p, SW, SH, x, y, ch)
    <2>1. \A s \in Cols, z \in 0 .. SH - 1 : z # y => Shown(u, s, z) = Shown(p, s, z)
      BY <1>9 DEF PutOn, Cols, With
    <2>2. \A z \in 0 .. SH - 1 : z > y => z # y
      BY <1>4, ShellDims
    <2>3. BlankBelow(u, y)
      BY <1>3, <2>1, <2>2 DEF BlankBelow
    <2> QED  BY <1>2, <1>5, <1>7, <1>9, <2>3 DEF Calm, Idle
  <1>10. CASE VtOK(u, SW, SH, 0, Next1(y, SH)) /\ PutEnd(u, p, SW, SH, x, y, ch)
    <2>1. CASE y < SH - 1
      <3>1. \A s \in Cols, z \in 0 .. SH - 1 : z # y => Shown(u, s, z) = Shown(p, s, z)
        BY <1>10, <2>1 DEF PutEnd, Cols, With
      <3>2. Next1(y, SH) = y + 1
        BY <2>1 DEF Next1
      <3>3. \A z \in 0 .. SH - 1 : z > y + 1 => z # y /\ z > y
        BY <1>4, ShellDims
      <3>4. BlankBelow(u, Next1(y, SH))
        BY <1>3, <3>1, <3>2, <3>3 DEF BlankBelow
      <3> QED  BY <1>2, <1>5, <1>7, <1>10, <3>4 DEF Calm, Idle
    <2>2. CASE ~(y < SH - 1)
      <3>1. Next1(y, SH) = SH - 1 /\ \A z \in 0 .. SH - 1 : ~(z > SH - 1)
        BY <2>2, ShellDims DEF Next1
      <3>2. BlankBelow(u, Next1(y, SH))
        BY <3>1 DEF BlankBelow
      <3> QED  BY <1>2, <1>5, <1>7, <1>10, <3>2 DEF Calm, Idle
    <2> QED  BY <2>1, <2>2
  <1> QED  BY <1>6, <1>7, <1>9, <1>10 DEF Drew

\* A line feed gives an empty row.
LEMMA FeedByte ==
    ASSUME NEW v, NEW x, NEW y, Calm(v, x, y), Idle(v)
    PROVE  Body(AfterByte(v, "NL"), EmptyRow, 0) /\ Idle(AfterByte(v, "NL"))
  <1> DEFINE p == Parsed(v, "NL")
             u == NewLine(p)
  <1>0. AnsiState(v.ansi, "NL") = v.ansi /\ AnsiAction(v.ansi, "NL") = WriteCh("NL")
    BY PlainByte DEF Idle
  <1>2. Calm(p, x, y) /\ p.ansi = v.ansi /\ AfterByte(v, "NL") = Perform(p, WriteCh("NL"))
    BY <1>0, CalmParsed
  <1> HIDE DEF p
  <1>3. VtOK(p, SW, SH, x, y) /\ BlankBelow(p, y)
    BY <1>2 DEF Calm
  <1>4. x \in 0 .. SW - 1 /\ y \in 0 .. SH - 1 /\ Grid(p, SW, SH) /\ p.cursor_pos[2] = y
    BY <1>3 DEF VtOK
  <1>5. Perform(p, WriteCh("NL")) = u
    <2>1. Perform(p, WriteCh("NL")) = WriteChar(p, "NL")
      BY DEF Perform, WriteCh
    <2>2. WriteChar(p, "NL") = NewLine(p)
      BY DEF WriteChar
    <2> QED  BY <2>1, <2>2
  <1>6. NewLined(u, p, SW, SH, y)
    BY <1>4, NewLineIs
  <1> HIDE DEF u
  <1>7. LineOn(u, p, SW, SH, y) /\ VtOK(u, SW, SH, 0, Next1(y, SH)) /\ u.ansi = p.ansi
    BY <1>6, LineShows DEF NewLined, Next1
  <1>8. Tile(p, " ")[1] = " "
    BY DEF Tile
  <1>9. \A s \in Cols : EmptyRow[s] = " "
    BY DEF EmptyRow
  <1>10. RowIs(u, Next1(y, SH), EmptyRow) /\ BlankBelow(u, Next1(y, SH))
    <2>1. CASE y < SH - 1
      <3>1. \A s \in Cols, z \in 0 .. SH - 1 : Shown(u, s, z) = Shown(p, s, z)
        BY <1>7, <2>1 DEF LineOn, Cols
      <3>2. Next1(y, SH) = y + 1 /\ y + 1 \in 0 .. SH - 1 /\ y + 1 > y
        BY <1>4, <2>1, ShellDims DEF Next1
      <3>3. \A z \in 0 .. SH - 1 : z > y + 1 => z > y
        BY <1>4, ShellDims
      <3>4. BlankBelow(u, y + 1)
        BY <1>3, <3>1, <3>3 DEF BlankBelow
      <3>5. RowIs(u, y + 1, EmptyRow)
        BY <1>3, <1>9, <3>1, <3>2 DEF BlankBelow, RowIs
      <3> QED  BY <3>2, <3>4, <3>5
    <2>2. CASE ~(y < SH - 1)
      <3>1. Next1(y, SH) = SH - 1 /\ SH - 1 \in 0 .. SH - 1 /\ ~(SH - 1 < SH - 1) /\ \A z \in 0 .. SH - 1 : ~(z > SH - 1)
        BY <2>2, ShellDims DEF Next1
      <3>2. BlankBelow(u, Next1(y, SH))
        BY <3>1 DEF BlankBelow
      <3>3. \A s \in Cols : Shown(u, s, SH - 1) = Tile(p, " ")
        BY <1>7, <2>2, <3>1 DEF LineOn, Cols
      <3> QED  BY <1>8, <1>9, <3>1, <3>2, <3>3 DEF RowIs
    <2> QED  BY <2>1, <2>2
  <1> QED  BY <1>2, <1>5, <1>7, <1>10 DEF Body, Calm, Idle

\* The cursor is on the screen.
LEMMA BodyCol == ASSUME NEW v, NEW F, NEW x, Body(v, F, x) PROVE x \in Cols /\ x \in Nat
  <1>1. x \in 0 .. SW - 1
    BY DEF Body, Calm, VtOK
  <1> QED  BY <1>1, ShellDims DEF Cols

\* A row with k characters of t written from x on.
RowAt(F, x, t, k) == [s \in Cols |-> IF x <= s /\ s < x + k THEN t[s - x + 1] ELSE F[s]]

\* Text goes to the row, as long as it fits.
LEMMA TextReach ==
    ASSUME NEW v, NEW F, NEW x, Body(v, F, x), Idle(v), NEW t \in Seq(Printable), x + Len(t) <= SW - 1
    PROVE  \E u : Reach(v, t, u) /\ Body(u, RowAt(F, x, t, Len(t)), x + Len(t)) /\ Idle(u)
  <1> DEFINE n == Len(t)
             K == {k \in 0 .. n : \E u : ReachN(v, t, k, u) /\ Body(u, RowAt(F, x, t, k), x + k) /\ Idle(u)}
  <1>1. n \in Nat /\ x \in Nat /\ SW \in Nat /\ x + n <= SW - 1
    BY BodyCol, ShellDims
  <1>2. 0 \in K
    <2>1. \A s \in Cols : RowAt(F, x, t, 0)[s] = F[s]
      <3>1. \A s \in Cols : ~(x <= s /\ s < x + 0)
        BY <1>1 DEF Cols
      <3> QED  BY <3>1 DEF RowAt
    <2>2. \A y : RowIs(v, y, F) => RowIs(v, y, RowAt(F, x, t, 0))
      BY <2>1 DEF RowIs
    <2>3. Body(v, RowAt(F, x, t, 0), x)
      BY <2>2 DEF Body
    <2>4. x + 0 = x /\ 0 \in 0 .. n
      BY <1>1
    <2> HIDE DEF n
    <2> QED  BY <2>3, <2>4, ReachNone
  <1>3. ASSUME NEW k \in 0 .. n - 1, k \in K PROVE k + 1 \in K
    <2>1. PICK u : ReachN(v, t, k, u) /\ Body(u, RowAt(F, x, t, k), x + k) /\ Idle(u)
      BY <1>3
    <2> DEFINE ch == t[k + 1]
               e == AfterByte(u, ch)
    <2>2. k \in Nat /\ k + 1 \in 1 .. n /\ k + 1 \in 0 .. n /\ x + k < SW - 1 /\ (x + k) + 1 = x + (k + 1)
      BY <1>1
    <2>3. ch \in Printable
      BY <2>2
    <2>4. ASSUME NEW s \in Cols
          PROVE  RowAt(F, x, t, k + 1)[s] = IF s = x + k THEN ch ELSE RowAt(F, x, t, k)[s]
      <3>0. s \in Nat
        BY <1>1 DEF Cols
      <3>1. RowAt(F, x, t, k + 1)[s] = IF x <= s /\ s < x + (k + 1) THEN t[s - x + 1] ELSE F[s]
        BY DEF RowAt
      <3>2. RowAt(F, x, t, k)[s] = IF x <= s /\ s < x + k THEN t[s - x + 1] ELSE F[s]
        BY DEF RowAt
      <3>3. CASE s = x + k
        <4>1. x <= s /\ s < x + (k + 1) /\ s - x + 1 = k + 1
          BY <1>1, <2>2, <3>3
        <4> QED  BY <3>1, <3>3, <4>1
      <3>4. CASE s # x + k
        <4>1. (x <= s /\ s < x + (k + 1)) <=> (x <= s /\ s < x + k)
          BY <1>1, <2>2, <3>0, <3>4
        <4> QED  BY <3>1, <3>2, <3>4, <4>1
      <3> QED  BY <3>3, <3>4
    <2> HIDE DEF ch, n
    <2>5. Body(e, RowAt(F, x, t, k + 1), (x + k) + 1) /\ Idle(e)
      BY <2>1, <2>2, <2>3, <2>4, CharByte
    <2>6. ReachN(v, t, k + 1, e)
      BY <2>1, <2>2, ReachMore DEF ch
    <2> HIDE DEF e
    <2> QED  BY <2>2, <2>5, <2>6
  <1>4. 0 .. n \subseteq K
    <2> HIDE DEF K, n
    <2> QED  BY <1>1, <1>2, <1>3, UpInduct
  <1>5. n \in K
    <2>1. n \in 0 .. n
      BY <1>1
    <2> QED  BY <1>4, <2>1
  <1> QED  BY <1>5 DEF Reach

\* What a command writes, on an empty row, leaves an empty row.
LEMMA OutputReach ==
    ASSUME NEW v, Body(v, EmptyRow, 0), Idle(v), NEW o \in Outputs
    PROVE  \E u : Reach(v, o, u) /\ Body(u, EmptyRow, 0) /\ Idle(u)
  <1>1. o \in Seq(Printable \cup {"NL"}) /\ (o # <<>> => o[Len(o)] = "NL")
    BY ConsoleAssumption
  <1>2. CASE o = <<>>
    BY <1>2, ReachNil
  <1>3. CASE o # <<>>
    <2> DEFINE n == Len(o)
               K == {k \in 0 .. n : \E u, x, y : ReachN(v, o, k, u) /\ Calm(u, x, y) /\ Idle(u)}
    <2>1. n \in Nat /\ n > 0 /\ o[n] = "NL"
      BY <1>1, <1>3
    <2>2. 0 \in K
      <3>1. \E x, y : Calm(v, x, y)
        BY DEF Body
      <3>2. 0 \in 0 .. n
        BY <2>1
      <3> HIDE DEF n
      <3> QED  BY <3>1, <3>2, ReachNone
    <2>3. ASSUME NEW k \in 0 .. n - 1, k \in K PROVE k + 1 \in K
      <3>1. PICK u, x, y : ReachN(v, o, k, u) /\ Calm(u, x, y) /\ Idle(u)
        BY <2>3
      <3> DEFINE b == o[k + 1]
                 e == AfterByte(u, b)
      <3>2. k \in Nat /\ k + 1 \in 1 .. n /\ k + 1 \in 0 .. n
        BY <2>1
      <3>3. b \in Printable \cup {"NL"}
        BY <1>1, <3>2
      <3>4. ReachN(v, o, k + 1, e)
        BY <3>1, <3>2, ReachMore
      <3> HIDE DEF n, b
      <3>5. (\E x1, y1 : Calm(e, x1, y1)) /\ Idle(e)
        <4>1. CASE b \in Printable
          BY <3>1, <4>1, AnyChar
        <4>2. CASE b = "NL"
          BY <3>1, <4>2, FeedByte DEF Body
        <4> QED  BY <3>3, <4>1, <4>2
      <3> HIDE DEF e
      <3> QED  BY <3>2, <3>4, <3>5
    <2>4. 0 .. n \subseteq K
      <3> HIDE DEF K, n
      <3> QED  BY <2>1, <2>2, <2>3, UpInduct
    <2>5. n - 1 \in 0 .. n /\ n - 1 \in Nat /\ (n - 1) + 1 = n
      BY <2>1
    <2>6. PICK u, x, y : ReachN(v, o, n - 1, u) /\ Calm(u, x, y) /\ Idle(u)
      BY <2>4, <2>5
    <2> HIDE DEF n, K
    <2>7. ReachN(v, o, (n - 1) + 1, AfterByte(u, o[(n - 1) + 1]))
      BY <2>5, <2>6, ReachMore
    <2>8. Reach(v, o, AfterByte(u, "NL"))
      BY <2>1, <2>5, <2>7 DEF Reach, n
    <2> QED  BY <2>6, <2>8, FeedByte
  <1> QED  BY <1>2, <1>3

\* A digit is read as its value.
LEMMA DigitValue == ASSUME NEW k \in 0 .. 9 PROVE IsDigit(Digit(k)) /\ Value(Digit(k)) = k /\ Digit(k) \notin Finals
  <1>1. Len(Digits) = 10 /\ Digit(k) = Digits[k + 1] /\ k + 1 \in 1 .. 10
    BY DEF Digit, Digits
  <1>2. IsDigit(Digit(k))
    BY <1>1 DEF IsDigit, Contains
  <1>3. \A n \in 0 .. 9 : Digits[n + 1] = Digit(k) => n = k
    BY DEF Digits, Digit
  <1>4. Value(Digit(k)) = k
    <2>1. Value(Digit(k)) \in 0 .. 9 /\ Digits[Value(Digit(k)) + 1] = Digit(k)
      BY <1>1 DEF Value
    <2> QED  BY <1>3, <2>1
  <1>5. Digit(k) \notin Finals
    BY DEF Digit, Finals
  <1> QED  BY <1>2, <1>4, <1>5

----------------------------------------------------------------------------
(* Numbers, written and read. *)

\* The number that one or two digits are read as.
LEMMA ReadOne ==
    ASSUME NEW a \in 0 .. 9, a <= U32Max
    PROVE  Numbers(1, <<Digit(a)>>) = {a}
  <1> DEFINE buf == <<Digit(a)>>
             E(f) == [i \in 0 .. Len(buf) |-> IF i = 0 THEN 0 ELSE 10 * f[i - 1] + Value(buf[i])]
             n == CHOOSE f : f = E(f)
             g == [i \in 0 .. 1 |-> IF i = 0 THEN 0 ELSE a]
  <1>1. Len(buf) = 1 /\ buf[1] = Digit(a) /\ buf # <<>> /\ DOMAIN buf = 1 .. 1
    OBVIOUS
  <1>2. Value(Digit(a)) = a /\ IsDigit(Digit(a))
    BY DigitValue
  <1>3. Numbers(1, buf) = CASE buf = <<>> -> {1}
                            [] buf /= <<>> /\ (\E i \in DOMAIN buf : ~IsDigit(buf[i])) -> {}
                            [] OTHER -> {n[Len(buf)]} \cap 0 .. U32Max
    BY DEF Numbers
  <1> HIDE DEF buf
  <1>4. ~\E i \in DOMAIN buf : ~IsDigit(buf[i])
    BY <1>1, <1>2
  <1>5. g = E(g)
    <2>1. \A i \in 0 .. 1 : i = 0 \/ i = 1
      OBVIOUS
    <2>2. g[0] = 0 /\ g[1] = a
      OBVIOUS
    <2>3. \A i \in 0 .. 1 : g[i] = IF i = 0 THEN 0 ELSE 10 * g[i - 1] + Value(buf[i])
      BY <1>1, <1>2, <2>1, <2>2
    <2>4. g = [i \in 0 .. 1 |-> g[i]]
      OBVIOUS
    <2> HIDE DEF g
    <2> QED  BY <1>1, <2>3, <2>4
  <1>6. n = E(n)
    <2> HIDE DEF E, g
    <2> QED  BY <1>5
  <1> HIDE DEF n
  <1>7. n[0] = 0 /\ n[1] = a
    <2>1. \A i \in 0 .. 1 : E(n)[i] = IF i = 0 THEN 0 ELSE 10 * n[i - 1] + Value(buf[i])
      BY <1>1
    <2> HIDE DEF E
    <2>2. n[0] = 0
      BY <1>6, <2>1
    <2>3. n[1] = 10 * n[0] + a
      <3>1. n[1] = 10 * n[1 - 1] + Value(buf[1])
        BY <1>6, <2>1
      <3>2. 1 - 1 = 0
        OBVIOUS
      <3> QED  BY <1>1, <1>2, <3>1, <3>2
    <2> QED  BY <2>2, <2>3
  <1>8. {n[Len(buf)]} \cap 0 .. U32Max = {a}
    <2>1. a \in 0 .. U32Max
      BY ConsoleAssumption
    <2> QED  BY <1>1, <1>7, <2>1
  <1>9. Numbers(1, buf) = {n[Len(buf)]} \cap 0 .. U32Max
    BY <1>1, <1>3, <1>4
  <1> QED  BY <1>8, <1>9 DEF buf

\* Two digits.
LEMMA ReadTwo ==
    ASSUME NEW a \in 0 .. 9, NEW b \in 0 .. 9, 10 * a + b <= U32Max
    PROVE  Numbers(1, <<Digit(a), Digit(b)>>) = {10 * a + b}
  <1> DEFINE buf == <<Digit(a), Digit(b)>>
             E(f) == [i \in 0 .. Len(buf) |-> IF i = 0 THEN 0 ELSE 10 * f[i - 1] + Value(buf[i])]
             n == CHOOSE f : f = E(f)
             g == [i \in 0 .. 2 |-> IF i = 0 THEN 0 ELSE IF i = 1 THEN a ELSE 10 * a + b]
  <1>1. Len(buf) = 2 /\ buf[1] = Digit(a) /\ buf[2] = Digit(b) /\ buf # <<>> /\ DOMAIN buf = 1 .. 2
    OBVIOUS
  <1>2. Value(Digit(a)) = a /\ IsDigit(Digit(a)) /\ Value(Digit(b)) = b /\ IsDigit(Digit(b))
    BY DigitValue
  <1>3. Numbers(1, buf) = CASE buf = <<>> -> {1}
                            [] buf /= <<>> /\ (\E i \in DOMAIN buf : ~IsDigit(buf[i])) -> {}
                            [] OTHER -> {n[Len(buf)]} \cap 0 .. U32Max
    BY DEF Numbers
  <1> HIDE DEF buf
  <1>4. ~\E i \in DOMAIN buf : ~IsDigit(buf[i])
    <2>1. \A i \in 1 .. 2 : i = 1 \/ i = 2
      OBVIOUS
    <2> QED  BY <1>1, <1>2, <2>1
  <1>5. g = E(g)
    <2>1. \A i \in 0 .. 2 : i = 0 \/ i = 1 \/ i = 2
      OBVIOUS
    <2>2. g[0] = 0 /\ g[1] = a /\ g[2] = 10 * a + b
      OBVIOUS
    <2>4. g = [i \in 0 .. 2 |-> g[i]]
      OBVIOUS
    <2> HIDE DEF g
    <2>3. \A i \in 0 .. 2 : g[i] = IF i = 0 THEN 0 ELSE 10 * g[i - 1] + Value(buf[i])
      BY <1>1, <1>2, <2>1, <2>2
    <2> QED  BY <1>1, <2>3, <2>4
  <1>6. n = E(n)
    <2> HIDE DEF E, g
    <2> QED  BY <1>5
  <1> HIDE DEF n
  <1>7. n[2] = 10 * a + b
    <2>1. \A i \in 0 .. 2 : E(n)[i] = IF i = 0 THEN 0 ELSE 10 * n[i - 1] + Value(buf[i])
      BY <1>1
    <2> HIDE DEF E
    <2>2. n[0] = 0
      BY <1>6, <2>1
    <2>3. n[1] = 10 * n[0] + a
      <3>1. n[1] = 10 * n[1 - 1] + Value(buf[1])
        BY <1>6, <2>1
      <3>2. 1 - 1 = 0
        OBVIOUS
      <3> QED  BY <1>1, <1>2, <3>1, <3>2
    <2>4. n[2] = 10 * n[1] + b
      <3>1. n[2] = 10 * n[2 - 1] + Value(buf[2])
        BY <1>6, <2>1
      <3>2. 2 - 1 = 1
        OBVIOUS
      <3> QED  BY <1>1, <1>2, <3>1, <3>2
    <2> QED  BY <2>2, <2>3, <2>4
  <1>8. {n[Len(buf)]} \cap 0 .. U32Max = {10 * a + b}
    <2>1. 10 * a + b \in 0 .. U32Max
      BY ConsoleAssumption
    <2> QED  BY <1>1, <1>7, <2>1
  <1>9. Numbers(1, buf) = {n[Len(buf)]} \cap 0 .. U32Max
    BY <1>1, <1>3, <1>4
  <1> QED  BY <1>8, <1>9 DEF buf

\* The parser reads back every number the editor writes, and has room for it.
LEMMA ReadDecimal ==
    ASSUME NEW n \in 0 .. MaxLine
    PROVE  Numbers(1, Decimal(n)) = {n} /\ Len(Decimal(n)) < MaxCsi
  <1>1. MaxLine \in 0 .. 99 /\ MaxLine <= U32Max /\ U32Max \in Nat /\ MaxCsi \in Nat /\ Len(Decimal(MaxLine)) < MaxCsi
    BY HistAssumption, ConsoleAssumption
  <1>2. CASE n < 10
    <2>1. n \in 0 .. 9 /\ n <= U32Max
      BY <1>1, <1>2
    <2>2. Decimal(n) = <<Digit(n)>>
      BY <1>2 DEF Decimal
    <2>3. Len(Decimal(n)) = 1 /\ Len(Decimal(MaxLine)) >= 1
      BY <2>2 DEF Decimal
    <2> QED  BY <1>1, <2>1, <2>2, <2>3, ReadOne
  <1>3. CASE ~(n < 10)
    <2> DEFINE a == n \div 10
               b == n % 10
    <2>1. a \in 0 .. 9 /\ b \in 0 .. 9 /\ 10 * a + b = n
      BY <1>1, <1>3
    <2>2. Decimal(n) = <<Digit(a), Digit(b)>>
      BY <1>3 DEF Decimal
    <2> HIDE DEF a, b
    <2>3. Len(Decimal(n)) = 2
      BY <2>2
    <2>4. Len(Decimal(MaxLine)) = 2
      <3>1. ~(MaxLine < 10)
        BY <1>1, <1>3
      <3> QED  BY <3>1 DEF Decimal
    <2>5. Numbers(1, <<Digit(a), Digit(b)>>) = {10 * a + b}
      <3>1. 10 * a + b <= U32Max
        BY <1>1, <2>1
      <3> QED  BY <2>1, <3>1, ReadTwo
    <2> QED  BY <1>1, <2>1, <2>2, <2>3, <2>4, <2>5
  <1> QED  BY <1>2, <1>3

\* Inside a sequence, of which buf was read.
Csi(v, buf) == v.ansi = Parser("PartialCsi", buf)

\* Short sequences, put together.
LEMMA Joined ==
    ASSUME NEW S, NEW a \in S, NEW b \in S, NEW c \in S
    PROVE  /\ <<a>> \in Seq(S) /\ <<b>> \in Seq(S) /\ <<c>> \in Seq(S) /\ <<a, b>> \in Seq(S)
           /\ <<a>> \o <<b>> = <<a, b>> /\ <<a, b>> \o <<c>> = <<a, b, c>>
           /\ Append(<<>>, a) = <<a>> /\ Append(<<a>>, b) = <<a, b>> /\ Len(<<a>>) = 1 /\ Len(<<a, b>>) = 2
  <1>1. <<a>> \in Seq(S) /\ <<b>> \in Seq(S) /\ <<c>> \in Seq(S) /\ <<a, b>> \in Seq(S) /\ <<a, b, c>> \in Seq(S) /\ <<>> \in Seq(S)
    OBVIOUS
  <1>2. Len(<<a>>) = 1 /\ Len(<<a, b>>) = 2 /\ Len(<<b>>) = 1 /\ Len(<<c>>) = 1 /\ Len(<<a, b, c>>) = 3 /\ Len(<<>>) = 0
    OBVIOUS
  <1>3. /\ <<a>>[1] = a /\ <<b>>[1] = b /\ <<c>>[1] = c /\ <<a, b>>[1] = a /\ <<a, b>>[2] = b
        /\ <<a, b, c>>[1] = a /\ <<a, b, c>>[2] = b /\ <<a, b, c>>[3] = c
    OBVIOUS
  <1>4. <<a>> \o <<b>> = <<a, b>>
    <2> DEFINE s == <<a>> \o <<b>>
               t == <<a, b>>
    <2>1. s \in Seq(S) /\ Len(s) = 2 /\ \A i \in 1 .. 2 : s[i] = IF i <= 1 THEN <<a>>[i] ELSE <<b>>[i - 1]
      BY <1>1, <1>2, ConcatProperties
    <2>2. \A i \in 1 .. 2 : i = 1 \/ i = 2
      OBVIOUS
    <2>3. \A i \in 1 .. 2 : s[i] = t[i]
      BY <1>3, <2>1, <2>2
    <2> HIDE DEF s
    <2> QED  BY <1>1, <1>2, <2>1, <2>3, SeqEqual DEF s
  <1>5. <<a, b>> \o <<c>> = <<a, b, c>>
    <2> DEFINE s == <<a, b>> \o <<c>>
               t == <<a, b, c>>
    <2>1. s \in Seq(S) /\ Len(s) = 3 /\ \A i \in 1 .. 3 : s[i] = IF i <= 2 THEN <<a, b>>[i] ELSE <<c>>[i - 2]
      BY <1>1, <1>2, ConcatProperties
    <2>2. \A i \in 1 .. 3 : i = 1 \/ i = 2 \/ i = 3
      OBVIOUS
    <2>3. \A i \in 1 .. 3 : s[i] = t[i]
      BY <1>3, <2>1, <2>2
    <2> HIDE DEF s
    <2> QED  BY <1>1, <1>2, <2>1, <2>3, SeqEqual DEF s
  <1>6. Append(<<>>, a) = <<a>>
    <2>1. Append(<<>>, a) \in Seq(S) /\ Len(Append(<<>>, a)) = 1 /\ Append(<<>>, a)[1] = a
      BY <1>1, <1>2, AppendProperties
    <2>2. \A i \in 1 .. 1 : i = 1
      OBVIOUS
    <2> QED  BY <1>1, <1>2, <1>3, <2>1, <2>2, SeqEqual
  <1>7. Append(<<a>>, b) = <<a, b>>
    <2> DEFINE s == Append(<<a>>, b)
               t == <<a, b>>
    <2>1. s \in Seq(S) /\ Len(s) = 2 /\ s[1] = a /\ s[2] = b
      BY <1>1, <1>2, <1>3, AppendProperties
    <2>2. \A i \in 1 .. 2 : i = 1 \/ i = 2
      OBVIOUS
    <2>3. \A i \in 1 .. 2 : s[i] = t[i]
      BY <1>3, <2>1, <2>2
    <2> HIDE DEF s
    <2> QED  BY <1>1, <1>2, <2>1, <2>3, SeqEqual DEF s
  <1> QED  BY <1>1, <1>2, <1>4, <1>5, <1>6, <1>7

\* There is room for a sequence.
LEMMA CsiRoom == MaxCsi \in Nat /\ Len(<<>>) < MaxCsi
  <1>1. MaxCsi \in Nat /\ Len(Decimal(MaxLine)) < MaxCsi
    BY ConsoleAssumption
  <1>2. Len(Decimal(MaxLine)) \in Nat /\ Len(<<>>) = 0
    BY DEF Decimal
  <1>3. 0 < MaxCsi
    BY <1>1, <1>2
  <1> QED  BY <1>1, <1>2, <1>3

\* The start of a sequence,
LEMMA EscStart ==
    ASSUME NEW v, NEW F, NEW x, Body(v, F, x), Idle(v)
    PROVE  \E u : Reach(v, <<"ESC", "[">>, u) /\ Body(u, F, x) /\ Csi(u, <<>>)
  <1> DEFINE e == AfterByte(v, "ESC")
             u == AfterByte(e, "[")
  <1>1. AnsiAction(v.ansi, "ESC") = NoAction /\ AnsiState(v.ansi, "ESC") = Parser("Escape", <<>>)
    BY DEF Idle, AnsiAction, AnsiState
  <1>2. Body(e, F, x) /\ e.ansi = Parser("Escape", <<>>)
    BY <1>1, QuietByte
  <1>3. Reach(v, <<"ESC">>, e) /\ Reach(e, <<"[">>, u)
    BY ReachOne
  <1> HIDE DEF e
  <1>4. AnsiAction(e.ansi, "[") = NoAction /\ AnsiState(e.ansi, "[") = Parser("PartialCsi", <<>>)
    BY <1>2 DEF AnsiAction, AnsiState, Parser
  <1>5. Body(u, F, x) /\ u.ansi = Parser("PartialCsi", <<>>)
    BY <1>2, <1>4, QuietByte
  <1> HIDE DEF u
  <1>6. <<"ESC">> \in Seq({"ESC", "["}) /\ <<"[">> \in Seq({"ESC", "["}) /\ <<"ESC">> \o <<"[">> = <<"ESC", "[">>
    <2>1. "ESC" \in {"ESC", "["} /\ "[" \in {"ESC", "["}
      OBVIOUS
    <2> QED  BY ONLY <2>1, Joined
  <1>7. Reach(v, <<"ESC">> \o <<"[">>, u)
    BY <1>3, <1>6, ReachCat
  <1>8. Reach(v, <<"ESC", "[">>, u)
    BY <1>6, <1>7
  <1> QED  BY <1>5, <1>8 DEF Csi

\* a digit of it,
LEMMA DigitByte ==
    ASSUME NEW v, NEW F, NEW x, Body(v, F, x), NEW buf, Csi(v, buf), Len(buf) < MaxCsi, NEW k \in 0 .. 9
    PROVE  Body(AfterByte(v, Digit(k)), F, x) /\ Csi(AfterByte(v, Digit(k)), Append(buf, Digit(k)))
  <1> DEFINE d == Digit(k)
  <1>1. d \notin Finals
    BY DigitValue
  <1> HIDE DEF d
  <1>2. v.ansi.state = "PartialCsi" /\ v.ansi.buf = buf
    BY DEF Csi, Parser
  <1>3. MaxCsi \in Nat /\ Len(buf) # MaxCsi
    BY ConsoleAssumption
  <1>4. AnsiState(v.ansi, d) = Parser("PartialCsi", Append(buf, d))
    BY <1>1, <1>2, <1>3 DEF AnsiState
  <1>5. AnsiAction(v.ansi, d) = CsiAction(buf, d)
    BY <1>2 DEF AnsiAction
  <1>6. CsiAction(buf, d) = NoAction
    <2>1. d \notin {"m", "A", "B", "C", "D", "K"}
      BY <1>1 DEF Finals
    <2> QED  BY <2>1 DEF CsiAction
  <1>7. Body(AfterByte(v, d), F, x) /\ AfterByte(v, d).ansi = AnsiState(v.ansi, d)
    BY <1>5, <1>6, QuietByte
  <1> QED  BY <1>4, <1>7 DEF Csi, d

\* its number.
LEMMA DecimalReach ==
    ASSUME NEW v, NEW F, NEW x, Body(v, F, x), Csi(v, <<>>), NEW n \in 0 .. MaxLine
    PROVE  \E u : Reach(v, Decimal(n), u) /\ Body(u, F, x) /\ Csi(u, Decimal(n))
  <1>1. Len(Decimal(n)) < MaxCsi /\ MaxCsi \in Nat /\ n \in 0 .. 99
    <2>1. MaxLine \in 0 .. 99
      BY HistAssumption
    <2>2. n \in 0 .. 99
      BY <2>1
    <2> QED  BY <2>2, ReadDecimal, ConsoleAssumption
  <1>2. CASE n < 10
    <2> DEFINE u == AfterByte(v, Digit(n))
    <2>1. n \in 0 .. 9 /\ Decimal(n) = <<Digit(n)>>
      BY <1>2 DEF Decimal
    <2>2. Len(<<>>) < MaxCsi
      BY CsiRoom
    <2>3. Body(u, F, x) /\ Csi(u, Append(<<>>, Digit(n)))
      BY <2>1, <2>2, DigitByte
    <2>4. Append(<<>>, Digit(n)) = <<Digit(n)>>
      OBVIOUS
    <2>5. Reach(v, <<Digit(n)>>, u)
      BY ReachOne
    <2> HIDE DEF u
    <2> QED  BY <2>1, <2>3, <2>4, <2>5
  <1>3. CASE ~(n < 10)
    <2> DEFINE a == n \div 10
               b == n % 10
               e == AfterByte(v, Digit(a))
               u == AfterByte(e, Digit(b))
    <2>1. a \in 0 .. 9 /\ b \in 0 .. 9
      BY <1>1, <1>3
    <2>2. Decimal(n) = <<Digit(a), Digit(b)>>
      BY <1>3 DEF Decimal
    <2> HIDE DEF a, b
    <2>3. Len(Decimal(n)) = 2
      BY <2>2
    <2> DEFINE S == {Digit(a), Digit(b)}
    <2>4. /\ Len(<<>>) < MaxCsi /\ Append(<<>>, Digit(a)) = <<Digit(a)>> /\ Len(<<Digit(a)>>) < MaxCsi
          /\ <<Digit(a)>> \in Seq(S) /\ <<Digit(b)>> \in Seq(S)
          /\ Append(<<Digit(a)>>, Digit(b)) = <<Digit(a), Digit(b)>> /\ <<Digit(a)>> \o <<Digit(b)>> = <<Digit(a), Digit(b)>>
      <3>1. 1 < MaxCsi
        BY <1>1, <2>3
      <3>2. Digit(a) \in S /\ Digit(b) \in S
        OBVIOUS
      <3>3. /\ <<Digit(a)>> \in Seq(S) /\ <<Digit(b)>> \in Seq(S) /\ Append(<<>>, Digit(a)) = <<Digit(a)>> /\ Len(<<Digit(a)>>) = 1
            /\ Append(<<Digit(a)>>, Digit(b)) = <<Digit(a), Digit(b)>> /\ <<Digit(a)>> \o <<Digit(b)>> = <<Digit(a), Digit(b)>>
        BY ONLY <3>2, Joined
      <3> QED  BY <3>1, <3>3, CsiRoom
    <2>5. Body(e, F, x) /\ Csi(e, <<Digit(a)>>)
      BY <2>1, <2>4, DigitByte
    <2>6. Reach(v, <<Digit(a)>>, e) /\ Reach(e, <<Digit(b)>>, u)
      BY ReachOne
    <2> HIDE DEF e
    <2>7. Body(u, F, x) /\ Csi(u, Append(<<Digit(a)>>, Digit(b)))
      BY <2>1, <2>4, <2>5, DigitByte
    <2> HIDE DEF u
    <2>8. Reach(v, <<Digit(a)>> \o <<Digit(b)>>, u)
      BY <2>4, <2>6, ReachCat
    <2> QED  BY <2>2, <2>4, <2>7, <2>8
  <1> QED  BY <1>2, <1>3

\* The end of a sequence that moves the cursor.
LEMMA MoveEnd ==
    ASSUME NEW v, NEW F, NEW x, Body(v, F, x), NEW buf, Csi(v, buf), Len(buf) < MaxCsi,
           NEW n \in Nat, Numbers(1, buf) = {n}, NEW x1 \in Cols,
           NEW b, (b = "D" /\ x1 + n = x) \/ (b = "C" /\ x1 = x + n)
    PROVE  Body(AfterByte(v, b), F, x1) /\ Idle(AfterByte(v, b))
  <1>1. v.ansi.state = "PartialCsi" /\ v.ansi.buf = buf
    BY DEF Csi, Parser
  <1>2. AnsiState(v.ansi, b) = NewParser
    BY <1>1 DEF AnsiState, Finals
  <1>3. AnsiAction(v.ansi, b) = CsiAction(buf, b)
    BY <1>1 DEF AnsiAction
  <1> DEFINE d == IF b = "D" THEN "left" ELSE "right"
  <1>4. \A e : Moved(e, buf) = Move(e, n)
    <2>1. (CHOOSE k \in {n} : TRUE) = n
      OBVIOUS
    <2> QED  BY <2>1 DEF Moved
  <1>5. CsiAction(buf, b) = Move(d, n)
    <2>1. CASE b = "D"
      BY <1>4, <2>1 DEF CsiAction
    <2>2. CASE b = "C"
      BY <1>4, <2>2 DEF CsiAction
    <2> QED  BY <2>1, <2>2
  <1>6. d \in {"left", "right"} /\ ((d = "left" /\ x1 + n = x) \/ (d = "right" /\ x1 = x + n))
    OBVIOUS
  <1> HIDE DEF d
  <1>7. AnsiAction(v.ansi, b) = Move(d, n)
    BY <1>3, <1>5
  <1>8. n \in Nat /\ x1 \in Cols /\ Body(v, F, x)
    OBVIOUS
  <1>9. Body(AfterByte(v, b), F, x1) /\ AfterByte(v, b).ansi = AnsiState(v.ansi, b)
    BY ONLY <1>6, <1>7, <1>8, MoveByte
  <1> QED  BY <1>2, <1>9 DEF Idle, NewParser

\* Joins three pieces.
LEMMA ReachThree ==
    ASSUME NEW a \in Seq(AllBytes), NEW b \in Seq(AllBytes), NEW c \in Seq(AllBytes),
           NEW v, NEW u, NEW s, NEW t, Reach(v, a, u), Reach(u, b, s), Reach(s, c, t)
    PROVE  Reach(v, a \o b \o c, t)
  <1>1. Reach(v, a \o b, s)
    BY ReachCat
  <1>2. a \o b \in Seq(AllBytes)
    OBVIOUS
  <1> QED  BY <1>1, <1>2, ReachCat

\* The cursor moved by a number.
LEMMA NumberReach ==
    ASSUME NEW v, NEW F, NEW x, Body(v, F, x), Idle(v), NEW n \in 0 .. MaxLine, NEW x1 \in Cols,
           NEW b, (b = "D" /\ x1 + n = x) \/ (b = "C" /\ x1 = x + n)
    PROVE  \E u : Reach(v, <<"ESC", "[">> \o Decimal(n) \o <<b>>, u) /\ Body(u, F, x1) /\ Idle(u)
  <1>1. PICK s : Reach(v, <<"ESC", "[">>, s) /\ Body(s, F, x) /\ Csi(s, <<>>)
    BY EscStart
  <1>2. PICK t : Reach(s, Decimal(n), t) /\ Body(t, F, x) /\ Csi(t, Decimal(n))
    BY <1>1, DecimalReach
  <1>3. Numbers(1, Decimal(n)) = {n} /\ Len(Decimal(n)) < MaxCsi /\ n \in Nat /\ n \in 0 .. 99
    <2>1. MaxLine \in 0 .. 99
      BY HistAssumption
    <2> QED  BY <2>1, ReadDecimal
  <1> DEFINE u == AfterByte(t, b)
  <1>4. Body(u, F, x1) /\ Idle(u)
    BY <1>2, <1>3, MoveEnd
  <1>5. Reach(t, <<b>>, u)
    BY ReachOne
  <1> HIDE DEF u
  <1>6. Decimal(n) \in Seq(AllBytes) /\ <<"ESC", "[">> \in Seq(AllBytes) /\ <<b>> \in Seq(AllBytes)
    <2>1. Decimal(n) \in Seq(AllBytes)
      BY <1>3, DecimalBytes, PrintableBytes
    <2>2. "ESC" \in AllBytes /\ "[" \in AllBytes /\ "C" \in AllBytes /\ "D" \in AllBytes
      BY DEF AllBytes, Printable
    <2> QED  BY <2>1, <2>2
  <1>7. Reach(v, <<"ESC", "[">> \o Decimal(n) \o <<b>>, u)
    BY <1>1, <1>2, <1>5, <1>6, ReachThree
  <1> QED  BY <1>4, <1>7

\* The moves of the editor move the cursor by what they say: left,
LEMMA LeftReach ==
    ASSUME NEW v, NEW F, NEW x, Body(v, F, x), Idle(v), NEW n \in 0 .. MaxLine, NEW x1 \in Cols, x1 + n = x
    PROVE  \E u : Reach(v, Left(n), u) /\ Body(u, F, x1) /\ Idle(u)
  BY NumberReach DEF Left

\* and right.
LEMMA RightReach ==
    ASSUME NEW v, NEW F, NEW x, Body(v, F, x), Idle(v), NEW n \in 0 .. MaxLine, NEW x1 \in Cols, x1 = x + n
    PROVE  \E u : Reach(v, Right(n), u) /\ Body(u, F, x1) /\ Idle(u)
  BY NumberReach DEF Right

\* The sequences without a number.
LEMMA ShortReach ==
    ASSUME NEW v, NEW F, NEW x, Body(v, F, x), Idle(v), NEW x1 \in Cols,
           NEW b, (b = "D" /\ x1 + 1 = x) \/ (b = "C" /\ x1 = x + 1)
    PROVE  \E u : Reach(v, <<"ESC", "[", b>>, u) /\ Body(u, F, x1) /\ Idle(u)
  <1>1. PICK s : Reach(v, <<"ESC", "[">>, s) /\ Body(s, F, x) /\ Csi(s, <<>>)
    BY EscStart
  <1> DEFINE u == AfterByte(s, b)
  <1>2. Numbers(1, <<>>) = {1}
    BY DEF Numbers
  <1>3. Len(<<>>) < MaxCsi
    BY CsiRoom
  <1>4. Body(u, F, x1) /\ Idle(u)
    BY <1>1, <1>2, <1>3, MoveEnd
  <1>5. Reach(s, <<b>>, u)
    BY ReachOne
  <1> HIDE DEF u
  <1> DEFINE S == {"ESC", "[", b}
  <1>6. <<"ESC", "[">> \in Seq(S) /\ <<b>> \in Seq(S) /\ <<"ESC", "[">> \o <<b>> = <<"ESC", "[", b>>
    <2>1. "ESC" \in S /\ "[" \in S /\ b \in S
      OBVIOUS
    <2> QED  BY ONLY <2>1, Joined
  <1>7. Reach(v, <<"ESC", "[">> \o <<b>>, u)
    BY <1>1, <1>5, <1>6, ReachCat
  <1> QED  BY <1>4, <1>6, <1>7

\* ESC [ K clears the row from the cursor on.
LEMMA EraseReach ==
    ASSUME NEW v, NEW F, NEW x, Body(v, F, x), Idle(v), NEW G, Cut(G, F, x)
    PROVE  \E u : Reach(v, <<"ESC", "[", "K">>, u) /\ Body(u, G, x) /\ Idle(u)
  <1>1. PICK e : Reach(v, <<"ESC", "[">>, e) /\ Body(e, F, x) /\ Csi(e, <<>>)
    BY EscStart
  <1> DEFINE u == AfterByte(e, "K")
  <1>2. Numbers(0, <<>>) = {0}
    BY DEF Numbers
  <1>3. Len(<<>>) < MaxCsi
    BY CsiRoom
  <1>a. e.ansi.state = "PartialCsi" /\ e.ansi.buf = <<>>
    BY <1>1 DEF Csi, Parser
  <1>b. AnsiState(e.ansi, "K") = NewParser
    BY <1>a DEF AnsiState, Finals
  <1>c. AnsiAction(e.ansi, "K") = CsiAction(<<>>, "K")
    BY <1>3, <1>a DEF AnsiAction
  <1>d. CsiAction(<<>>, "K") = Erase
    BY <1>2 DEF CsiAction
  <1>4. Body(u, G, x) /\ u.ansi = NewParser
    BY <1>1, <1>b, <1>c, <1>d, EraseByte
  <1>5. Reach(e, <<"K">>, u)
    BY ReachOne
  <1> HIDE DEF u
  <1> DEFINE S == {"ESC", "[", "K"}
  <1>6. <<"ESC", "[">> \in Seq(S) /\ <<"K">> \in Seq(S) /\ <<"ESC", "[">> \o <<"K">> = <<"ESC", "[", "K">>
    <2>1. "ESC" \in S /\ "[" \in S /\ "K" \in S
      OBVIOUS
    <2> QED  BY ONLY <2>1, Joined
  <1>7. Reach(v, <<"ESC", "[">> \o <<"K">>, u)
    BY <1>1, <1>5, <1>6, ReachCat
  <1>8. Idle(u)
    BY <1>4 DEF Idle, NewParser, Parser
  <1>9. Reach(v, <<"ESC", "[", "K">>, u)
    BY <1>6, <1>7
  <1>10. Body(u, G, x)
    BY <1>4
  <1> QED  BY ONLY <1>8, <1>9, <1>10

----------------------------------------------------------------------------
(* What strings do to the row. *)

\* What a string of bytes does to the row of the cursor.
Writes(bs, F, x, G, x1) ==
  \A v : Body(v, F, x) /\ Idle(v) => \E u : Reach(v, bs, u) /\ Body(u, G, x1) /\ Idle(u)

\* Two rows show the same.
SameRow(F, G) == \A s \in Cols : F[s] = G[s]

\* Writing nothing.
LEMMA WritesNone == ASSUME NEW F, NEW x PROVE Writes(<<>>, F, x, F, x)
  BY ReachNil DEF Writes

\* One string after the other.
LEMMA WritesCat ==
    ASSUME NEW S, NEW a \in Seq(S), NEW b \in Seq(S), NEW F, NEW x, NEW G, NEW y, NEW H, NEW z,
           Writes(a, F, x, G, y), Writes(b, G, y, H, z)
    PROVE  Writes(a \o b, F, x, H, z)
  <1> SUFFICES ASSUME NEW v, Body(v, F, x), Idle(v)
               PROVE  \E u : Reach(v, a \o b, u) /\ Body(u, H, z) /\ Idle(u)
    BY DEF Writes
  <1>1. PICK m : Reach(v, a, m) /\ Body(m, G, y) /\ Idle(m)
    BY DEF Writes
  <1>2. PICK u : Reach(m, b, u) /\ Body(u, H, z) /\ Idle(u)
    BY <1>1 DEF Writes
  <1>3. Reach(v, a \o b, u)
    BY <1>1, <1>2, ReachCat
  <1> QED  BY <1>2, <1>3

\* Rows are compared column by column.
LEMMA BodyRow == ASSUME NEW v, NEW F, NEW G, NEW x, Body(v, F, x), SameRow(F, G) PROVE Body(v, G, x)
  BY DEF Body, RowIs, SameRow

\* Rows that show the same are as good.
LEMMA WritesRow ==
    ASSUME NEW bs, NEW F, NEW x, NEW G, NEW H, NEW x1, Writes(bs, F, x, G, x1), SameRow(G, H)
    PROVE  Writes(bs, F, x, H, x1)
  BY BodyRow DEF Writes

\* The strings the console writes: text,
LEMMA WritesText ==
    ASSUME NEW F, NEW x, NEW t \in Seq(Printable), x + Len(t) <= SW - 1
    PROVE  Writes(t, F, x, RowAt(F, x, t, Len(t)), x + Len(t))
  BY TextReach DEF Writes

\* moves to the left,
LEMMA WritesLeft ==
    ASSUME NEW F, NEW x, NEW n \in 0 .. MaxLine, NEW x1 \in Cols, x1 + n = x
    PROVE  Writes(Left(n), F, x, F, x1)
  BY LeftReach DEF Writes

\* to the right,
LEMMA WritesRight ==
    ASSUME NEW F, NEW x, NEW n \in 0 .. MaxLine, NEW x1 \in Cols, x1 = x + n
    PROVE  Writes(Right(n), F, x, F, x1)
  BY RightReach DEF Writes

\* by one,
LEMMA WritesShort ==
    ASSUME NEW F, NEW x, NEW x1 \in Cols, NEW b, (b = "D" /\ x1 + 1 = x) \/ (b = "C" /\ x1 = x + 1)
    PROVE  Writes(<<"ESC", "[", b>>, F, x, F, x1)
  BY ShortReach DEF Writes

\* erasing,
LEMMA WritesErase ==
    ASSUME NEW F, NEW x, NEW G, Cut(G, F, x)
    PROVE  Writes(<<"ESC", "[", "K">>, F, x, G, x)
  BY EraseReach DEF Writes

\* a line feed,
LEMMA WritesFeed ==
    ASSUME NEW F, NEW x
    PROVE  Writes(<<"NL">>, F, x, EmptyRow, 0)
  <1> SUFFICES ASSUME NEW v, Body(v, F, x), Idle(v)
               PROVE  \E u : Reach(v, <<"NL">>, u) /\ Body(u, EmptyRow, 0) /\ Idle(u)
    BY DEF Writes
  <1>1. PICK y : Calm(v, x, y)
    BY DEF Body
  <1>2. Body(AfterByte(v, "NL"), EmptyRow, 0) /\ Idle(AfterByte(v, "NL"))
    BY <1>1, FeedByte
  <1>3. Reach(v, <<"NL">>, AfterByte(v, "NL"))
    BY ReachOne
  <1> QED  BY <1>2, <1>3

\* and the output of a command.
LEMMA WritesOutput ==
    ASSUME NEW o \in Outputs
    PROVE  Writes(o, EmptyRow, 0, EmptyRow, 0)
  BY OutputReach DEF Writes

\* The row of the prompt and a line.
P0 == Len(Prompt)
Row(s) == [c \in Cols |-> IF c < P0 THEN Prompt[c + 1] ELSE IF c < P0 + Len(s) THEN s[c - P0 + 1] ELSE " "]

\* The prompt and a line fit a row.
LEMMA PromptIs == /\ P0 \in Nat /\ Prompt \in Seq(Printable) /\ MaxLine \in Nat /\ SW \in Nat /\ P0 + MaxLine < SW
                  /\ Chars \subseteq Printable
  BY ConsoleAssumption, HistAssumption DEF P0, SW

----------------------------------------------------------------------------
(* The row of a line. *)

\* The row of a line at a column, by the places of the line.
RowSays(s, n, c) ==
  /\ c < P0 => Row(s)[c] = Prompt[c + 1]
  /\ \A j \in 1 .. n : c = P0 + j - 1 => Row(s)[c] = s[j]
  /\ c >= P0 + n => Row(s)[c] = " "
  /\ c < P0 \/ c >= P0 + n \/ \E j \in 1 .. n : c = P0 + j - 1

\* It does.
LEMMA RowVal ==
    ASSUME NEW s, NEW n \in Nat, n = Len(s), NEW c \in Cols
    PROVE  RowSays(s, n, c)
  <1>1. P0 \in Nat /\ SW \in Nat /\ c \in 0 .. SW - 1
    BY PromptIs DEF Cols
  <1>2. Row(s)[c] = IF c < P0 THEN Prompt[c + 1] ELSE IF c < P0 + n THEN s[c - P0 + 1] ELSE " "
    BY DEF Row
  <1>3. c < P0 => Row(s)[c] = Prompt[c + 1]
    BY <1>1, <1>2
  <1>4. c >= P0 + n => Row(s)[c] = " "
    <2>1. c >= P0 + n => ~(c < P0) /\ ~(c < P0 + n)
      BY <1>1
    <2> QED  BY <1>2, <2>1
  <1>5. ASSUME NEW j \in 1 .. n, c = P0 + j - 1 PROVE Row(s)[c] = s[j]
    <2>1. ~(c < P0) /\ c < P0 + n /\ c - P0 + 1 = j
      BY <1>1, <1>5
    <2> QED  BY <1>2, <2>1
  <1>6. c < P0 \/ c >= P0 + n \/ \E j \in 1 .. n : c = P0 + j - 1
    <2> SUFFICES ASSUME ~(c < P0), ~(c >= P0 + n) PROVE \E j \in 1 .. n : c = P0 + j - 1
      OBVIOUS
    <2>1. c - P0 + 1 \in 1 .. n /\ c = P0 + (c - P0 + 1) - 1
      BY <1>1
    <2> QED  BY <2>1
  <1> QED  BY ONLY <1>3, <1>4, <1>5, <1>6 DEF RowSays

\* The same for a row a text was written to.
AtSays(F, x, t, k, c) ==
  /\ c < x \/ c >= x + k => RowAt(F, x, t, k)[c] = F[c]
  /\ \A i \in 1 .. k : c = x + i - 1 => RowAt(F, x, t, k)[c] = t[i]

\* It does.
LEMMA RowAtVal ==
    ASSUME NEW F, NEW x \in Nat, NEW t, NEW k \in Nat, NEW c \in Cols
    PROVE  AtSays(F, x, t, k, c)
  <1>1. c \in Nat
    BY ShellDims DEF Cols
  <1>2. RowAt(F, x, t, k)[c] = IF x <= c /\ c < x + k THEN t[c - x + 1] ELSE F[c]
    BY DEF RowAt
  <1>3. c < x \/ c >= x + k => RowAt(F, x, t, k)[c] = F[c]
    <2>1. c < x \/ c >= x + k => ~(x <= c /\ c < x + k)
      BY <1>1
    <2> QED  BY <1>2, <2>1
  <1>4. ASSUME NEW i \in 1 .. k, c = x + i - 1 PROVE RowAt(F, x, t, k)[c] = t[i]
    <2>1. x <= c /\ c < x + k /\ c - x + 1 = i
      BY <1>1, <1>4
    <2> QED  BY <1>2, <2>1
  <1> QED  BY ONLY <1>3, <1>4 DEF AtSays

\* A prompt on an empty row.
LEMMA PromptRow == SameRow(RowAt(EmptyRow, 0, Prompt, P0), Row(<<>>))
  <1> SUFFICES ASSUME NEW c \in Cols PROVE RowAt(EmptyRow, 0, Prompt, P0)[c] = Row(<<>>)[c]
    BY DEF SameRow
  <1>0. EmptyRow[c] = " "
    BY DEF EmptyRow
  <1>1. P0 \in Nat /\ c \in Nat /\ 0 \in Nat
    BY PromptIs DEF Cols
  <1>2. 0 = Len(<<>>)
    OBVIOUS
  <1>3. RowSays(<<>>, 0, c)
    BY <1>1, <1>2, RowVal
  <1>4. AtSays(EmptyRow, 0, Prompt, P0, c)
    BY <1>1, RowAtVal
  <1>5. CASE c < P0
    <2>1. c + 1 \in 1 .. P0 /\ c = 0 + (c + 1) - 1
      BY ONLY <1>1, <1>5
    <2> QED  BY ONLY <1>3, <1>4, <1>5, <2>1 DEF RowSays, AtSays
  <1>6. CASE c >= P0
    <2>1. c >= 0 + P0 /\ c >= P0 + 0
      BY ONLY <1>1, <1>6
    <2> QED  BY ONLY <1>0, <1>3, <1>4, <2>1 DEF RowSays, AtSays
  <1>7. c < P0 \/ c >= P0
    BY ONLY <1>1
  <1> QED  BY ONLY <1>5, <1>6, <1>7

\* A line after the prompt.
LEMMA LineRow ==
    ASSUME NEW s \in Seq(Chars), NEW n \in Nat, n = Len(s)
    PROVE  SameRow(RowAt(Row(<<>>), P0, s, n), Row(s))
  <1> SUFFICES ASSUME NEW c \in Cols PROVE RowAt(Row(<<>>), P0, s, n)[c] = Row(s)[c]
    BY DEF SameRow
  <1>1. P0 \in Nat /\ c \in Nat /\ n \in Nat /\ 0 \in Nat
    BY PromptIs DEF Cols
  <1>2. 0 = Len(<<>>) /\ n = Len(s) /\ c \in Cols
    OBVIOUS
  <1>3. RowSays(<<>>, 0, c)
    BY ONLY <1>1, <1>2, RowVal
  <1>4. RowSays(s, n, c)
    BY ONLY <1>1, <1>2, RowVal
  <1>5. AtSays(Row(<<>>), P0, s, n, c)
    BY ONLY <1>1, <1>2, RowAtVal
  <1>6. c >= P0 + n => c >= P0 + 0
    BY ONLY <1>1
  <1> QED  BY ONLY <1>3, <1>4, <1>5, <1>6 DEF RowSays, AtSays

\* What is left of a line that is erased.
LEMMA EraseRow == ASSUME NEW s \in Seq(Chars) PROVE Cut(Row(<<>>), Row(s), P0)
  <1> SUFFICES ASSUME NEW c \in Cols PROVE Row(<<>>)[c] = IF c >= P0 THEN " " ELSE Row(s)[c]
    BY DEF Cut
  <1> DEFINE n == Len(s)
  <1>1. P0 \in Nat /\ c \in Nat /\ n \in Nat /\ 0 \in Nat
    BY PromptIs DEF Cols
  <1>2. 0 = Len(<<>>) /\ n = Len(s) /\ c \in Cols
    OBVIOUS
  <1> HIDE DEF n
  <1>3. RowSays(<<>>, 0, c)
    BY ONLY <1>1, <1>2, RowVal
  <1>4. RowSays(s, n, c)
    BY ONLY <1>1, <1>2, RowVal
  <1>5. (c >= P0 => c >= P0 + 0) /\ (~(c >= P0) => c < P0)
    BY ONLY <1>1
  <1> QED  BY ONLY <1>3, <1>4, <1>5 DEF RowSays

\* Writing nothing changes nothing.
LEMMA RowAtNone ==
    ASSUME NEW F, NEW x \in Nat, NEW t
    PROVE  SameRow(RowAt(F, x, t, 0), F)
  <1> SUFFICES ASSUME NEW c \in Cols PROVE RowAt(F, x, t, 0)[c] = F[c]
    BY DEF SameRow
  <1>1. c \in Nat /\ 0 \in Nat
    BY ShellDims DEF Cols
  <1>2. AtSays(F, x, t, 0, c)
    BY <1>1, RowAtVal
  <1>3. c < x \/ c >= x + 0
    BY <1>1
  <1> QED  BY ONLY <1>2, <1>3 DEF AtSays

\* Rows that show the same as a third show the same.
LEMMA SameRowTrans == ASSUME NEW F, NEW G, NEW H, SameRow(F, G), SameRow(G, H) PROVE SameRow(F, H)
  BY DEF SameRow

\* In either order.
LEMMA SameRowSym == ASSUME NEW F, NEW G, SameRow(F, G) PROVE SameRow(G, F)
  BY DEF SameRow

\* A character put in a line, and the rest of the line after it.
LEMMA InsertRow ==
    ASSUME NEW s \in Seq(Chars), NEW n \in Nat, n = Len(s), NEW p \in 0 .. n, NEW ch \in Chars,
           NEW t, t = InsertAt(s, p + 1, ch), NEW f, f = From(s, p)
    PROVE  SameRow(RowAt(RowAt(Row(s), P0 + p, <<ch>>, 1), P0 + p + 1, f, n - p), Row(t))
  <1> DEFINE A == RowAt(Row(s), P0 + p, <<ch>>, 1)
             B == RowAt(A, P0 + p + 1, f, n - p)
  <1> SUFFICES ASSUME NEW c \in Cols PROVE B[c] = Row(t)[c]
    BY DEF SameRow
  <1>1. /\ P0 \in Nat /\ c \in Nat /\ n \in Nat /\ p \in Nat /\ p <= n /\ n + 1 \in Nat /\ P0 + p \in Nat /\ P0 + p + 1 \in Nat
        /\ n - p \in Nat /\ 1 \in Nat
    BY PromptIs DEF Cols
  <1>2. Len(t) = n + 1 /\ \A j \in 1 .. n + 1 : t[j] = IF j <= p THEN s[j] ELSE IF j = p + 1 THEN ch ELSE s[j - 1]
    <2>1. s \in Seq(Chars) /\ p \in 0 .. Len(s) /\ ch \in Chars /\ t = InsertAt(s, p + 1, ch) /\ n = Len(s)
      OBVIOUS
    <2>2. Len(InsertAt(s, p + 1, ch)) = Len(s) + 1 /\ Spliced(InsertAt(s, p + 1, ch), s, p, ch)
      BY ONLY <2>1, InsertIs
    <2> QED  BY ONLY <2>1, <2>2 DEF Spliced
  <1>3. \A j \in 1 .. n - p : f[j] = s[p + j]
    BY FromIs
  <1>4. RowSays(s, n, c) /\ RowSays(t, n + 1, c)
    BY <1>1, <1>2, RowVal
  <1>5. AtSays(Row(s), P0 + p, <<ch>>, 1, c) /\ AtSays(A, P0 + p + 1, f, n - p, c)
    BY <1>1, RowAtVal
  <1>6. <<ch>>[1] = ch
    OBVIOUS
  <1>7. /\ c < P0 + p \/ c >= P0 + p + 1 => A[c] = Row(s)[c]
        /\ \A i \in 1 .. 1 : c = P0 + p + i - 1 => A[c] = <<ch>>[i]
    BY ONLY <1>5 DEF AtSays, A
  <1>8. /\ c < P0 + p + 1 \/ c >= P0 + p + 1 + (n - p) => B[c] = A[c]
        /\ \A i \in 1 .. n - p : c = P0 + p + 1 + i - 1 => B[c] = f[i]
    BY ONLY <1>5 DEF AtSays, B
  <1> HIDE DEF A, B
  <1>9. CASE c < P0
    <2>1. c < P0 + p /\ c < P0 + p + 1
      BY ONLY <1>1, <1>9
    <2> QED  BY ONLY <1>4, <1>7, <1>8, <1>9, <2>1 DEF RowSays
  <1>10. CASE c >= P0 + (n + 1)
    <2>1. c >= P0 + p + 1 /\ c >= P0 + p + 1 + (n - p) /\ c >= P0 + n
      BY ONLY <1>1, <1>10
    <2> QED  BY ONLY <1>4, <1>7, <1>8, <1>10, <2>1 DEF RowSays
  <1>11. ASSUME NEW j \in 1 .. n + 1, c = P0 + j - 1 PROVE B[c] = Row(t)[c]
    <2>1. Row(t)[c] = t[j]
      BY ONLY <1>4, <1>11 DEF RowSays
    <2>2. CASE j <= p
      <3>1. j \in 1 .. n /\ c < P0 + p /\ c < P0 + p + 1
        BY ONLY <1>1, <1>11, <2>2
      <3>2. t[j] = s[j]
        BY ONLY <1>2, <1>11, <2>2
      <3>3. Row(s)[c] = s[j]
        BY ONLY <1>4, <1>11, <3>1 DEF RowSays
      <3> QED  BY ONLY <1>7, <1>8, <2>1, <3>1, <3>2, <3>3
    <2>3. CASE j = p + 1
      <3>1. 1 \in 1 .. 1 /\ c = P0 + p + 1 - 1 /\ c < P0 + p + 1 /\ ~(j <= p)
        BY ONLY <1>1, <1>11, <2>3
      <3>2. t[j] = ch
        BY ONLY <1>2, <1>11, <2>3, <3>1
      <3> QED  BY ONLY <1>6, <1>7, <1>8, <2>1, <3>1, <3>2
    <2>4. CASE j > p + 1
      <3>1. j - p - 1 \in 1 .. n - p /\ c = P0 + p + 1 + (j - p - 1) - 1 /\ ~(j <= p) /\ j # p + 1 /\ p + (j - p - 1) = j - 1
        BY ONLY <1>1, <1>11, <2>4
      <3>2. t[j] = s[j - 1]
        BY ONLY <1>2, <1>11, <2>4, <3>1
      <3>3. f[j - p - 1] = s[p + (j - p - 1)]
        BY ONLY <1>3, <3>1
      <3>4. B[c] = f[j - p - 1]
        BY ONLY <1>8, <3>1
      <3> QED  BY ONLY <2>1, <3>1, <3>2, <3>3, <3>4
    <2>5. j <= p \/ j = p + 1 \/ j > p + 1
      BY ONLY <1>1, <1>11
    <2> QED  BY ONLY <2>2, <2>3, <2>4, <2>5
  <1> QED  BY ONLY <1>4, <1>9, <1>10, <1>11 DEF RowSays

\* A character taken from a line: the rest moves up, and a blank covers its last place.
LEMMA RemoveRow ==
    ASSUME NEW s \in Seq(Chars), NEW n \in Nat, n = Len(s), NEW p \in 1 .. n,
           NEW t, t = RemoveAt(s, p), NEW f, f = From(t, p - 1)
    PROVE  SameRow(RowAt(RowAt(Row(s), P0 + p - 1, f, n - p), P0 + n - 1, <<" ">>, 1), Row(t))
  <1> DEFINE A == RowAt(Row(s), P0 + p - 1, f, n - p)
             B == RowAt(A, P0 + n - 1, <<" ">>, 1)
  <1> SUFFICES ASSUME NEW c \in Cols PROVE B[c] = Row(t)[c]
    BY DEF SameRow
  <1>1. /\ P0 \in Nat /\ c \in Nat /\ n \in Nat /\ p \in Nat /\ p <= n /\ 1 <= p /\ n - 1 \in Nat /\ P0 + p - 1 \in Nat
        /\ P0 + n - 1 \in Nat /\ n - p \in Nat /\ 1 \in Nat /\ p - 1 \in 0 .. n - 1 /\ (n - 1) - (p - 1) = n - p
    BY PromptIs DEF Cols
  <1>2. t \in Seq(Chars) /\ Len(t) = n - 1 /\ \A j \in 1 .. n - 1 : t[j] = IF j < p THEN s[j] ELSE s[j + 1]
    BY RemoveIs
  <1>3. \A j \in 1 .. n - p : f[j] = t[p - 1 + j]
    <2>1. p - 1 \in 0 .. Len(t) /\ Len(t) - (p - 1) = n - p
      BY ONLY <1>1, <1>2
    <2>2. \A j \in 1 .. Len(t) - (p - 1) : From(t, p - 1)[j] = t[p - 1 + j]
      BY ONLY <1>2, <2>1, FromIs
    <2> QED  BY <2>1, <2>2
  <1>4. RowSays(s, n, c) /\ RowSays(t, n - 1, c)
    BY <1>1, <1>2, RowVal
  <1>5. AtSays(Row(s), P0 + p - 1, f, n - p, c) /\ AtSays(A, P0 + n - 1, <<" ">>, 1, c)
    BY <1>1, RowAtVal
  <1>6. <<" ">>[1] = " "
    OBVIOUS
  <1>7. /\ c < P0 + p - 1 \/ c >= P0 + p - 1 + (n - p) => A[c] = Row(s)[c]
        /\ \A i \in 1 .. n - p : c = P0 + p - 1 + i - 1 => A[c] = f[i]
    BY ONLY <1>5 DEF AtSays, A
  <1>8. /\ c < P0 + n - 1 \/ c >= P0 + n - 1 + 1 => B[c] = A[c]
        /\ \A i \in 1 .. 1 : c = P0 + n - 1 + i - 1 => B[c] = <<" ">>[i]
    BY ONLY <1>5 DEF AtSays, B
  <1> HIDE DEF A, B
  <1>9. CASE c < P0
    <2>1. c < P0 + p - 1 /\ c < P0 + n - 1
      BY ONLY <1>1, <1>9
    <2> QED  BY ONLY <1>4, <1>7, <1>8, <1>9, <2>1 DEF RowSays
  <1>10. CASE c >= P0 + (n - 1)
    <2>1. Row(t)[c] = " "
      BY ONLY <1>4, <1>10 DEF RowSays
    <2>2. CASE c = P0 + n - 1
      <3>1. 1 \in 1 .. 1 /\ c = P0 + n - 1 + 1 - 1
        BY ONLY <1>1, <2>2
      <3> QED  BY ONLY <1>6, <1>8, <2>1, <3>1
    <2>3. CASE c >= P0 + n
      <3>1. c >= P0 + n - 1 + 1 /\ c >= P0 + p - 1 + (n - p)
        BY ONLY <1>1, <2>3
      <3> QED  BY ONLY <1>4, <1>7, <1>8, <2>1, <2>3, <3>1 DEF RowSays
    <2>4. c = P0 + n - 1 \/ c >= P0 + n
      BY ONLY <1>1, <1>10
    <2> QED  BY ONLY <2>2, <2>3, <2>4
  <1>11. ASSUME NEW j \in 1 .. n - 1, c = P0 + j - 1 PROVE B[c] = Row(t)[c]
    <2>1. Row(t)[c] = t[j]
      BY ONLY <1>4, <1>11 DEF RowSays
    <2>2. B[c] = A[c]
      <3>1. c < P0 + n - 1
        BY ONLY <1>1, <1>11
      <3> QED  BY ONLY <1>8, <3>1
    <2>3. CASE j < p
      <3>1. j \in 1 .. n /\ c < P0 + p - 1
        BY ONLY <1>1, <1>11, <2>3
      <3>2. t[j] = s[j]
        BY ONLY <1>2, <1>11, <2>3
      <3>3. Row(s)[c] = s[j]
        BY ONLY <1>4, <1>11, <3>1 DEF RowSays
      <3> QED  BY ONLY <1>7, <2>1, <2>2, <3>1, <3>2, <3>3
    <2>4. CASE ~(j < p)
      <3>1. j - p + 1 \in 1 .. n - p /\ c = P0 + p - 1 + (j - p + 1) - 1 /\ p - 1 + (j - p + 1) = j
        BY ONLY <1>1, <1>11, <2>4
      <3>3. f[j - p + 1] = t[p - 1 + (j - p + 1)]
        BY ONLY <1>3, <3>1
      <3>4. A[c] = f[j - p + 1]
        BY ONLY <1>7, <3>1
      <3> QED  BY ONLY <2>1, <2>2, <3>1, <3>3, <3>4
    <2> QED  BY ONLY <2>3, <2>4
  <1> QED  BY ONLY <1>4, <1>9, <1>10, <1>11 DEF RowSays

----------------------------------------------------------------------------
(* What the editor writes for each key. *)

\* Where the cursor may be.
LEMMA ColIs == ASSUME NEW k \in 0 .. MaxLine PROVE P0 + k \in Cols /\ P0 + k \in Nat /\ P0 + k <= SW - 1
  BY PromptIs DEF Cols

\* The arithmetic of the cursor.
LEMMA MoreSizes ==
    ASSUME NEW n \in Nat, NEW p \in 0 .. n, NEW m \in 0 .. 99, n <= m
    PROVE  /\ n \in 0 .. m /\ p \in 0 .. m /\ n - p \in 0 .. m /\ n - p \in 0 .. 99 /\ p + (n - p) = n /\ m \in Nat
           /\ (p # 0 => p \in 1 .. n /\ (n - 1) - p + 2 = n - p + 1 /\ n - p + 1 \in 0 .. m /\ n - p + 1 \in 0 .. 99)
  OBVIOUS

\* The console, at the end of what it writes, shows the line.
LineHeld(s, p, t, q, bs) == Writes(bs, Row(s), P0 + p, Row(t), P0 + q)

\* The prompt.
LEMMA WritesPrompt == Writes(Prompt, EmptyRow, 0, Row(<<>>), P0 + 0)
  <1>1. 0 + Len(Prompt) <= SW - 1 /\ 0 + Len(Prompt) = P0 + 0 /\ Len(Prompt) = P0 /\ Prompt \in Seq(Printable)
    BY PromptIs DEF P0
  <1>2. Writes(Prompt, EmptyRow, 0, RowAt(EmptyRow, 0, Prompt, Len(Prompt)), 0 + Len(Prompt))
    BY <1>1, WritesText
  <1>3. Writes(Prompt, EmptyRow, 0, RowAt(EmptyRow, 0, Prompt, P0), P0 + 0)
    BY <1>1, <1>2
  <1> QED  BY <1>3, PromptRow, WritesRow

\* Enter: to the end of the line, its output, and a new prompt.
LEMMA EnterWrites ==
    ASSUME EditInv, NEW o \in Outputs, Enter(o)
    PROVE  LineHeld(line, pos, line', pos', out')
  <1> DEFINE r == IF pos /= Len(line) THEN Right(Len(line) - pos) ELSE <<>>
             n == Len(line)
  <1>1. line' = <<>> /\ pos' = 0 /\ out' = r \o <<"NL">> \o o \o Prompt
    BY DEF Enter, Start
  <1>2. n \in 0 .. MaxLine /\ pos \in 0 .. MaxLine /\ n - pos \in 0 .. MaxLine /\ n - pos \in 0 .. 99 /\ pos + (n - pos) = n /\ n \in Nat
    BY EditSizes, MoreSizes
  <1>3. P0 + n \in Cols /\ P0 + pos \in Cols /\ P0 \in Nat
    BY <1>2, ColIs, PromptIs
  <1>4. r \in Seq(AllBytes) /\ Writes(r, Row(line), P0 + pos, Row(line), P0 + n)
    <2>1. CASE pos # n
      <3>1. r = Right(n - pos)
        BY <2>1
      <3> HIDE DEF r, n
      <3>2. P0 + n = P0 + pos + (n - pos)
        BY <1>2, <1>3
      <3>3. Right(n - pos) \in Seq(AllBytes)
        BY <1>2, MoveBytes
      <3>4. Writes(Right(n - pos), Row(line), P0 + pos, Row(line), P0 + n)
        BY <1>2, <1>3, <3>2, WritesRight
      <3> QED  BY <3>1, <3>3, <3>4
    <2>2. CASE pos = n
      <3>1. r = <<>>
        BY <2>2
      <3> HIDE DEF r, n
      <3> QED  BY <2>2, <3>1, WritesNone, EscBytes
    <2> QED  BY <2>1, <2>2
  <1> HIDE DEF r, n
  <1>5. <<"NL">> \in Seq(AllBytes) /\ o \in Seq(AllBytes) /\ Prompt \in Seq(AllBytes) /\ Prompt \in Seq(Printable)
    BY EscBytes, OutputBytes, PromptIs, PrintableBytes
  <1>6. Writes(<<"NL">>, Row(line), P0 + n, EmptyRow, 0) /\ Writes(o, EmptyRow, 0, EmptyRow, 0)
    BY WritesFeed, WritesOutput
  <1>7. Writes(Prompt, EmptyRow, 0, Row(<<>>), P0 + 0)
    BY WritesPrompt
  <1>8. r \o <<"NL">> \in Seq(AllBytes) /\ Writes(r \o <<"NL">>, Row(line), P0 + pos, EmptyRow, 0)
    BY <1>4, <1>5, <1>6, WritesCat, ConcatProperties
  <1>9. r \o <<"NL">> \o o \in Seq(AllBytes) /\ Writes(r \o <<"NL">> \o o, Row(line), P0 + pos, EmptyRow, 0)
    BY <1>5, <1>6, <1>8, WritesCat, ConcatProperties
  <1>10. Writes(r \o <<"NL">> \o o \o Prompt, Row(line), P0 + pos, Row(<<>>), P0 + 0)
    BY <1>5, <1>7, <1>9, WritesCat
  <1> QED  BY <1>1, <1>10 DEF LineHeld

\* Backspace: back, the rest of the line, a blank over its last place, and back again.
LEMMA BackspaceWrites ==
    ASSUME EditInv, Backspace
    PROVE  LineHeld(line, pos, line', pos', out')
  <1> DEFINE s == RemoveAt(line, pos)
             n == Len(line)
             f == From(s, pos - 1)
             m == Len(s) - pos + 2
             A == RowAt(Row(line), P0 + pos - 1, f, n - pos)
             B == RowAt(A, P0 + n - 1, <<" ">>, 1)
  <1>1. /\ pos # 0 /\ line' = s /\ pos' = pos - 1
        /\ out' = <<"ESC", "[", "D">> \o f \o <<" ">> \o Left(m)
    BY DEF Backspace
  <1>2. line \in Seq(Chars) /\ n \in 0 .. MaxLine /\ pos \in 1 .. n /\ n \in Nat /\ MaxLine \in Nat /\ n = Len(line)
    BY <1>1, EditSizes, MoreSizes
  <1>3. s \in Seq(Chars) /\ Len(s) = n - 1
    BY <1>2, RemoveIs
  <1>4. f \in Seq(Chars) /\ Len(f) = n - pos
    <2>1. pos - 1 \in 0 .. Len(s) /\ Len(s) - (pos - 1) = n - pos
      BY <1>2, <1>3
    <2> HIDE DEF s, n
    <2> QED  BY <1>3, <2>1, FromIs
  <1>5. m = n - pos + 1 /\ m \in 0 .. MaxLine /\ m \in 0 .. 99 /\ MaxLine \in 0 .. 99
    <2>1. m = (n - 1) - pos + 2
      BY <1>3
    <2>2. /\ (n - 1) - pos + 2 = n - pos + 1 /\ n - pos + 1 \in 0 .. MaxLine /\ n - pos + 1 \in 0 .. 99
          /\ MaxLine \in 0 .. 99
      BY <1>1, EditSizes, MoreSizes
    <2> HIDE DEF m
    <2> QED  BY ONLY <2>1, <2>2
  <1>r. SameRow(B, Row(s))
    BY <1>2, RemoveRow
  <1> HIDE DEF s, n, f, m
  <1>6. /\ P0 \in Nat /\ P0 + pos - 1 \in Cols /\ P0 + (pos - 1) = P0 + pos - 1 /\ P0 + n - 1 \in Cols /\ P0 + n <= SW - 1
        /\ P0 + pos - 1 + (n - pos) = P0 + n - 1 /\ P0 + n - 1 + 1 = P0 + n /\ P0 + pos - 1 + m = P0 + n
        /\ P0 + pos - 1 + 1 = P0 + pos
    BY <1>2, <1>5, PromptIs DEF Cols
  <1>7. /\ f \in Seq(Printable) /\ f \in Seq(AllBytes) /\ <<" ">> \in Seq(Printable) /\ <<" ">> \in Seq(AllBytes) /\ Len(<<" ">>) = 1
        /\ <<"ESC", "[", "D">> \in Seq(AllBytes) /\ Left(m) \in Seq(AllBytes)
    <2>1. " " \in Printable
      BY DEF Printable
    <2>a. \A a \in Printable : <<a>> \in Seq(Printable) /\ Len(<<a>>) = 1
      OBVIOUS
    <2>2. <<" ">> \in Seq(Printable) /\ Len(<<" ">>) = 1
      BY ONLY <2>1, <2>a
    <2>3. f \in Seq(Printable) /\ f \in Seq(AllBytes)
      BY <1>4, LineBytes
    <2>4. Left(m) \in Seq(AllBytes)
      BY <1>5, MoveBytes
    <2> QED  BY ONLY <2>2, <2>3, <2>4, EscBytes
  <1>8. Writes(<<"ESC", "[", "D">>, Row(line), P0 + pos, Row(line), P0 + pos - 1)
    BY <1>6, WritesShort
  <1>9. Writes(f, Row(line), P0 + pos - 1, A, P0 + n - 1)
    <2>1. P0 + pos - 1 + Len(f) = P0 + n - 1 /\ P0 + pos - 1 + Len(f) <= SW - 1
      BY <1>2, <1>4, <1>6, PromptIs
    <2>2. Writes(f, Row(line), P0 + pos - 1, RowAt(Row(line), P0 + pos - 1, f, Len(f)), P0 + pos - 1 + Len(f))
      BY <1>7, <2>1, WritesText
    <2> QED  BY <1>4, <2>1, <2>2
  <1> HIDE DEF A
  <1>10. Writes(<<" ">>, A, P0 + n - 1, B, P0 + n)
    <2>1. P0 + n - 1 + Len(<<" ">>) = P0 + n /\ P0 + n - 1 + Len(<<" ">>) <= SW - 1
      BY <1>2, <1>6, <1>7, PromptIs
    <2>2. Writes(<<" ">>, A, P0 + n - 1, RowAt(A, P0 + n - 1, <<" ">>, Len(<<" ">>)), P0 + n - 1 + Len(<<" ">>))
      BY <1>7, <2>1, WritesText
    <2> QED  BY <1>7, <2>1, <2>2
  <1> HIDE DEF B
  <1>11. Writes(<<" ">>, A, P0 + n - 1, Row(s), P0 + n)
    BY <1>10, <1>r, WritesRow DEF B
  <1>12. Writes(Left(m), Row(s), P0 + n, Row(s), P0 + pos - 1)
    BY <1>5, <1>6, WritesLeft
  <1>13. /\ <<"ESC", "[", "D">> \o f \in Seq(AllBytes)
         /\ Writes(<<"ESC", "[", "D">> \o f, Row(line), P0 + pos, A, P0 + n - 1)
    BY <1>7, <1>8, <1>9, WritesCat, ConcatProperties
  <1>14. /\ <<"ESC", "[", "D">> \o f \o <<" ">> \in Seq(AllBytes)
         /\ Writes(<<"ESC", "[", "D">> \o f \o <<" ">>, Row(line), P0 + pos, Row(s), P0 + n)
    BY <1>7, <1>11, <1>13, WritesCat, ConcatProperties
  <1>15. Writes(<<"ESC", "[", "D">> \o f \o <<" ">> \o Left(m), Row(line), P0 + pos, Row(s), P0 + pos - 1)
    BY <1>7, <1>12, <1>14, WritesCat
  <1> QED  BY <1>1, <1>6, <1>15 DEF LineHeld

\* A character: it, the rest of the line, and back.
LEMMA InsertWrites ==
    ASSUME EditInv, NEW ch \in Chars, Insert(ch)
    PROVE  LineHeld(line, pos, line', pos', out')
  <1> DEFINE s == InsertAt(line, pos + 1, ch)
             n == Len(line)
             f == From(line, pos)
             A == RowAt(Row(line), P0 + pos, <<ch>>, 1)
             B == RowAt(A, P0 + pos + 1, f, n - pos)
             t == IF pos /= Len(line) THEN From(line, pos) \o Left(Len(line) - pos) ELSE <<>>
  <1>1. n < MaxLine /\ line' = s /\ pos' = pos + 1 /\ out' = <<ch>> \o t
    BY DEF Insert
  <1>2. line \in Seq(Chars) /\ n \in 0 .. MaxLine /\ pos \in 0 .. n /\ n \in Nat /\ MaxLine \in 0 .. 99 /\ n = Len(line)
    BY EditSizes
  <1>3. f \in Seq(Chars) /\ Len(f) = n - pos
    BY <1>2, FromIs
  <1>4. SameRow(B, Row(s))
    BY <1>2, InsertRow
  <1>a. (pos # n => t = f \o Left(n - pos)) /\ (pos = n => t = <<>>)
    OBVIOUS
  <1> HIDE DEF s, n, f, t
  <1>5. /\ P0 \in Nat /\ P0 + pos + 1 \in Nat /\ P0 + (pos + 1) = P0 + pos + 1 /\ P0 + pos + 1 \in Cols /\ P0 + pos + 1 <= SW - 1
        /\ P0 + n + 1 <= SW - 1 /\ P0 + pos + 1 + (n - pos) = P0 + n + 1 /\ n - pos \in 0 .. MaxLine /\ n - pos \in 0 .. 99
    BY <1>1, <1>2, PromptIs DEF Cols
  <1>6. /\ f \in Seq(Printable) /\ f \in Seq(AllBytes) /\ <<ch>> \in Seq(Printable) /\ <<ch>> \in Seq(AllBytes) /\ Len(<<ch>>) = 1
        /\ Left(n - pos) \in Seq(AllBytes)
    <2>1. ch \in Printable
      BY PromptIs
    <2>2. <<ch>> \in Seq(Printable) /\ Len(<<ch>>) = 1
      BY <2>1
    <2> QED  BY <1>3, <1>5, <2>2, LineBytes, PrintableBytes, MoveBytes
  <1>7. Writes(<<ch>>, Row(line), P0 + pos, A, P0 + pos + 1)
    <2>1. P0 + pos + Len(<<ch>>) = P0 + pos + 1 /\ P0 + pos + Len(<<ch>>) <= SW - 1
      BY <1>5, <1>6
    <2>2. Writes(<<ch>>, Row(line), P0 + pos, RowAt(Row(line), P0 + pos, <<ch>>, Len(<<ch>>)), P0 + pos + Len(<<ch>>))
      BY <1>6, <2>1, WritesText
    <2> QED  BY <1>6, <2>1, <2>2
  <1> HIDE DEF A
  <1>8. CASE pos # n
    <2>1. Writes(f, A, P0 + pos + 1, B, P0 + n + 1)
      <3>1. P0 + pos + 1 + Len(f) = P0 + n + 1 /\ P0 + pos + 1 + Len(f) <= SW - 1
        BY <1>3, <1>5
      <3>2. Writes(f, A, P0 + pos + 1, RowAt(A, P0 + pos + 1, f, Len(f)), P0 + pos + 1 + Len(f))
        BY <1>6, <3>1, WritesText
      <3> QED  BY <1>3, <3>1, <3>2
    <2> HIDE DEF B
    <2>2. Writes(f, A, P0 + pos + 1, Row(s), P0 + n + 1)
      BY <1>4, <2>1, WritesRow DEF B
    <2>3. Writes(Left(n - pos), Row(s), P0 + n + 1, Row(s), P0 + pos + 1)
      BY <1>5, WritesLeft
    <2>4. t \in Seq(AllBytes) /\ Writes(t, A, P0 + pos + 1, Row(s), P0 + pos + 1)
      BY <1>6, <1>8, <1>a, <2>2, <2>3, WritesCat, ConcatProperties
    <2>5. Writes(<<ch>> \o t, Row(line), P0 + pos, Row(s), P0 + pos + 1)
      BY <1>6, <1>7, <2>4, WritesCat
    <2> QED  BY <1>1, <1>5, <2>5 DEF LineHeld
  <1>9. CASE pos = n
    <2>1. n - pos = 0
      BY <1>2, <1>9
    <2>2. SameRow(B, A)
      BY <1>5, <2>1, RowAtNone
    <2>3. SameRow(A, Row(s))
      BY <1>4, <2>2, SameRowSym, SameRowTrans
    <2>4. Writes(<<ch>>, Row(line), P0 + pos, Row(s), P0 + pos + 1)
      BY <1>7, <2>3, WritesRow
    <2>5. Writes(<<>>, Row(s), P0 + pos + 1, Row(s), P0 + pos + 1) /\ <<>> \in Seq(AllBytes)
      BY WritesNone, EscBytes
    <2>6. Writes(<<ch>> \o t, Row(line), P0 + pos, Row(s), P0 + pos + 1)
      BY <1>6, <1>9, <1>a, <2>4, <2>5, WritesCat
    <2> QED  BY <1>1, <1>5, <2>6 DEF LineHeld
  <1> QED  BY <1>8, <1>9

\* Up and down: to the start of the line, which is erased, and the other line.
LEMMA RecallWrites ==
    ASSUME EditInv, NEW p \in 0 .. hist.len, p # hpos, Recall(p)
    PROVE  LineHeld(line, pos, line', pos', out')
  <1> DEFINE s == LineAt(p)
             t == IF line /= <<>> THEN Left(pos) \o <<"ESC", "[", "K">> ELSE <<>>
  <1>1. line' = s /\ pos' = Len(s) /\ out' = t \o s
    <2> DEFINE r == IF modified[p] /= {} THEN CHOOSE i \in modified[p] : TRUE ELSE History!Contents(hist)[p + 1]
    <2>1. line' = r /\ pos' = Len(r) /\ out' = t \o r
      BY DEF Recall
    <2>2. s = r
      BY DEF LineAt
    <2> HIDE DEF r, s, t
    <2> QED  BY <2>1, <2>2
  <1>2. s \in Lines
    BY LineAtIs
  <1>a. (line # <<>> => t = Left(pos) \o <<"ESC", "[", "K">>) /\ (line = <<>> => t = <<>>)
    OBVIOUS
  <1> HIDE DEF s, t
  <1>3. s \in Seq(Chars) /\ Len(s) \in 0 .. MaxLine /\ Len(s) \in Nat
    BY <1>2, HistAssumption DEF Lines
  <1>4. s \in Seq(Printable) /\ s \in Seq(AllBytes)
    BY <1>3, LineBytes
  <1>5. line \in Seq(Chars) /\ pos \in 0 .. MaxLine /\ pos \in 0 .. 99 /\ (line = <<>> => pos = 0) /\ P0 \in Nat /\ P0 \in Cols
    <2>1. line \in Seq(Chars) /\ pos \in 0 .. MaxLine /\ pos \in 0 .. 99
      BY EditSizes, MoreSizes, Sizes
    <2>2. line = <<>> => pos = 0
      BY EditSizes
    <2> QED  BY <2>1, <2>2, PromptIs DEF Cols
  <1>6. Writes(s, Row(<<>>), P0, Row(s), P0 + Len(s))
    <2>1. P0 + Len(s) <= SW - 1
      BY <1>3, ColIs
    <2>2. Writes(s, Row(<<>>), P0, RowAt(Row(<<>>), P0, s, Len(s)), P0 + Len(s))
      BY <1>4, <2>1, WritesText
    <2>3. SameRow(RowAt(Row(<<>>), P0, s, Len(s)), Row(s))
      BY <1>3, LineRow
    <2> QED  BY <2>2, <2>3, WritesRow
  <1>7. t \in Seq(AllBytes) /\ Writes(t, Row(line), P0 + pos, Row(<<>>), P0)
    <2>1. CASE line = <<>>
      <3>1. P0 + pos = P0 /\ t = <<>>
        BY <1>5, <1>a, <2>1
      <3> QED  BY <2>1, <3>1, WritesNone, EscBytes
    <2>2. CASE line # <<>>
      <3>1. Writes(Left(pos), Row(line), P0 + pos, Row(line), P0)
        BY <1>5, WritesLeft
      <3>2. Writes(<<"ESC", "[", "K">>, Row(line), P0, Row(<<>>), P0)
        BY <1>5, EraseRow, WritesErase
      <3>3. Left(pos) \in Seq(AllBytes) /\ <<"ESC", "[", "K">> \in Seq(AllBytes)
        BY <1>5, MoveBytes, EscBytes
      <3>4. t = Left(pos) \o <<"ESC", "[", "K">>
        BY <1>a, <2>2
      <3>5. Left(pos) \o <<"ESC", "[", "K">> \in Seq(AllBytes)
        BY <3>3, ConcatProperties
      <3>6. Writes(Left(pos) \o <<"ESC", "[", "K">>, Row(line), P0 + pos, Row(<<>>), P0)
        BY <3>1, <3>2, <3>3, WritesCat
      <3> QED  BY <3>4, <3>5, <3>6
    <2> QED  BY <2>1, <2>2
  <1>8. Writes(t \o s, Row(line), P0 + pos, Row(s), P0 + Len(s))
    BY <1>4, <1>6, <1>7, WritesCat
  <1> QED  BY <1>1, <1>8 DEF LineHeld

\* Every arrow key.
LEMMA ArrowWrites ==
    ASSUME EditInv, out = <<>>, NEW ch, Arrow(ch)
    PROVE  LineHeld(line, pos, line', pos', out')
  <1>1. hpos \in 0 .. hist.len /\ hist.len \in Nat /\ pos \in 0 .. Len(line) /\ Len(line) \in Nat
    BY HistAssumption DEF EditInv, HistLines, Lines
  <1>2. CASE ch = "A" /\ hpos # 0 /\ Recall(hpos - 1)
    <2>1. hpos - 1 \in 0 .. hist.len /\ hpos - 1 # hpos
      BY <1>1, <1>2
    <2> QED  BY <1>2, <2>1, RecallWrites
  <1>3. CASE ch = "B" /\ hpos # hist.len /\ Recall(hpos + 1)
    <2>1. hpos + 1 \in 0 .. hist.len /\ hpos + 1 # hpos
      BY <1>1, <1>3
    <2> QED  BY <1>3, <2>1, RecallWrites
  <1>4. Len(line) <= MaxLine /\ MaxLine \in 0 .. 99 /\ P0 \in Nat
    BY EditSizes, PromptIs
  <1>5. CASE pos # Len(line) /\ pos' = pos + 1 /\ out' = <<"ESC", "[", "C">> /\ UNCHANGED line
    <2>1. pos + 1 \in 0 .. MaxLine /\ P0 + (pos + 1) = P0 + pos + 1
      BY <1>1, <1>4, <1>5
    <2>2. P0 + (pos + 1) \in Cols
      BY <2>1, ColIs
    <2>3. Writes(<<"ESC", "[", "C">>, Row(line), P0 + pos, Row(line), P0 + (pos + 1))
      BY <2>1, <2>2, WritesShort
    <2> QED  BY <1>5, <2>3 DEF LineHeld
  <1>6. CASE pos # 0 /\ pos' = pos - 1 /\ out' = <<"ESC", "[", "D">> /\ UNCHANGED line
    <2>1. pos - 1 \in 0 .. MaxLine /\ P0 + (pos - 1) + 1 = P0 + pos
      BY <1>1, <1>4, <1>6
    <2>2. P0 + (pos - 1) \in Cols
      BY <2>1, ColIs
    <2>3. Writes(<<"ESC", "[", "D">>, Row(line), P0 + pos, Row(line), P0 + (pos - 1))
      BY <2>1, <2>2, WritesShort
    <2> QED  BY <1>6, <2>3 DEF LineHeld
  <1>7. CASE UNCHANGED <<line, pos, out>>
    BY <1>7, WritesNone DEF LineHeld
  <1> QED  BY <1>2, <1>3, <1>5, <1>6, <1>7 DEF Arrow

\* Whatever is typed, what the editor writes takes the row from the old line to the new one.
LEMMA TypedWrites ==
    ASSUME EditInv, NEW ch, Typed(ch)
    PROVE  LineHeld(line, pos, line', pos', out')
  <1>0. out = <<>>
    BY DEF Typed
  <1>1. CASE EscapeChar(ch)
    BY <1>0, <1>1, WritesNone DEF EscapeChar, LineHeld
  <1>2. CASE Arrow(ch)
    BY <1>0, <1>2, ArrowWrites
  <1>3. CASE \E o \in Outputs : Enter(o)
    BY <1>3, EnterWrites
  <1>4. CASE Backspace
    BY <1>4, BackspaceWrites
  <1>5. CASE ch \in Chars /\ Insert(ch)
    BY <1>5, InsertWrites
  <1> QED  BY <1>1, <1>2, <1>3, <1>4, <1>5 DEF Typed

----------------------------------------------------------------------------
(* The line on the screen. *)

\* What is still to be written takes the terminal to one that shows the line.
ShellInv ==
  writer = "shell" => \E u : Reach(vt, out, u) /\ Body(u, Row(line), P0 + pos) /\ Idle(u)

\* A new terminal is empty, with the cursor at its start.
LEMMA NewBody == Body(NewTerminal(SW, SH), EmptyRow, 0) /\ Idle(NewTerminal(SW, SH))
  <1> DEFINE v == NewTerminal(SW, SH)
             f == [i \in 0 .. SW * SH - 1 |-> <<" ", White, Black>>]
  <1>1. /\ DOMAIN v = VtFields /\ v.size = <<SW, SH>> /\ v.buf = f /\ v.buf_line = 0 /\ v.cursor_pos = <<0, 0>>
        /\ v.fg_color = White /\ v.bg_color = Black /\ v.ansi = NewParser
    BY DEF NewTerminal, VtFields
  <1>2. DOMAIN f = 0 .. SW * SH - 1 /\ \A i \in 0 .. SW * SH - 1 : f[i] = <<" ", White, Black>>
    OBVIOUS
  <1> HIDE DEF f, v
  <1>3. SW \in Nat \ {0} /\ SH \in Nat \ {0, 1} /\ 0 \in 0 .. SW - 1 /\ 0 \in 0 .. SH - 1
    BY ShellDims
  <1>4. VtOK(v, SW, SH, 0, 0)
    BY <1>1, <1>2, <1>3 DEF VtOK, Grid
  <1>5. \A s \in Cols, z \in 0 .. SH - 1 : Shown(v, s, z)[1] = " "
    <2> TAKE s \in Cols, z \in 0 .. SH - 1
    <2>0. s \in 0 .. SW - 1
      BY DEF Cols
    <2>1. Rows(v, SW, SH)
      BY <1>1, <1>3 DEF Rows
    <2>2. Off(v, s, z) \in 0 .. SW * SH - 1
      BY <2>0, <2>1, Cells
    <2>3. Cell(v, s, z) = VTChar(v, " ")
      BY <1>1, <1>2, <2>2 DEF Cell, VTChar
    <2>4. Shown(v, s, z) = Tile(v, " ")
      BY <2>3, BlankFace DEF Shown
    <2>5. Tile(v, " ")[1] = " "
      BY DEF Tile
    <2> QED  BY <2>4, <2>5
  <1>6. RowIs(v, 0, EmptyRow)
    BY <1>3, <1>5 DEF RowIs, EmptyRow
  <1>7. BlankBelow(v, 0)
    BY <1>5 DEF BlankBelow
  <1>8. Idle(v)
    BY <1>1 DEF Idle, NewParser, Parser
  <1> QED  BY <1>4, <1>6, <1>7, <1>8 DEF Body, Calm, v

\* At the start the prompt is still to be written.
LEMMA InitShell == ASSUME Init PROVE ShellInv
  <1> SUFFICES ASSUME writer = "shell" PROVE \E u : Reach(vt, out, u) /\ Body(u, Row(line), P0 + pos) /\ Idle(u)
    BY DEF ShellInv
  <1>1. vt = NewTerminal(SW, SH) /\ out = Prompt /\ line = <<>> /\ pos = 0
    BY DEF Init, RlInit, SW, SH
  <1>2. Body(vt, EmptyRow, 0) /\ Idle(vt)
    BY <1>1, NewBody
  <1>3. PICK u : Reach(vt, Prompt, u) /\ Body(u, Row(<<>>), P0 + 0) /\ Idle(u)
    BY <1>2, WritesPrompt DEF Writes
  <1> QED  BY <1>1, <1>3

\* A byte that is written is one less to write, and a key is answered by what takes the row to the new line.
LEMMA NextShell ==
    ASSUME EditInv, ShellInv, [Next]_vars
    PROVE  ShellInv'
  <1>1. CASE UNCHANGED <<writer, vt, out, line, pos>>
    BY <1>1 DEF ShellInv
  <1>2. ASSUME NEW b, WriteAny(b) PROVE ShellInv'
    BY <1>2 DEF WriteAny, ShellInv
  <1>3. CASE WriteOut
    <2>1. /\ writer = "shell" /\ writer' = writer /\ out # <<>> /\ vt' = AfterByte(vt, Head(out)) /\ out' = Tail(out)
          /\ line' = line /\ pos' = pos
      BY <1>3 DEF WriteOut, WriteByte
    <2>2. PICK u : Reach(vt, out, u) /\ Body(u, Row(line), P0 + pos) /\ Idle(u)
      BY <2>1 DEF ShellInv
    <2>3. out \in Seq(AllBytes)
      BY DEF EditInv
    <2>4. Reach(AfterByte(vt, Head(out)), Tail(out), u)
      BY <2>1, <2>2, <2>3, ReachRest
    <2> QED  BY <2>1, <2>2, <2>4 DEF ShellInv
  <1>4. ASSUME NEW ch, Type(ch) PROVE ShellInv'
    <2>1. writer = "shell" /\ writer' = writer /\ vt' = vt /\ out = <<>> /\ Typed(ch)
      BY <1>4 DEF Type, Typed
    <2>2. Body(vt, Row(line), P0 + pos) /\ Idle(vt)
      BY <2>1, ReachNil DEF ShellInv
    <2>3. LineHeld(line, pos, line', pos', out')
      BY <2>1, TypedWrites
    <2>4. \E u : Reach(vt, out', u) /\ Body(u, Row(line'), P0 + pos') /\ Idle(u)
      BY <2>2, <2>3 DEF LineHeld, Writes
    <2> QED  BY <2>1, <2>4 DEF ShellInv
  <1>5. CASE UNCHANGED vars
    BY <1>1, <1>5 DEF vars, rlVars
  <1> QED  BY <1>2, <1>3, <1>4, <1>5 DEF Next

\* What is still to be written always takes the terminal to one that shows the line.
THEOREM ShellInvariant == Spec => []ShellInv
  BY InitShell, NextShell, EditInvariant, PTL DEF Spec

\* With nothing left to write, that is what is shown.
LEMMA ShowsLine ==
    ASSUME EditInv, ShellInv, ScreenInv
    PROVE  LineShown
  <1> SUFFICES ASSUME writer = "shell", out = <<>>
               PROVE  LET w == vt.size[1]
                          text == Prompt \o line
                          cell(x) == vga.cells[vga.cursor[2] * w + x][1]
                      IN  /\ vga.cursor[1] = Len(Prompt) + pos
                          /\ \A x \in 0 .. w - 1 : cell(x) = IF x < Len(text) THEN text[x + 1] ELSE " "
    BY DEF LineShown
  <1>1. Body(vt, Row(line), P0 + pos)
    BY ReachNil DEF ShellInv
  <1>2. PICK y : Calm(vt, P0 + pos, y) /\ RowIs(vt, y, Row(line))
    BY <1>1 DEF Body
  <1>3. VtOK(vt, SW, SH, P0 + pos, y) /\ y \in 0 .. SH - 1 /\ vt.size[1] = SW
    BY <1>2 DEF Calm, VtOK, Grid
  <1>4. vga = Redraw(vt)
    BY DEF ScreenInv
  <1>5. vga.cursor = <<P0 + pos, y>> /\ \A x \in 0 .. SW - 1 : vga.cells[y * SW + x] = Shown(vt, x, y)
    BY <1>3, <1>4, RedrawShows
  <1> DEFINE text == Prompt \o line
             n == Len(line)
  <1>6. Prompt \in Seq(Printable) /\ line \in Seq(Printable) /\ P0 \in Nat /\ n \in Nat /\ P0 = Len(Prompt)
    BY PromptIs, EditSizes, LineBytes DEF P0
  <1>7. Len(text) = P0 + n /\ \A j \in 1 .. P0 + n : text[j] = IF j <= P0 THEN Prompt[j] ELSE line[j - P0]
    BY <1>6, ConcatProperties
  <1>8. ASSUME NEW x \in 0 .. SW - 1
        PROVE  vga.cells[y * SW + x][1] = IF x < P0 + n THEN text[x + 1] ELSE " "
    <2>1. x \in Cols /\ x \in Nat
      BY ShellDims DEF Cols
    <2>2. vga.cells[y * SW + x][1] = Row(line)[x]
      BY <1>2, <1>5, <2>1 DEF RowIs
    <2> HIDE DEF text, n
    <2>3. RowSays(line, n, x)
      BY <1>6, <2>1, RowVal DEF n
    <2>4. CASE x < P0
      <3>1. x < P0 + n /\ x + 1 \in 1 .. P0 + n /\ x + 1 <= P0
        BY <1>6, <2>1, <2>4
      <3>2. text[x + 1] = Prompt[x + 1]
        BY ONLY <1>7, <3>1
      <3> QED  BY ONLY <2>2, <2>3, <2>4, <3>1, <3>2 DEF RowSays
    <2>5. CASE x >= P0 + n
      <3>1. ~(x < P0 + n)
        BY ONLY <1>6, <2>1, <2>5
      <3> QED  BY ONLY <2>2, <2>3, <2>5, <3>1 DEF RowSays
    <2>6. ASSUME NEW j \in 1 .. n, x = P0 + j - 1
          PROVE  vga.cells[y * SW + x][1] = IF x < P0 + n THEN text[x + 1] ELSE " "
      <3>1. x < P0 + n /\ x + 1 \in 1 .. P0 + n /\ ~(x + 1 <= P0) /\ (x + 1) - P0 = j
        BY ONLY <1>6, <2>1, <2>6
      <3>2. text[x + 1] = line[(x + 1) - P0]
        <4> DEFINE k == x + 1
        <4>1. k \in 1 .. P0 + n /\ ~(k <= P0)
          BY ONLY <3>1
        <4> HIDE DEF k
        <4>2. text[k] = line[k - P0]
          BY ONLY <1>7, <4>1
        <4> QED  BY <4>2 DEF k
      <3>3. Row(line)[x] = line[j]
        BY ONLY <2>3, <2>6 DEF RowSays
      <3> QED  BY ONLY <2>2, <3>1, <3>2, <3>3
    <2> QED  BY ONLY <2>3, <2>4, <2>5, <2>6 DEF RowSays
  <1> HIDE DEF text, n
  <1>9. vga.cursor[1] = Len(Prompt) + pos /\ vga.cursor[2] = y
    BY <1>5, <1>6
  <1> QED  BY <1>3, <1>7, <1>8, <1>9 DEF text

\* When the console waits for a key, the row of the cursor shows the prompt, the line and nothing else, with
\* the cursor in its place (readline, and write_byte of the terminal).
THEOREM LineSafe == Spec => []LineShown
  BY ShowsLine, EditInvariant, ShellInvariant, ScreenInvariant, PTL
============================================================================
