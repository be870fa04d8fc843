------------------------------ MODULE Readline ------------------------------
(***************************************************************************)
(* The line editor of the debug console, readline of cmd.rs, one character *)
(* at a time, and the loop around it.  It keeps the lines of the history   *)
(* that were changed but not entered, so that they come back.              *)
(***************************************************************************)
EXTENDS Naturals, Sequences, SequencesExt

CONSTANTS HistCap,    \* lines the history keeps, 64 in the code
          Prompt,     \* "hkd> " in the code
          Chars,      \* characters that can be typed
          Outputs,    \* what a command may write
          MaxLine,    \* bound on the length of a line
          NoText      \* what an unused slot of the history holds

ASSUME HistAssumption == HistCap \in Nat \ {0} /\ MaxLine \in 0 .. 99

VARIABLES
  line, pos,    \* s and i: the line and the cursor in it
  hist,         \* CommandHistory
  hpos,         \* history_pos
  modified,     \* history_modified: no line, or one, per place
  esc,          \* characters of an escape sequence read so far
  out           \* bytes still to be written

History == INSTANCE Deque WITH N <- HistCap, Uninit <- NoText

rlVars == <<line, pos, hist, hpos, modified, esc, out>>

Fresh == [p \in 0 .. HistCap |-> {}]

Start(h) ==
  /\ line' = <<>> /\ pos' = 0 /\ hist' = h /\ hpos' = h.len
  /\ modified' = Fresh /\ esc' = <<>>

RlInit ==
  /\ line = <<>> /\ pos = 0 /\ hist = History!New /\ hpos = 0
  /\ modified = Fresh /\ esc = <<>> /\ out = Prompt

Digit(n) == <<"0", "1", "2", "3", "4", "5", "6", "7", "8", "9">>[n + 1]
(* A number below 100, as a column of the screen is. *)
Decimal(n) == IF n < 10 THEN <<Digit(n)>> ELSE <<Digit(n \div 10), Digit(n % 10)>>
Right(n) == <<"ESC", "[">> \o Decimal(n) \o <<"C">>
Left(n) == <<"ESC", "[">> \o Decimal(n) \o <<"D">>
From(s, i) == SubSeq(s, i + 1, Len(s))

(* '\n': the line goes to the history, the command runs, and the next
   prompt is written. *)
Enter(output) ==
  /\ Start(History!PushBack(IF History!IsFull(hist) THEN History!PopFront(hist) ELSE hist, line))
  /\ out' = (IF pos /= Len(line) THEN Right(Len(line) - pos) ELSE <<>>)
              \o <<"NL">> \o output \o Prompt

(* Mutant: takes the cursor back by the tail only. *)
BackspaceShort ==
  LET s == RemoveAt(line, pos) IN
  /\ pos /= 0
  /\ line' = s /\ pos' = pos - 1
  /\ out' = <<"ESC", "[", "D">> \o From(s, pos - 1) \o <<" ">> \o Left(Len(s) - pos + 1)
  /\ UNCHANGED <<hist, hpos, modified, esc>>

Backspace ==
  LET s == RemoveAt(line, pos) IN
  /\ pos /= 0
  /\ line' = s /\ pos' = pos - 1
  /\ out' = <<"ESC", "[", "D">> \o From(s, pos - 1) \o <<" ">> \o Left(Len(s) - pos + 2)
  /\ UNCHANGED <<hist, hpos, modified, esc>>

Insert(ch) ==
  LET s == InsertAt(line, pos + 1, ch) IN
  /\ Len(line) < MaxLine
  /\ line' = s /\ pos' = pos + 1
  /\ out' = <<ch>> \o (IF pos /= Len(line) THEN From(line, pos) \o Left(Len(line) - pos) ELSE <<>>)
  /\ UNCHANGED <<hist, hpos, modified, esc>>

(* Mutant: the line that is left is not kept. *)
RecallForgets(p) ==
  LET s == IF modified[p] /= {} THEN CHOOSE m \in modified[p] : TRUE
           ELSE History!Contents(hist)[p + 1] IN
  /\ hpos' = p
  /\ modified' = [modified EXCEPT ![hpos] = IF hpos = hist.len THEN {line} ELSE {}, ![p] = {}]
  /\ line' = s /\ pos' = Len(s)
  /\ out' = (IF line /= <<>> THEN Left(pos) \o <<"ESC", "[", "K">> ELSE <<>>) \o s
  /\ UNCHANGED hist

(* Up and down: keep the line as it is now, and fetch the one at p, changed
   or as it was entered. *)
Recall(p) ==
  LET s == IF modified[p] /= {} THEN CHOOSE m \in modified[p] : TRUE
           ELSE History!Contents(hist)[p + 1] IN
  /\ hpos' = p
  /\ modified' = [modified EXCEPT ![hpos] = {line}, ![p] = {}]
  /\ line' = s /\ pos' = Len(s)
  /\ out' = (IF line /= <<>> THEN Left(pos) \o <<"ESC", "[", "K">> ELSE <<>>) \o s
  /\ UNCHANGED hist

(* The last character of an arrow key's sequence; others are dropped. *)
Arrow(ch) ==
  /\ esc' = <<>>
  /\ \/ ch = "A" /\ hpos /= 0 /\ Recall(hpos - 1)
     \/ ch = "B" /\ hpos /= hist.len /\ Recall(hpos + 1)
     \/ /\ ch = "C" /\ pos /= Len(line)
        /\ pos' = pos + 1 /\ out' = <<"ESC", "[", "C">>
        /\ UNCHANGED <<line, hist, hpos, modified>>
     \/ /\ ch = "D" /\ pos /= 0
        /\ pos' = pos - 1 /\ out' = <<"ESC", "[", "D">>
        /\ UNCHANGED <<line, hist, hpos, modified>>
     \/ /\ \/ ch = "A" /\ hpos = 0
           \/ ch = "B" /\ hpos = hist.len
           \/ ch = "C" /\ pos = Len(line)
           \/ ch = "D" /\ pos = 0
           \/ ch \notin {"A", "B", "C", "D"}
        /\ UNCHANGED <<line, pos, hist, hpos, modified, out>>

EscapeChar(ch) ==
  /\ \/ esc = <<>> /\ ch = "ESC" /\ esc' = <<ch>>
     \/ esc = <<"ESC">> /\ esc' = IF ch = "[" THEN <<"ESC", ch>> ELSE <<>>
  /\ UNCHANGED <<line, pos, hist, hpos, modified, out>>

(* One character from the terminal, once all output is written. *)
Typed(ch) ==
  /\ out = <<>>
  /\ \/ EscapeChar(ch)
     \/ esc = <<"ESC", "[">> /\ Arrow(ch)
     \/ esc = <<>> /\ ch = "NL" /\ \E o \in Outputs : Enter(o)
     \/ esc = <<>> /\ ch = "DEL" /\ Backspace
     \/ esc = <<>> /\ ch \in Chars /\ Insert(ch)

(* The line a place of the history holds for this readline. *)
LineAt(p) ==
  IF p = hpos THEN line
  ELSE IF modified[p] /= {} THEN CHOOSE m \in modified[p] : TRUE
  ELSE History!Contents(hist)[p + 1]
=============================================================================
