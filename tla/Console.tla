------------------------------ MODULE Console ------------------------------
(***************************************************************************)
(* A terminal and whoever writes to it: either anything at all, one byte   *)
(* after the other, as logs and programs do, or the debug console's line   *)
(* editor, whose escape sequences have to keep the line it edits and the   *)
(* line on the screen the same.                                            *)
(***************************************************************************)
EXTENDS Screen, Readline

CONSTANTS TextBytes,    \* bytes of the first kind of writer, outside
          SeqBytes,     \* and inside sequences
          AnySize,      \* size of its terminal
          ShellSize,    \* size of the console's terminal
          ShellKeys     \* characters the console is given

(* On a terminal of one row EraseToLineEnd at its start would clear nothing;
   VGA has 25.  What a command writes ends with a line feed, as they all use
   writeln.  The console does not wrap lines, and the numbers it writes fit
   the buffer of the parser. *)
ASSUME ConsoleAssumption ==
  /\ AnySize \in (Nat \ {0}) \X (Nat \ {0, 1}) /\ ShellSize \in (Nat \ {0}) \X (Nat \ {0, 1})
  /\ MaxCsi \in Nat /\ MaxSgr \in Nat /\ U32Max \in Nat
  /\ TextBytes \cup SeqBytes \subseteq AllBytes
  /\ Prompt \in Seq(Printable) /\ Chars \subseteq Printable
  /\ \A o \in Outputs : o \in Seq(Printable \cup {"NL"}) /\ (o /= <<>> => o[Len(o)] = "NL")
  /\ Len(Prompt) + MaxLine < ShellSize[1]
  /\ MaxLine <= U32Max /\ Len(Decimal(MaxLine)) < MaxCsi

VARIABLE writer

vars == <<writer, vt, vga, rlVars>>

Init ==
  /\ writer \in {"any", "shell"}
  /\ vt = IF writer = "any" THEN NewTerminal(AnySize[1], AnySize[2])
          ELSE NewTerminal(ShellSize[1], ShellSize[2])
  /\ vga = Redraw(vt)
  /\ RlInit

WriteAny(b) ==
  /\ writer = "any"
  /\ b \in IF vt.ansi.state = "Normal" THEN TextBytes ELSE SeqBytes
  /\ WriteByte(b)
  /\ UNCHANGED <<writer, rlVars>>

WriteOut ==
  /\ writer = "shell" /\ out /= <<>>
  /\ WriteByte(Head(out)) /\ out' = Tail(out)
  /\ UNCHANGED <<writer, line, pos, hist, hpos, modified, esc>>

Type(ch) == writer = "shell" /\ Typed(ch) /\ UNCHANGED <<writer, vt, vga>>

Next == (\E b \in TextBytes \cup SeqBytes : WriteAny(b)) \/ WriteOut \/ (\E ch \in ShellKeys : Type(ch))

Spec == Init /\ [][Next]_vars

----------------------------------------------------------------------------
(* The display is the screen that ScreenAbs promises, whatever is written:
   the ring of rows, the parser and the redraw are not seen. *)
ImplementsScreen == Abs!Spec

(* When the console waits for a key, the row of the cursor shows the prompt
   and the line being edited and nothing else, with the cursor where the
   editor has it. *)
LineShown ==
  (writer = "shell" /\ out = <<>>) =>
     LET w == vt.size[1]
         text == Prompt \o line
         cell(x) == vga.cells[vga.cursor[2] * w + x][1]
     IN  /\ vga.cursor[1] = Len(Prompt) + pos
         /\ \A x \in 0 .. w - 1 : cell(x) = IF x < Len(text) THEN text[x + 1] ELSE " "

(* An arrow key changes no line of the history, also not the one that was
   left half typed, which is always there to come back to. *)
HistoryKept ==
  [][esc = <<"ESC", "[">> => \A p \in 0 .. hist.len : LineAt(p)' = LineAt(p)]_vars
=============================================================================
