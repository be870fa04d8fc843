-------------------------------- MODULE Ansi --------------------------------
(***************************************************************************)
(* AnsiParser of io/ansi.rs: bytes in, at most one action out per byte.    *)
(* Bytes are named: printable ones by their character, "NL", "BS", "CTL"   *)
(* (any other control) and "ESC" by their meaning, "L2" .. "L4" are the    *)
(* lead bytes of UTF-8 sequences of that length and "CB" a continuation.   *)
(***************************************************************************)
EXTENDS Naturals, Sequences, SequencesExt

CONSTANTS MaxCsi,   \* MAX_CSI_LENGTH, 64 in the code
          MaxSgr,   \* MAX_SGR_CMDS, 8 in the code
          U32Max    \* largest u32

Digits == <<"0", "1", "2", "3", "4", "5", "6", "7", "8", "9">>
IsDigit(b) == Contains(Digits, b)
Value(b) == CHOOSE n \in 0 .. 9 : Digits[n + 1] = b

Printable == {" ", "A", "B", "C", "D", "H", "K", "m", "x", "y", ">", "[", ";", "~"}
               \cup {Digits[i] : i \in DOMAIN Digits}
AllBytes == Printable \cup {"NL", "BS", "CTL", "ESC", "L2", "L3", "L4", "CB"}

LeadLength(b) == CASE b = "L2" -> 2 [] b = "L3" -> 3 [] b = "L4" -> 4 [] OTHER -> 1

(* Bytes '@' up to but not with '~': the ones that end a sequence. *)
Finals == {"A", "B", "C", "D", "H", "K", "m", "x", "y", "["}

(* A parser is its state and the part of partial_buf in use. *)
NewParser == [state |-> "Normal", buf |-> <<>>]
Parser(s, buf) == [state |-> s, buf |-> buf]

NoAction == [op |-> "none"]
WriteCh(ch) == [op |-> "char", ch |-> ch]
Move(dir, n) == [op |-> dir, n |-> n]
Erase == [op |-> "erase"]
Sgr(cmds) == [op |-> "sgr", cmds |-> cmds]

SatAdd(n, d) == IF n + d > U32Max THEN U32Max ELSE n + d

(* parse_ansi_sgr: numbers between semicolons, other bytes skipped; at most
   MaxSgr are kept, and those that mean nothing do nothing. *)
SgrByte(a, b) ==
  CASE b = ";" -> [nums |-> IF Len(a.nums) < MaxSgr THEN Append(a.nums, a.cur) ELSE a.nums, cur |-> 0]
    [] IsDigit(b) -> [a EXCEPT !.cur = SatAdd(SatAdd(0, 10 * @), Value(b))]
    [] OTHER -> a

IsFg(n) == n \in 30 .. 37 \/ n \in 90 .. 97
IsBg(n) == n \in 40 .. 47 \/ n \in 100 .. 107

SgrCommands(buf) ==
  LET scan[i \in 0 .. Len(buf)] ==
        IF i = 0 THEN [nums |-> <<>>, cur |-> 0] ELSE SgrByte(scan[i - 1], buf[i])
      a == scan[Len(buf)]
      nums == IF Len(a.nums) < MaxSgr THEN Append(a.nums, a.cur) ELSE a.nums
  IN  [i \in DOMAIN nums |->
         CASE nums[i] = 0 -> <<"reset">>
           [] IsFg(nums[i]) -> <<"fg", nums[i] - 30>>
           [] IsBg(nums[i]) -> <<"bg", nums[i] - 40>>
           [] OTHER -> <<"none">>]

(* parse_ansi_number_or, as the set of the number if there is one: the whole
   of buf has to be digits, and fit a u32. *)
Numbers(default, buf) ==
  LET n[i \in 0 .. Len(buf)] == IF i = 0 THEN 0 ELSE 10 * n[i - 1] + Value(buf[i])
  IN  CASE buf = <<>> -> {default}
        [] buf /= <<>> /\ (\E i \in DOMAIN buf : ~IsDigit(buf[i])) -> {}
        [] OTHER -> {n[Len(buf)]} \cap 0 .. U32Max

Moved(dir, buf) ==
  LET ns == Numbers(1, buf)
  IN  IF ns = {} THEN NoAction ELSE Move(dir, CHOOSE n \in ns : TRUE)

CsiAction(buf, b) ==
  CASE b = "m" -> Sgr(SgrCommands(buf))
    [] b = "A" -> Moved("up", buf)    [] b = "B" -> Moved("down", buf)
    [] b = "C" -> Moved("right", buf) [] b = "D" -> Moved("left", buf)
    [] b = "K" -> IF Numbers(0, buf) = {0} THEN Erase ELSE NoAction
    [] OTHER -> NoAction

(* A sequence of the right bytes is one character, any other U+FFFD. *)
Decoded(buf) ==
  IF \A i \in 2 .. Len(buf) : buf[i] = "CB" THEN "wide" ELSE "replacement"

(* AnsiParser::write: the parser after byte b, and the action. *)
AnsiState(p, b) ==
  CASE p.state = "Normal" ->
         IF b = "ESC" THEN Parser("Escape", <<>>)
         ELSE IF LeadLength(b) > 1 THEN Parser("PartialUtf8", <<b>>) ELSE p
    [] p.state = "PartialUtf8" ->
         IF Len(p.buf) + 1 = LeadLength(p.buf[1]) THEN NewParser
         ELSE Parser("PartialUtf8", Append(p.buf, b))
    [] p.state = "Escape" -> IF b = "[" THEN Parser("PartialCsi", <<>>) ELSE NewParser
    [] p.state = "PartialCsi" ->
         IF b \in Finals THEN NewParser
         ELSE IF Len(p.buf) = MaxCsi THEN p ELSE Parser("PartialCsi", Append(p.buf, b))

AnsiAction(p, b) ==
  CASE p.state = "Normal" /\ b /= "ESC" /\ LeadLength(b) = 1 -> WriteCh(b)
    [] p.state = "PartialUtf8" /\ Len(p.buf) + 1 = LeadLength(p.buf[1]) ->
         WriteCh(Decoded(Append(p.buf, b)))
    [] p.state = "PartialCsi" /\ Len(p.buf) < MaxCsi -> CsiAction(p.buf, b)
    [] OTHER -> NoAction
=============================================================================
