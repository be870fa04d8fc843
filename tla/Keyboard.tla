----------------------------- MODULE Keyboard -----------------------------
(***************************************************************************)
(* The keyboard half of the PS/2 driver (ps2/mod.rs), with the state and   *)
(* the maps it uses (kbd.rs, scancode_2_map.rs, keymap/).  Of the keys     *)
(* there are those whose codes meet, as 14, 75 and 77 name different keys  *)
(* alone, after E0 and after E1, and one of every kind of layout entry,    *)
(* lock and modifier.                                                      *)
(***************************************************************************)
EXTENDS Naturals, Sequences

CONSTANTS KbdCap,   \* slots of the buffer of key presses, 16 in the code
          NoPress   \* what an unused slot of it holds

VARIABLE kbd        \* Ps2KeyboardInternals, see KbdInit

Presses == INSTANCE Deque WITH N <- KbdCap, Uninit <- NoPress

KeyNames == {"A", "CapsLock", "LeftAlt", "LeftCtrl", "LeftShift", "LeftSuper", "NumLock",
             "Numpad8", "Pause", "RightCtrl", "Slash", "UpArrow"}
LockKeys == {"CapsLock", "NumLock"}
Modifiers == {"LeftAlt", "LeftCtrl", "LeftShift", "LeftSuper", "RightCtrl"}

(* A key's code, without the prefix bytes that tell the three kinds apart. *)
Basic(b) == <<"basic", b>>
Extended(b) == <<"extended", b>>
DualExtended(b0, b1) == <<"dual", b0, b1>>

(* The scancode tables, cut down to these keys. *)
BasicKeys ==
  [b \in {"11", "12", "14", "1C", "4A", "58", "75", "77"} |->
     CASE b = "11" -> "LeftAlt" [] b = "12" -> "LeftShift" [] b = "14" -> "LeftCtrl"
       [] b = "1C" -> "A"       [] b = "4A" -> "Slash"     [] b = "58" -> "CapsLock"
       [] b = "75" -> "Numpad8" [] b = "77" -> "NumLock"]
ExtendedKeys ==
  [b \in {"14", "1F", "75"} |->
     CASE b = "14" -> "RightCtrl" [] b = "1F" -> "LeftSuper" [] b = "75" -> "UpArrow"]
DualList == {<<"14", "77", "Pause">>}

(* ScancodeMap::get, as the set of the key it finds, if any. *)
KeysOf(c) ==
  CASE c[1] = "basic" -> IF c[2] \in DOMAIN BasicKeys THEN {BasicKeys[c[2]]} ELSE {}
    [] c[1] = "extended" -> IF c[2] \in DOMAIN ExtendedKeys THEN {ExtendedKeys[c[2]]} ELSE {}
    [] c[1] = "dual" -> {e[3] : e \in {d \in DualList : d[1] = c[2] /\ d[2] = c[3]}}

(* The US layout for these keys: what a key types without and with the
   condition its entry names. *)
Layout(k) ==
  CASE k = "A" -> <<"ShiftCaps", <<"a">>, <<"A">>>>
    [] k = "Slash" -> <<"Shift", <<"/">>, <<"?">>>>
    [] k = "Numpad8" -> <<"NumLock", <<>>, <<"8">>>>
    [] k = "UpArrow" -> <<"Simple", <<"ESC", "[", "A">>, <<>>>>
    [] OTHER -> <<"Simple", <<>>, <<>>>>

(* KeycodeMap::get: the bytes a key types. *)
Text(k, locks, mods) ==
  LET entry == Layout(k)
      second == CASE entry[1] = "Shift" -> "LeftShift" \in mods
                  [] entry[1] = "ShiftCaps" -> ("LeftShift" \in mods) /= ("CapsLock" \in locks)
                  [] entry[1] = "NumLock" -> "NumLock" \in locks
                  [] entry[1] = "Simple" -> FALSE
  IN  IF mods \cap {"LeftCtrl", "RightCtrl", "LeftAlt", "LeftSuper"} /= {} THEN <<>>
      ELSE IF second THEN entry[3] ELSE entry[2]

(* Scancode::try_parse: how many bytes the scancode in buf has, and what
   it says once they are all there. *)
Released(buf) ==
  \/ buf[1] = "F0"
  \/ buf[1] \in {"E0", "E1"} /\ Len(buf) >= 2 /\ buf[2] = "F0"

CodeLength(buf) ==
  LET r == IF Released(buf) THEN 1 ELSE 0
  IN  CASE buf[1] = "E0" -> 2 + r
        [] buf[1] = "E1" -> 3 + 2 * r
        [] buf[1] = "F0" -> 2
        [] OTHER -> 1

(* Mutant: forgets that a break code has an F0 before each byte. *)
ScancodeKeyUnmarked(buf) ==
  CASE buf[1] = "E0" -> Extended(buf[Len(buf)])
    [] buf[1] = "E1" -> DualExtended(buf[2], buf[3])
    [] OTHER -> Basic(buf[Len(buf)])

ScancodeKey(buf) ==
  CASE buf[1] = "E0" -> Extended(buf[Len(buf)])
    [] buf[1] = "E1" /\ Released(buf) -> DualExtended(buf[3], buf[5])
    [] buf[1] = "E1" /\ ~Released(buf) -> DualExtended(buf[2], buf[3])
    [] OTHER -> Basic(buf[Len(buf)])

KbdInit ==
  kbd = [locks |-> {}, mods |-> {}, held |-> {}, buf |-> Presses!New,
         listeners |-> 0, code |-> <<>>, seen |-> 0]
  \* listeners: callbacks on input_future, 0 when it is None
  \* code:      scancode_buf up to scancode_buf_pos
  \* seen:      key presses so far, to number them

Toggle(s, k) == IF k \in s THEN s \ {k} ELSE s \cup {k}
With(s, k, p) == IF p THEN s \cup {k} ELSE s \ {k}

(* handle_key_state_changed.  The key press is made from the locks and
   modifiers as they were before this key changes them. *)
KeyPress(kb, k) == [n |-> kb.seen + 1, str |-> Text(k, kb.locks, kb.mods)]

Deliver(kb, k) ==
  IF kb.listeners > 0 THEN [kb EXCEPT !.listeners = 0]
  ELSE [kb EXCEPT !.buf = Presses!PushBack(@, KeyPress(kb, k))]

KeyStateChanged(kb, k, pressed) ==
  LET d == IF pressed THEN [Deliver(kb, k) EXCEPT !.seen = @ + 1] ELSE kb
  IN  [d EXCEPT !.held = With(@, k, pressed),
                !.locks = IF pressed /\ k \in LockKeys THEN Toggle(@, k) ELSE @,
                !.mods = IF k \in Modifiers THEN With(@, k, pressed) ELSE @]

(* handle_interrupt with byte b: the event it completes, if any. *)
Complete(kb, b) == Len(kb.code) + 1 >= CodeLength(Append(kb.code, b))
Mapped(kb, b) == KeysOf(ScancodeKey(Append(kb.code, b))) /= {}
KeyOf(kb, b) == CHOOSE k \in KeysOf(ScancodeKey(Append(kb.code, b))) : TRUE
IsPress(kb, b) == Complete(kb, b) /\ Mapped(kb, b) /\ ~Released(Append(kb.code, b))

AfterByte(kb, b) ==
  IF ~Complete(kb, b) THEN [kb EXCEPT !.code = Append(@, b)]
  ELSE IF Mapped(kb, b)
  THEN KeyStateChanged([kb EXCEPT !.code = <<>>], KeyOf(kb, b), ~Released(Append(kb.code, b)))
  ELSE [kb EXCEPT !.code = <<>>]

(* The key presses that listeners are given at once, and the ones that find
   neither a listener nor room. *)
Finished(kb, b) ==
  IF IsPress(kb, b)
  THEN [i \in 1 .. kb.listeners |-> KeyPress(kb, KeyOf(kb, b))] ELSE <<>>
Overflow(kb, b) ==
  IF IsPress(kb, b) /\ kb.listeners = 0 /\ Presses!IsFull(kb.buf) THEN {kb.seen + 1} ELSE {}

(* next_key: a press from the buffer, or one more callback on the future. *)
NextKey(kb) ==
  IF kb.buf.len > 0 THEN [kb EXCEPT !.buf = Presses!PopFront(@)]
  ELSE [kb EXCEPT !.listeners = @ + 1]
Resolved(kb) == IF kb.buf.len > 0 THEN <<Presses!Front(kb.buf)>> ELSE <<>>
=============================================================================
