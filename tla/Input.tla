------------------------------- MODULE Input -------------------------------
(***************************************************************************)
(* From a key to a reader: keyboard hardware, the PS/2 driver, the         *)
(* terminal manager (vt.rs) and a terminal's read queue, composed, from    *)
(* boot on.  A lock region with interrupts off is one step.                *)
(*                                                                         *)
(* The interrupt of a byte may be taken on any core.  It hands a key press *)
(* to the manager through a soft interrupt of that core, which runs before *)
(* the core takes interrupts again.  With one core, as the PIC has it, the *)
(* driver's buffer of key presses stays empty; with two it fills while the *)
(* first core is still busy with an earlier key.                           *)
(***************************************************************************)
EXTENDS Ps2, Keyboard, Terminal, DeviceTree, FiniteSets

CONSTANTS Cores, Readers,
          Sizes,          \* sizes of reads
          Keys,           \* keys the user may press
          MaxMakes,       \* bound on make codes sent
          MaxWire,        \* no key is sent while more bytes than this wait
          MaxMoves        \* bound on mouse bytes sent

ASSUME InputAssumption ==
  /\ Cores /= {} /\ IsFiniteSet(Cores) /\ Sizes \subseteq Nat \ {0}
  /\ Keys \subseteq KeyNames /\ KbdCap \in Nat \ {0} /\ TtyCap \in Nat \ {0}

VARIABLES
  soft,       \* per core, the key presses whose soft interrupt is queued
  attached,   \* whether the display has a keyboard
  lost,       \* key presses dropped because a buffer was full
  wire,       \* bytes on their way from the devices, with their port
  down,       \* keys the user holds
  lights,     \* lock keys the user has switched on
  typed,      \* what the user typed: the text of every make code sent
  moves       \* mouse bytes sent

hwVars == <<wire, down, lights, typed, moves>>
vars == <<initVars, kbd, ttyVars, treeVars, soft, attached, lost, hwVars>>

Init ==
  /\ Ps2Init /\ KbdInit /\ TtyInit /\ TreeInit
  /\ soft = [c \in Cores |-> <<>>] /\ attached = FALSE /\ lost = {}
  /\ wire = <<>> /\ down = {} /\ lights = {} /\ typed = <<>> /\ moves = 0

----------------------------------------------------------------------------
(* Boot: init_phase_1 adds the devices that need no interrupts, and the
   manager brings its terminal; then init_phase_2 starts on the PS/2
   controller. *)
BootStep(at, next) ==
  /\ pc = at /\ pc' = next
  /\ UNCHANGED <<hw, config, devVars, kbd, ttyVars, soft, attached, lost, hwVars>>

BootDevices ==
  \/ BootStep("serial", "vgatext") /\ AddDevice("serial0")
  \/ BootStep("vgatext", "vtmgr") /\ AddDevice("vgatext")
  \/ BootStep("vtmgr", "disable_keyboard") /\ AddManager
  \/ BootStep("add_controller", "connect_keyboard") /\ AddDevice("ps2")

ConnectDevice(p, at, next) ==
  /\ pc = at /\ pc' = next
  /\ IF p \in has THEN Connect(p, "ps2") ELSE UNCHANGED treeVars
  /\ UNCHANGED <<hw, config, devVars, kbd, ttyVars, soft, attached, lost, hwVars>>

ConnectDevices ==
  \/ ConnectDevice("keyboard", "connect_keyboard", "attach")
  \/ ConnectDevice("mouse", "connect_mouse", "publish")

(* listen_for_keypress: when_resolved_soft queues the press if it is there. *)
(* Mutant: does not look for a press that came in the meantime. *)
ListenOnly(kb, c) == /\ kbd' = [kb EXCEPT !.listeners = @ + 1]
                     /\ soft' = [soft EXCEPT ![c] = Tail(@)]

Listen(kb, c) == /\ kbd' = NextKey(kb)
                 /\ soft' = [soft EXCEPT ![c] = Tail(@) \o Resolved(kb)]

(* attach_keyboard: enqueue_soft_interrupt runs it at once, as interrupts
   are on and this is no interrupt. *)
Attach ==
  /\ pc = "attach" /\ pc' = "connect_mouse"
  /\ IF "keyboard" \in has
     THEN /\ attached = FALSE /\ attached' = TRUE
          /\ kbd' = NextKey(kbd)
     ELSE UNCHANGED <<attached, kbd>>
  /\ UNCHANGED <<hw, config, devVars, ttyVars, treeVars, soft, lost, hwVars>>

PublishDevices ==
  /\ Publish
  /\ List("ps2", IF "keyboard" \in has THEN <<"keyboard">> ELSE <<>>)
  /\ UNCHANGED <<kbd, ttyVars, soft, attached, lost, hwVars>>

ControllerStep ==
  /\ \/ DisableKeyboard \/ DisableMouse \/ ReadConfig \/ WriteConfig \/ TestController
     \/ TestKeyboard \/ EnableKeyboard \/ SetupKeyboard
     \/ TestMouse \/ EnableMouse \/ SetupMouse \/ UseIrqs \/ Cleanup
  /\ UNCHANGED <<kbd, ttyVars, treeVars, soft, attached, lost, hwVars>>

----------------------------------------------------------------------------
(* The hardware (external).  A held key repeats its make code; Pause sends
   its break code with its make code. *)
Make(k) ==
  CASE k = "Pause" -> <<"E1", "14", "77", "E1", "F0", "14", "F0", "77">>
    [] k = "UpArrow" -> <<"E0", "75">>
    [] k = "RightCtrl" -> <<"E0", "14">>
    [] k = "LeftSuper" -> <<"E0", "1F">>
    [] k = "A" -> <<"1C">>        [] k = "LeftShift" -> <<"12">>
    [] k = "Slash" -> <<"4A">>    [] k = "LeftAlt" -> <<"11">>
    [] k = "CapsLock" -> <<"58">> [] k = "LeftCtrl" -> <<"14">>
    [] k = "NumLock" -> <<"77">>  [] k = "Numpad8" -> <<"75">>

Break(k) ==
  CASE Make(k)[1] = "E0" -> <<"E0", "F0", Make(k)[2]>>
    [] OTHER -> <<"F0">> \o Make(k)

(* A port sends when its interrupt is on and init has not given it up. *)
GivenUp == {"cleanup", "cleanup_mouse", "cleanup_config", "no_controller", "gave_up"}
Sends(p) == /\ p \in has /\ p \in hw.on /\ p \in hw.int
            /\ pc \notin GivenUp /\ Len(wire) <= MaxWire
Send(p, bs) == wire' = wire \o [i \in DOMAIN bs |-> <<p, bs[i]>>]

osVars == <<initVars, kbd, ttyVars, treeVars, soft, attached, lost>>

MakeKey(k) ==
  /\ Sends("keyboard") /\ Len(typed) < MaxMakes
  /\ Send("keyboard", Make(k))
  /\ typed' = Append(typed, Text(k, lights, down \cap Modifiers))
  /\ lights' = IF k \in LockKeys THEN Toggle(lights, k) ELSE lights
  /\ down' = IF k = "Pause" THEN down ELSE down \cup {k}
  /\ UNCHANGED <<moves, osVars>>

BreakKey(k) ==
  /\ k \in down /\ Sends("keyboard")
  /\ Send("keyboard", Break(k))
  /\ down' = down \ {k}
  /\ UNCHANGED <<lights, typed, moves, osVars>>

MoveMouse ==
  /\ Sends("mouse") /\ moves < MaxMoves
  /\ Send("mouse", <<"move">>)
  /\ moves' = moves + 1
  /\ UNCHANGED <<down, lights, typed, osVars>>

----------------------------------------------------------------------------
(* The interrupt of the byte in the controller's output buffer, on core c,
   whose soft interrupts have all run.  Without a keyboard the byte is
   read and forgotten. *)
Irq(p, c) ==
  /\ p \in unmasked \cap handlers /\ soft[c] = <<>>
  /\ wire /= <<>> /\ Head(wire)[1] = p
  /\ wire' = Tail(wire)

KeyboardIrq(c) ==
  /\ Irq("keyboard", c)
  /\ IF "keyboard" \in ctrl
     THEN LET b == Head(wire)[2] IN
          /\ kbd' = AfterByte(kbd, b)
          /\ soft' = [soft EXCEPT ![c] = @ \o Finished(kbd, b)]
          /\ lost' = lost \cup Overflow(kbd, b)
     ELSE UNCHANGED <<kbd, soft, lost>>
  /\ UNCHANGED <<initVars, ttyVars, treeVars, attached, down, lights, typed, moves>>

MouseIrq(c) ==
  /\ Irq("mouse", c)
  /\ UNCHANGED <<initVars, kbd, ttyVars, treeVars, soft, attached, lost, down, lights, typed, moves>>

(* VirtualTerminalManager::handle_key_pressed: the press goes to the
   terminal, and the manager listens for the next one. *)
SoftKeyPressed(c) ==
  /\ soft[c] /= <<>>
  /\ LET press == Head(soft[c]) IN
     /\ HandleKeyPressed(press)
     /\ lost' = IF HasRoom(Len(press.str)) THEN lost ELSE lost \cup {press.n}
  /\ Listen(kbd, c)
  /\ UNCHANGED <<initVars, treeVars, attached, hwVars>>

(* The shell starts to read when boot is over. *)
ReadTty(r, size) ==
  /\ pc \in {"ready", "no_controller", "gave_up"}
  /\ Read(r, size)
  /\ UNCHANGED <<initVars, kbd, treeVars, soft, attached, lost, hwVars>>

Boot == ControllerStep \/ BootDevices \/ ConnectDevices \/ Attach \/ PublishDevices
Kernel(c) == KeyboardIrq(c) \/ MouseIrq(c) \/ SoftKeyPressed(c)

Next ==
  \/ Boot
  \/ \E c \in Cores : Kernel(c)
  \/ \E k \in Keys : MakeKey(k) \/ BreakKey(k)
  \/ MoveMouse
  \/ \E r \in Readers, size \in Sizes : ReadTty(r, size)

(* The boot code goes on, and a core with an interrupt pending or a soft
   interrupt queued runs it.  Nothing is asked of users or readers. *)
Fairness == WF_vars(Boot) /\ \A c \in Cores : WF_vars(Kernel(c))

Spec == Init /\ [][Next]_vars /\ Fairness

----------------------------------------------------------------------------
BytesOf(presses) == FlattenSeq([i \in DOMAIN presses |-> Tagged(presses[i])])

SoftBytes == FlattenSeq([i \in 1 .. Cardinality(Cores) |-> BytesOf(soft[SetToSeq(Cores)[i]])])

Typed(ns) ==
  FlattenSeq([n \in 1 .. kbd.seen |->
                IF n \in ns THEN [i \in DOMAIN typed[n] |-> <<n, typed[n][i]>>] ELSE <<>>])

(* What readers were given, the read queue, the soft interrupts and the
   driver's buffer hold, one after the other, exactly what the user typed
   and the driver has parsed, in that order, less whole key presses that
   met a full buffer; and no reader waits while bytes are buffered.  Every
   text is the one the keys held at that moment and the locks call for. *)
KeysInOrder ==
  /\ got \o Bytes!Contents(tty.buf) \o SoftBytes \o BytesOf(Presses!Contents(kbd.buf))
       = Typed(1 .. kbd.seen \ lost)
  /\ tty.requests /= <<>> => tty.buf.len = 0

(* Once every byte has been read, the driver's idea of the keyboard is the
   user's: held keys, modifiers and locks agree, no scancode is half read
   and no make code has been missed. *)
DriverAgrees ==
  (\A i \in DOMAIN wire : wire[i][1] /= "keyboard") =>
     /\ kbd.code = <<>> /\ kbd.held = down
     /\ kbd.mods = down \cap Modifiers /\ kbd.locks = lights
     /\ kbd.seen = Len(typed)

(* However init ends: interrupts are let through exactly for the ports that
   work, and those have a device and a handler; a port without a device is
   off and silent, also when init failed, unless switching off failed too;
   a failed init leaves nothing in the device tree. *)
InitConsistent ==
  /\ pc = "ready" =>
       /\ unmasked = has /\ handlers = has /\ ctrl = has
       /\ hw = [on |-> has, int |-> has, translate |-> FALSE]
       /\ attached <=> "keyboard" \in has
  /\ pc \in {"no_controller", "gave_up"} =>
       /\ unmasked = {} /\ handlers = {} /\ ~attached
       /\ "ps2" \notin DOMAIN parent
  /\ pc = "no_controller" => hw = [on |-> {}, int |-> {}, translate |-> FALSE]

(* Every device a hub lists is found under its full name, at every point of
   boot; the shell's terminal is there once boot has come to the
   controller. *)
NamesResolve ==
  /\ \A h \in Hubs : \A i \in DOMAIN children[h] :
       LET d == children[h][i] IN GetDeviceByName(FullName(d)) = d
  /\ pc \notin {"serial", "vgatext", "vtmgr"} =>
       GetDeviceByName(<<"", "vtmgr", "vt0">>) = "vt0"

(* Boot leaves ports, interrupts, handlers and the device tree in step. *)
BootConsistent == InitConsistent /\ NamesResolve

(* Once the controller works, a key press never stays behind in it, in the
   driver or in a soft interrupt: it gets to the terminal, or is dropped for
   want of room.  That includes keys pressed before their interrupt was let
   through. *)
KeyReachesTerminal ==
  (pc = "ready" /\ wire /= <<>>)
     ~> (wire = <<>> /\ kbd.buf.len = 0 /\ \A c \in Cores : soft[c] = <<>>)
=============================================================================
