-------------------------------- MODULE Ps2 --------------------------------
(***************************************************************************)
(* ps2::init (arch/x86_64/dev/ps2/mod.rs): the conversation with the       *)
(* controller, any command of which may fail, with or without having taken *)
(* effect, and the setting up of devices and interrupts after it.  Every   *)
(* call is a step.  The controller's answers are external.                 *)
(***************************************************************************)
EXTENDS Naturals, Sequences

VARIABLES
  pc,         \* the next call
  hw,         \* controller: ports switched on, their interrupts, translation
  config,     \* local variable config: the same fields
  has,        \* has_keyboard and has_mouse, as the set of ports with a device
  ctrl,       \* Ps2ControllerInternals: the ports whose device is set
  handlers,   \* IRQ_HANDLERS: ports whose interrupt has a handler
  unmasked    \* ports whose interrupt the PIC lets through

Ports == {"keyboard", "mouse"}

initVars == <<pc, hw, config, has, ctrl, handlers, unmasked>>
devVars == <<has, ctrl, handlers, unmasked>>

Ps2Init ==
  /\ pc = "serial"
  /\ hw \in [on : SUBSET Ports, int : SUBSET Ports, translate : BOOLEAN]
  /\ config = [on |-> {}, int |-> {}, translate |-> FALSE]
  /\ has = {} /\ ctrl = {} /\ handlers = {} /\ unmasked = {}

(* A command at `at' that makes the controller `done'; ok and err are where
   init goes on. *)
Command(at, done, ok, err) ==
  /\ pc = at
  /\ \/ hw' = done /\ pc' = ok
     \/ hw' \in {hw, done} /\ pc' = err

Off(p) == [hw EXCEPT !.on = @ \ {p}]
On(p) == [hw EXCEPT !.on = @ \cup {p}]

(* Mutant: leaves the mouse's interrupt as the firmware had it. *)
QuietKeyboard(c) == [on |-> c.on, int |-> c.int \ {"keyboard"}, translate |-> FALSE]

(* config.set(..., false) on the config that was read. *)
Quiet(c) == [on |-> c.on, int |-> {}, translate |-> FALSE]
WithPort(c, p) == [on |-> c.on \cup {p}, int |-> c.int \cup {p}, translate |-> c.translate]

DisableKeyboard ==
  /\ \/ Command("disable_keyboard", Off("keyboard"), "disable_mouse", "cleanup")
     \/ Command("keyboard_failed", Off("keyboard"), "test_mouse", "cleanup")
  /\ UNCHANGED <<config, devVars>>

DisableMouse ==
  /\ \/ Command("disable_mouse", Off("mouse"), "read_config", "cleanup")
     \/ Command("mouse_failed", Off("mouse"), "write_final", "cleanup")
  /\ UNCHANGED <<config, devVars>>

ReadConfig ==
  /\ pc = "read_config"
  /\ \/ config' = Quiet(hw) /\ pc' = "write_config"
     \/ pc' = "cleanup" /\ UNCHANGED config
  /\ UNCHANGED <<hw, devVars>>

WriteConfig ==
  /\ \/ Command("write_config", config, "test_controller", "cleanup")
     \/ Command("write_again", config, "test_keyboard", "cleanup")
     \/ Command("write_final", config, "add_controller", "cleanup")
  /\ UNCHANGED <<config, devVars>>

(* The self test of some controllers resets them. *)
TestController ==
  /\ pc = "test_controller"
  /\ hw' \in {hw, [on |-> Ports, int |-> {}, translate |-> TRUE]}
  /\ pc' \in {"write_again", "cleanup"}
  /\ UNCHANGED <<config, devVars>>

TestKeyboard ==
  /\ pc = "test_keyboard"
  /\ pc' \in {"enable_keyboard", "test_mouse"}
  /\ UNCHANGED <<hw, config, devVars>>

EnableKeyboard ==
  /\ Command("enable_keyboard", On("keyboard"), "setup_keyboard", "keyboard_failed")
  /\ UNCHANGED <<config, devVars>>

(* reset_and_self_test, set_scancode_set and get_scancode_set, which answers
   2 or something else. *)
SetupKeyboard ==
  /\ pc = "setup_keyboard"
  /\ \/ /\ config' = WithPort(config, "keyboard")
        /\ has' = has \cup {"keyboard"}
        /\ pc' = "test_mouse"
     \/ pc' = "keyboard_failed" /\ UNCHANGED <<config, has>>
  /\ UNCHANGED <<hw, ctrl, handlers, unmasked>>

TestMouse ==
  /\ pc = "test_mouse"
  /\ pc' \in {"enable_mouse", "write_final"}
  /\ UNCHANGED <<hw, config, devVars>>

EnableMouse ==
  /\ Command("enable_mouse", On("mouse"), "setup_mouse", "cleanup")
  /\ UNCHANGED <<config, devVars>>

(* reset_and_self_test, whose failure only costs the mouse, and then
   enable_data_reporting, whose failure costs the whole controller. *)
SetupMouse ==
  /\ pc = "setup_mouse"
  /\ \/ pc' = "mouse_failed" /\ UNCHANGED <<config, has>>
     \/ /\ config' = WithPort(config, "mouse")
        /\ \/ has' = has \cup {"mouse"} /\ pc' = "write_final"
           \/ pc' = "cleanup" /\ UNCHANGED has
  /\ UNCHANGED <<hw, ctrl, handlers, unmasked>>

(* controller_lock.keyboard = keyboard; controller_lock.mouse = mouse *)
Publish ==
  /\ pc = "publish"
  /\ ctrl' = has
  /\ pc' = "irq1"
  /\ UNCHANGED <<hw, config, has, handlers, unmasked>>

(* register_irq and set_irq_masked for one port; the two are apart by
   nothing another part of the kernel can see. *)
UseIrq(p, at, next) ==
  /\ pc = at /\ pc' = next
  /\ handlers' = handlers \cup ({p} \cap has)
  /\ unmasked' = unmasked \cup ({p} \cap has)
  /\ UNCHANGED <<hw, config, has, ctrl>>

UseIrqs == UseIrq("keyboard", "irq1", "irq12") \/ UseIrq("mouse", "irq12", "ready")

(* The attempt to switch everything off when init fails, given up at the
   first command that fails. *)
Cleanup ==
  /\ \/ Command("cleanup", Off("keyboard"), "cleanup_mouse", "gave_up")
     \/ Command("cleanup_mouse", Off("mouse"), "cleanup_config", "gave_up")
     \/ Command("cleanup_config", Quiet(hw), "no_controller", "gave_up")
  /\ UNCHANGED <<config, devVars>>
=============================================================================
