---------------------------- MODULE DeviceTree ----------------------------
(***************************************************************************)
(* The device tree of io/dev: a device knows its parent, a hub the devices *)
(* it lists, and the two need not agree: a device is connected before its  *)
(* hub lists it, and the PS/2 controller never lists its mouse.  Names of  *)
(* devices are unique in this kernel and stand for the devices.            *)
(***************************************************************************)
EXTENDS Naturals, Sequences

VARIABLES
  parent,     \* parent of every connected device
  children    \* the devices every hub lists, in the order it lists them

Hubs == {"root", "vtmgr", "ps2"}
NotFound == "not found"

treeVars == <<parent, children>>

TreeInit == parent = <<>> /\ children = [h \in Hubs |-> <<>>]

Connected(par, d, p) == [e \in DOMAIN par \cup {d} |-> IF e = d THEN p ELSE par[e]]

(* VirtualDeviceHub::add_device: connect, then list. *)
AddDevice(d) ==
  /\ parent' = Connected(parent, d, "root")
  /\ children' = [children EXCEPT !["root"] = Append(@, d)]

(* The terminal manager makes its first terminal when it is connected,
   before the root lists the manager. *)
AddManager ==
  /\ parent' = Connected(Connected(parent, "vtmgr", "root"), "vt0", "vtmgr")
  /\ children' = [children EXCEPT !["vtmgr"] = Append(@, "vt0"),
                                  !["root"] = Append(@, "vtmgr")]

(* DeviceNode::connect alone: the device has a parent that does not list it. *)
Connect(d, h) == parent' = Connected(parent, d, h) /\ UNCHANGED children

List(h, ds) == children' = [children EXCEPT ![h] = ds] /\ UNCHANGED parent

(* The components of "::a::b" are the empty name, a and b. *)
FullName(d) ==
  LET full[e \in DOMAIN parent] ==
        IF parent[e] = "root" THEN <<"", e>> ELSE Append(full[parent[e]], e)
  IN  full[d]

FindChild(h, name) ==
  IF \E i \in DOMAIN children[h] : children[h][i] = name THEN name ELSE NotFound

(* Mutant: a component that no device has ends the search. *)
DescendStrict(hub, name) == IF hub \notin Hubs THEN NotFound ELSE FindChild(hub, name)

(* get_device_by_name: a component that no device has leaves the hub as it
   is, which is how the empty one at the start stands for the root. *)
Descend(hub, name) ==
  CASE hub \notin Hubs -> NotFound
    [] hub \in Hubs /\ FindChild(hub, name) = NotFound -> hub
    [] OTHER -> FindChild(hub, name)

GetDeviceByName(path) ==
  LET last == Len(path)
      hub[i \in 0 .. last - 1] == IF i = 0 THEN "root" ELSE Descend(hub[i - 1], path[i])
  IN  IF hub[last - 1] \in Hubs THEN FindChild(hub[last - 1], path[last]) ELSE NotFound
=============================================================================
