------------------------------ MODULE PciScan ------------------------------
(***************************************************************************)
(* init_pci (kernel/pci.c): which devices the scan reaches, in which order *)
(* and how often, and what it does for every xHCI controller it meets, up  *)
(* to the call of init_xhci.                                               *)
(*                                                                         *)
(* scanBus counts dev to 254 although a bus has 32 devices, and pci_read   *)
(* ors dev << 11 into the address without a mask: the upper bits of dev    *)
(* fall into the bus number.  scanDevice looks for controllers at function *)
(* 0 alone: functions 1 to 7 of a device are read and at most printed.     *)
(***************************************************************************)
EXTENDS Naturals

CONSTANT Machines   \* [bridge : functions of device 0:0, xhci : places of controllers]

Buses == 0 .. 7
Devices == 0 .. 31
Functions == 0 .. 7
Place == [bus : Buses, dev : Devices, fn : Functions]
HostBridge == [bus |-> 0, dev |-> 0, fn |-> 0]

\* Every device has a function 0; that of a device with a controller at
\* another function may be any other device.
MachinesAssumption ==
  \A m \in Machines :
    /\ 0 \in m.bridge /\ m.bridge \subseteq Functions
    /\ m.xhci \subseteq Place \ {HostBridge}
    /\ \A c \in m.xhci : c.bus = 0 /\ c.dev = 0 => c.fn \in m.bridge

VARIABLES machine,   \* what is in the machine
          func,      \* init_pci: the host bridge's function, and the bus
          dev,       \* scanBus: device number
          pc,        \* init, bus, done, panic
          mastering, \* controllers whose command register was written
          running,   \* controllers that run (USBSTS.HCH is 0)
          driver     \* the controller the driver's variables belong to

vars == <<machine, func, dev, pc, mastering, running, driver>>

\* A multifunction host bridge has more functions than one.
isSingleFunctionDevice == machine.bridge = {0}

Init ==
  /\ machine \in Machines
  /\ func = 0 /\ dev = 0 /\ pc = "init"
  /\ mastering = {} /\ running = {} /\ driver = HostBridge

\* Mutant: the device number is cut to its five bits.
Address_masked(b, d) == [bus |-> b, dev |-> d % 32, fn |-> 0]
\* The bits of b or of o, of three bits each.
Or(b, o) ==
  LET bit(w) == IF (b \div w) % 2 = 1 \/ (o \div w) % 2 = 1 THEN w ELSE 0
  IN  bit(4) + bit(2) + bit(1)

\* The place that 0x80000000 | bus << 16 | dev << 11 selects, at function 0.
Address(b, d) == [bus |-> Or(b, d \div 32), dev |-> d % 32, fn |-> 0]

----------------------------------------------------------------------------

\* The first bus, or each bus that has the number of a function of the bridge.
StartBus ==
  /\ pc = "init"
  /\ IF func = 8 \/ (isSingleFunctionDevice /\ func > 0)
     THEN pc' = "done" /\ UNCHANGED <<func, dev>>
     ELSE IF func \in machine.bridge
     THEN pc' = "bus" /\ dev' = 0 /\ UNCHANGED func
     ELSE func' = func + 1 /\ UNCHANGED <<pc, dev>>
  /\ UNCHANGED <<machine, mastering, running, driver>>

LastDevice == 254

NextDevice ==
  IF dev = LastDevice THEN pc' = "init" /\ func' = func + 1 /\ UNCHANGED dev
                      ELSE dev' = dev + 1 /\ UNCHANGED <<pc, func>>

\* Nothing there, or function 0 is a device the kernel has no driver for.
\* Whatever the other functions are, nothing is done for them.
SkipDevice ==
  /\ pc = "bus"
  /\ Address(func, dev) \notin machine.xhci
  /\ NextDevice
  /\ UNCHANGED <<machine, mastering, running, driver>>

\* scanDevice of a controller at function 0: allow it to access memory and
\* call init_xhci, which insists on a controller that does not run.
scanDevice ==
  /\ pc = "bus"
  /\ LET c == Address(func, dev)
     IN  /\ c \in machine.xhci
         /\ mastering' = mastering \cup {c}
         /\ IF c \in running
            THEN pc' = "panic" /\ UNCHANGED <<func, dev, running, driver>>
            ELSE running' = running \cup {c} /\ driver' = c /\ NextDevice
  /\ UNCHANGED machine

Stopped == pc \in {"done", "panic"} /\ UNCHANGED vars

init_pci == StartBus \/ SkipDevice \/ scanDevice
Next == init_pci \/ Stopped

Spec == Init /\ [][Next]_vars

----------------------------------------------------------------------------

\* Device 31 of bus 7 is behind the last number, and the buses behind a
\* multifunction host bridge are left to the bridge's functions.
InReach(c) ==
  ~(c.bus = 7 /\ c.dev = 31) /\ (isSingleFunctionDevice \/ c.bus = 0)

\* The scan's way over the buses, odd as it is, brings up, exactly once, the
\* controllers in reach that are function 0 of their device, on buses 0 to 7
\* if the host bridge has one function and on bus 0 if it has more.  One at
\* another function, as many machines have it, is never brought up.  A second
\* time, which ends in init_xhci's panic, comes only for a controller behind
\* bus 0 and a multifunction host bridge.
FirstFunctionsOnce ==
  /\ \A c \in machine.xhci : c.fn # 0 => c \notin running /\ c \notin mastering
  /\ pc = "done" => \A c \in machine.xhci : c.fn = 0 /\ InReach(c) => c \in running
  /\ pc = "panic" => ~isSingleFunctionDevice /\ Address(func, dev).bus # 0
=============================================================================
