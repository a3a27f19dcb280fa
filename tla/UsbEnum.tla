------------------------------ MODULE UsbEnum ------------------------------
(***************************************************************************)
(* USB enumeration in kernel/xhci.c: usb_process_events and the handlers   *)
(* it calls, from the first Port Status Change Event of a port to the      *)
(* configured keyboard, and the loop of vMain that follows it.             *)
(*                                                                         *)
(* The command ring, the event ring and the control endpoints' rings are   *)
(* FIFO queues here (TrbRing and EventRing show that they are).  A handler *)
(* is one step, except where it rings a doorbell and then reads memory the *)
(* controller writes: get_descriptor_noreport does not wait for its data,  *)
(* so its callers are cut there (pc "fs_*", "conf_*").                     *)
(*                                                                         *)
(* The controller is external.  With Sync = TRUE it acts like the emulated *)
(* controller env.mk starts: it finishes everything it can do before the   *)
(* kernel's doorbell or register write returns.  With Sync = FALSE it      *)
(* takes any time.                                                         *)
(***************************************************************************)
EXTENDS Integers, Sequences, FiniteSets

CONSTANTS Machines,    \* machines, as records: see MachinesAssumption
          NumConfigs,  \* configurations each device has
          Sync,        \* does the controller act synchronously?
          MayFail      \* may commands and transfers fail?

\* ports: root hub ports; slots: MaxSlots, all enabled by init_xhci in CONFIG.
\* Of the ports: usb3, whose link trains to "enabled" without a reset;
\* fullSpeed, whose device runs at full speed (PSIV 1); keyboards, whose
\* device is a boot keyboard; replug, whose device may be pulled out (once)
\* and put back.
ASSUME MachinesAssumption ==
  \A m \in Machines :
    /\ m.ports \in Nat \ {0} /\ m.slots \in Nat
    /\ m.usb3 \cup m.fullSpeed \cup m.keyboards \cup m.replug \subseteq 1 .. m.ports
ASSUME ModeAssumption == NumConfigs \in Nat /\ Sync \in BOOLEAN /\ MayFail \in BOOLEAN

VARIABLE machine                 \* the machine this is

NumPorts == machine.ports
NumSlots == machine.slots
Usb3 == machine.usb3
FullSpeed == machine.fullSpeed
Keyboards == machine.keyboards
Replug == machine.replug

Ports == 1 .. NumPorts
None == -1                       \* current_port when no port has its turn
Slots == 0 .. NumSlots           \* 0 is what a failed Enable Slot reports
Scratchpad == -2                 \* device_contexts[0]
NoPort == 0

\* Contents of device_status[].buf.
Zeroes == [desc |-> "none", index |-> 0]
Device8 == [desc |-> "device8", index |-> 0]      \* first eight bytes
Device == [desc |-> "device", index |-> 0]
Config(i) == [desc |-> "config", index |-> i]
Contents == {Zeroes, Device8, Device} \cup {Config(i) : i \in 0 .. NumConfigs}

VARIABLES
  state,            \* device_status[].state
  current_port,     \* current_port
  device_contexts,  \* slot -> port in the slot context, or NoPort
  transfer_ring,    \* device_status[].transfer_ring, named by its slot
  buf,              \* device_status[].buf
  keyboard,         \* usb_keyboard_found: slot of the keyboard, or 0
  cmd_ring,         \* commands the controller has not executed
  tds,              \* slot -> control transfers not executed
  eventq,           \* events the kernel has not taken
  pc,               \* where the kernel is
  job,              \* locals of the handler that is cut: slot, port, index
  portsc,           \* the controller's PORTSC registers (and history: pulled)
  nslots, ep, rung, \* controller: slots in use, endpoint state, doorbells
  dropped           \* history: kinds of events read_usb_keyboard threw away

statusVars == <<state, current_port, device_contexts, transfer_ring, keyboard>>
ctrlVars == <<portsc, nslots, ep>>
vars == <<state, current_port, device_contexts, transfer_ring, buf, keyboard,
          cmd_ring, tds, eventq, pc, job, portsc, nslots, ep, rung, dropped, machine>>

DeviceStates == {"RESET", "WAIT_ENABLE_SLOT", "ENABLE_SLOT", "ADDRESS_DEVICE",
                 "GET_DESCRIPTOR", "END_OF_INITIALIZE"}
Commands == {"EnableSlot", "AddressDevice", "EvaluateContext", "ConfigureEndpoint"}
Requests == [req : Contents, port : Ports] \cup [setconf : Contents, index : Nat]
Events == [type : {"Transfer"}, slot : Slots, ok : BOOLEAN]
            \cup [type : {"Command"}, cmd : Commands, slot : Slots]
            \cup [type : {"PortStatusChange"}, port : Ports]

NoJob == [slot |-> 0, port |-> NoPort, index |-> 0, count |-> 0, hdr |-> Zeroes]

TypeOK ==
  /\ machine \in Machines
  /\ state \in [Ports -> DeviceStates]
  /\ current_port \in Ports \cup {None}
  /\ device_contexts \in [Slots -> Ports \cup {NoPort, Scratchpad}]
  /\ transfer_ring \in [Ports -> Slots]
  /\ buf \in [Ports -> Contents]
  /\ keyboard \in Slots
  /\ cmd_ring \in Seq([cmd : Commands, slot : Slots])
  /\ \A s \in Slots : \A i \in DOMAIN tds[s] : tds[s][i] \in Requests
  /\ \A i \in DOMAIN eventq : eventq[i] \in Events
  /\ pc \in {"loop", "fs_req", "fs_read", "conf_req", "conf_hdr", "conf_parse", "input"}
  /\ job.slot \in Slots /\ job.port \in Ports \cup {NoPort} /\ job.hdr \in Contents
  /\ portsc \in [Ports -> [ccs : BOOLEAN, ped : BOOLEAN, csc : BOOLEAN,
                           prc : BOOLEAN, resetting : BOOLEAN,
                           pulled : BOOLEAN]]
  /\ nslots \in Slots
  /\ ep \in [Slots -> {"off", "running", "halted"}]
  /\ rung \in [Slots -> BOOLEAN]
  /\ dropped \subseteq {"Transfer", "Command", "PortStatusChange"}

\* The end of init_xhci: the controller runs, no device is attached yet.
Init ==
  /\ machine \in Machines
  /\ state = [p \in Ports |-> "RESET"]
  /\ current_port = None
  /\ device_contexts = [s \in Slots |-> IF s = 0 THEN Scratchpad ELSE NoPort]
  /\ transfer_ring = [p \in Ports |-> 0]
  /\ buf = [p \in Ports |-> Zeroes]
  /\ keyboard = 0
  /\ cmd_ring = <<>>
  /\ tds = [s \in Slots |-> <<>>]
  /\ eventq = <<>>
  /\ pc = "loop"
  /\ job = NoJob
  /\ portsc = [p \in Ports |-> [ccs |-> FALSE, ped |-> FALSE, csc |-> FALSE,
                                prc |-> FALSE, resetting |-> FALSE, pulled |-> FALSE]]
  /\ nslots = 0
  /\ ep = [s \in Slots |-> "off"]
  /\ rung = [s \in Slots |-> FALSE]
  /\ dropped = {}

----------------------------------------------------------------------------
(* The controller and the devices (external).                              *)

\* A transfer the controller can execute now.
Runnable(s) == ep[s] = "running" /\ rung[s] /\ tds[s] # <<>>

ControllerBusy ==
  \/ \E p \in Ports : ~portsc[p].ccs \/ portsc[p].resetting
  \/ cmd_ring # <<>>
  \/ \E s \in Slots : Runnable(s)

\* A port reports a change unless an earlier change is still not cleared.
PortEvent(p) ==
  IF portsc[p].csc \/ portsc[p].prc THEN eventq
  ELSE Append(eventq, [type |-> "PortStatusChange", port |-> p])

\* A device is attached (or noticed, if it was there at the start).
Attach(p) ==
  /\ ~portsc[p].ccs
  /\ portsc' = [portsc EXCEPT ![p].ccs = TRUE, ![p].csc = TRUE, ![p].ped = p \in Usb3]
  /\ eventq' = PortEvent(p)
  /\ UNCHANGED <<statusVars, buf, cmd_ring, tds, pc, job, nslots, ep, rung, dropped, machine>>

\* A device is pulled out.  The emulated controller starts PORTSC afresh and
\* reports the change (CSC is left clear here, so that the device can be put
\* back and reported again); transfers of the device's slots fail from now on.
Detach(p) ==
  /\ p \in Replug /\ portsc[p].ccs /\ ~portsc[p].pulled
  /\ portsc' = [portsc EXCEPT ![p] = [ccs |-> FALSE, ped |-> FALSE, csc |-> FALSE, prc |-> FALSE,
                                     resetting |-> FALSE, pulled |-> TRUE]]
  /\ eventq' = Append(eventq, [type |-> "PortStatusChange", port |-> p])
  /\ ep' = [s \in Slots |-> IF device_contexts[s] = p THEN "halted" ELSE ep[s]]
  /\ UNCHANGED <<statusVars, buf, cmd_ring, tds, pc, job, nslots, rung, dropped, machine>>

\* A port reset ends: the port is enabled and Port Reset Change is set.
ResetDone(p) ==
  /\ portsc[p].resetting
  /\ portsc' = [portsc EXCEPT ![p].resetting = FALSE, ![p].ped = TRUE, ![p].prc = TRUE]
  /\ eventq' = PortEvent(p)
  /\ UNCHANGED <<statusVars, buf, cmd_ring, tds, pc, job, nslots, ep, rung, dropped, machine>>

Complete(c, s) == Append(eventq, [type |-> "Command", cmd |-> c, slot |-> s])

\* The controller executes the next command and posts its completion.
ExecEnableSlot ==
  /\ cmd_ring # <<>> /\ Head(cmd_ring).cmd = "EnableSlot"
  /\ cmd_ring' = Tail(cmd_ring)
  /\ nslots' = IF nslots < NumSlots THEN nslots + 1 ELSE nslots
  /\ eventq' = Complete("EnableSlot", IF nslots < NumSlots THEN nslots + 1 ELSE 0)
  /\ UNCHANGED <<statusVars, buf, tds, pc, job, portsc, ep, rung, dropped, machine>>

\* A slot that is addressed has a running control endpoint.
ExecAddressDevice(ok) ==
  /\ cmd_ring # <<>> /\ Head(cmd_ring).cmd = "AddressDevice"
  /\ LET p == device_contexts[Head(cmd_ring).slot]
         attached == p \in Ports => portsc[p].ccs
     IN  IF ok THEN attached ELSE MayFail \/ ~attached
  /\ cmd_ring' = Tail(cmd_ring)
  /\ ep' = [ep EXCEPT ![Head(cmd_ring).slot] = IF ok THEN "running" ELSE @]
  /\ eventq' = Complete("AddressDevice", Head(cmd_ring).slot)
  /\ UNCHANGED <<statusVars, buf, tds, pc, job, portsc, nslots, rung, dropped, machine>>

ExecOther ==
  /\ cmd_ring # <<>> /\ Head(cmd_ring).cmd \in {"EvaluateContext", "ConfigureEndpoint"}
  /\ cmd_ring' = Tail(cmd_ring)
  /\ eventq' = Complete(Head(cmd_ring).cmd, Head(cmd_ring).slot)
  /\ UNCHANGED <<statusVars, buf, tds, pc, job, portsc, nslots, ep, rung, dropped, machine>>

\* A control transfer of slot s: the data stage fills the buffer it names.
\* Exactly one of its TRBs asks for an event: the data TRB of a descriptor
\* request, the status TRB of SET_CONFIGURATION.
ExecTransfer(s) ==
  /\ Runnable(s)
  /\ tds' = [tds EXCEPT ![s] = Tail(@)]
  /\ rung' = [rung EXCEPT ![s] = Tail(tds[s]) # <<>>]
  /\ buf' = LET td == Head(tds[s])
            IN  IF "req" \in DOMAIN td THEN [buf EXCEPT ![td.port] = td.req] ELSE buf
  /\ eventq' = Append(eventq, [type |-> "Transfer", slot |-> s, ok |-> TRUE])
  /\ UNCHANGED <<statusVars, cmd_ring, pc, job, ctrlVars, dropped, machine>>

\* A transfer fails: no data, an error code, and the endpoint halts.
FailTransfer(s) ==
  /\ MayFail
  /\ Runnable(s)
  /\ tds' = [tds EXCEPT ![s] = Tail(@)]
  /\ rung' = [rung EXCEPT ![s] = FALSE]
  /\ ep' = [ep EXCEPT ![s] = "halted"]
  /\ eventq' = Append(eventq, [type |-> "Transfer", slot |-> s, ok |-> FALSE])
  /\ UNCHANGED <<statusVars, buf, cmd_ring, pc, job, portsc, nslots, dropped, machine>>

Controller ==
  \/ \E p \in Ports : Attach(p) \/ Detach(p) \/ ResetDone(p)
  \/ ExecEnableSlot
  \/ \E ok \in BOOLEAN : ExecAddressDevice(ok)
  \/ ExecOther
  \/ \E s \in Slots : ExecTransfer(s) \/ FailTransfer(s)

----------------------------------------------------------------------------
(* The kernel: helpers.                                                    *)

\* A kernel step begins only when a synchronous controller is done.
KernelAt(l) == pc = l /\ (Sync => ~ControllerBusy)

\* Take the next event in usb_process_events.
Take(kind) ==
  /\ KernelAt("loop")
  /\ eventq # <<>> /\ Head(eventq).type = kind
  /\ eventq' = Tail(eventq)

Cmd(c, s) == [cmd |-> c, slot |-> s]

\* write_ring of a control transfer to a ring, and the doorbell of slot s: a
\* doorbell for an endpoint that is not running is ignored.
QueueTransfer(ring, s, td) ==
  /\ tds' = [tds EXCEPT ![ring] = Append(@, td)]
  /\ rung' = [rung EXCEPT ![s] = ep[s] = "running"]

----------------------------------------------------------------------------
(* Port Status Change Event.  The test for a connected device reads USBCMD *)
(* (the parenthesis is misplaced), which is not 0 while the controller     *)
(* runs, so it always succeeds.                                            *)

\* Mutant: every port has its turn at once.
StateWhenEnabled_noWait == "ENABLE_SLOT"

StateWhenEnabled == IF current_port = None THEN "ENABLE_SLOT" ELSE "WAIT_ENABLE_SLOT"

TurnWhenEnabled(p) == IF current_port = None THEN p ELSE current_port

\* PED set: ask for a slot; the port has its turn if no other port has it.
OnPortEnabled ==
  /\ Take("PortStatusChange")
  /\ LET p == Head(eventq).port
     IN  /\ portsc[p].ped
         /\ cmd_ring' = Append(cmd_ring, Cmd("EnableSlot", 0))
         /\ current_port' = TurnWhenEnabled(p)
         /\ state' = [state EXCEPT ![p] = StateWhenEnabled]
  /\ UNCHANGED <<device_contexts, transfer_ring, buf, keyboard, tds, pc, job,
                 ctrlVars, rung, dropped, machine>>

\* Mutant: a slot is also asked for before the port is reset.
OnPortDisabled_askSlot ==
  /\ Take("PortStatusChange")
  /\ LET p == Head(eventq).port
     IN  /\ ~portsc[p].ped
         /\ portsc' = [portsc EXCEPT ![p].csc = FALSE, ![p].resetting = portsc[p].ccs]
  /\ cmd_ring' = Append(cmd_ring, Cmd("EnableSlot", 0))
  /\ UNCHANGED <<statusVars, buf, tds, pc, job, nslots, ep, rung, dropped, machine>>

\* PED clear: clear Connect Status Change and reset the port (which does
\* nothing if the device is gone).
OnPortDisabled ==
  /\ Take("PortStatusChange")
  /\ LET p == Head(eventq).port
     IN  /\ ~portsc[p].ped
         /\ portsc' = [portsc EXCEPT ![p].csc = FALSE, ![p].resetting = portsc[p].ccs]
  /\ UNCHANGED <<statusVars, buf, cmd_ring, tds, pc, job, nslots, ep, rung, dropped, machine>>

----------------------------------------------------------------------------
(* Command Completion Event.  The completion code is not looked at.        *)

\* Mutant: the state of the port is not looked at.
Serving_anyState(st) == current_port # None

\* The port whose turn it is waits for this completion.
Serving(st) == current_port # None /\ state[current_port] = st

\* The slot that was enabled goes to the port whose turn it is
\* (handle_enable_slot up to the Address Device Command).
OnEnableSlot ==
  /\ Take("Command")
  /\ Head(eventq).cmd = "EnableSlot"
  /\ Serving("ENABLE_SLOT")
  /\ LET s == Head(eventq).slot
         port_id == IF device_contexts[s] \in Ports THEN device_contexts[s] ELSE current_port
     IN  /\ device_contexts' = [device_contexts EXCEPT ![s] = current_port]
         /\ transfer_ring' = [transfer_ring EXCEPT ![current_port] = s]
         /\ tds' = [tds EXCEPT ![s] = <<>>]
         /\ cmd_ring' = Append(cmd_ring, Cmd("AddressDevice", s))
         /\ IF port_id \in FullSpeed
            THEN /\ pc' = "fs_req"
                 /\ job' = [NoJob EXCEPT !.slot = s, !.port = port_id]
                 /\ UNCHANGED state
            ELSE /\ state' = [state EXCEPT ![current_port] = "ADDRESS_DEVICE"]
                 /\ UNCHANGED <<pc, job>>
  /\ UNCHANGED <<current_port, buf, keyboard, ctrlVars, rung, dropped, machine>>

\* handle_enable_slot, full speed: request the first eight bytes of the
\* device descriptor, without waiting for Address Device to complete ...
RequestMaxPacketSize ==
  /\ KernelAt("fs_req")
  /\ QueueTransfer(transfer_ring[job.port], job.slot, [req |-> Device8, port |-> job.port])
  /\ pc' = "fs_read"
  /\ UNCHANGED <<statusVars, buf, cmd_ring, eventq, job, ctrlVars, dropped, machine>>

\* ... and use the maximum packet size if it happens to be there already.
ReadMaxPacketSize ==
  /\ KernelAt("fs_read")
  /\ cmd_ring' = IF buf[job.port] # Zeroes
                 THEN Append(cmd_ring, Cmd("EvaluateContext", job.slot)) ELSE cmd_ring
  /\ state' = [state EXCEPT ![current_port] = "ADDRESS_DEVICE"]
  /\ pc' = "loop"
  /\ job' = NoJob
  /\ UNCHANGED <<current_port, device_contexts, transfer_ring, buf, keyboard, tds,
                 eventq, ctrlVars, rung, dropped, machine>>

\* Mutant: a port that was served counts as waiting.
LastWaiting_served(st) ==
  LET W == {p \in Ports : st[p] # "RESET"}
  IN  IF W = {} THEN None ELSE CHOOSE p \in W : \A q \in W : q <= p

\* The last port waiting, in port order, or None.
LastWaiting(st) ==
  LET W == {p \in Ports : st[p] = "WAIT_ENABLE_SLOT"}
  IN  IF W = {} THEN None ELSE CHOOSE p \in W : \A q \in W : q <= p

\* Mutant: the slot is not asked for again when the turn is passed on.
AskSlotFor_never(next) == cmd_ring

AskSlotFor(next) ==
  IF next = None THEN cmd_ring ELSE Append(cmd_ring, Cmd("EnableSlot", 0))

\* Mutant: current_port is read after the turn was passed on.
DescriptorBuffer_late(next) == IF next = None THEN current_port ELSE next

\* data_buf, fixed before the turn is passed on.
DescriptorBuffer(next) == current_port

\* The device has an address: request its descriptor and pass the turn on.
OnAddressDevice ==
  /\ Take("Command")
  /\ Head(eventq).cmd = "AddressDevice"
  /\ Serving("ADDRESS_DEVICE")
  /\ LET s == Head(eventq).slot
         port_id == device_contexts[s]
         st == [state EXCEPT ![current_port] = "GET_DESCRIPTOR"]
         next == LastWaiting(st)
     IN  /\ QueueTransfer(transfer_ring[port_id], s,
                          [req |-> Device, port |-> DescriptorBuffer(next)])
         /\ current_port' = next
         /\ state' = IF next = None THEN st ELSE [st EXCEPT ![next] = "ENABLE_SLOT"]
         /\ cmd_ring' = AskSlotFor(next)
  /\ UNCHANGED <<device_contexts, transfer_ring, buf, keyboard, pc, job, ctrlVars, dropped, machine>>

\* Every other completion changes nothing.
OnOtherCommand ==
  /\ Take("Command")
  /\ ~(Head(eventq).cmd = "EnableSlot" /\ Serving("ENABLE_SLOT"))
  /\ ~(Head(eventq).cmd = "AddressDevice" /\ Serving("ADDRESS_DEVICE"))
  /\ UNCHANGED <<statusVars, buf, cmd_ring, tds, pc, job, ctrlVars, rung, dropped, machine>>

----------------------------------------------------------------------------
(* Transfer Event.                                                         *)

\* bNumConfigurations, byte 17 of the buffer whatever the buffer holds.
num_configs(p) == IF buf[p] = Device THEN NumConfigs ELSE 0

Expected(e) == e.ok /\ state[device_contexts[e.slot]] = "GET_DESCRIPTOR"

\* A transfer ended and the port's descriptor is expected: go through the
\* configurations the buffer promises.
OnDescriptor ==
  /\ Take("Transfer")
  /\ Expected(Head(eventq))
  /\ LET s == Head(eventq).slot
         p == device_contexts[s]
     IN  IF num_configs(p) > 0
         THEN /\ pc' = "conf_req"
              /\ job' = [NoJob EXCEPT !.slot = s, !.port = p, !.count = num_configs(p)]
         ELSE UNCHANGED <<pc, job>>
  /\ UNCHANGED <<statusVars, buf, cmd_ring, tds, ctrlVars, rung, dropped, machine>>

OnOtherTransfer ==
  /\ Take("Transfer")
  /\ ~Expected(Head(eventq))
  /\ UNCHANGED <<statusVars, buf, cmd_ring, tds, pc, job, ctrlVars, rung, dropped, machine>>

\* Mutant: the header is read before the descriptor is requested.
RequestConfiguration_headerFirst ==
  /\ KernelAt("conf_req")
  /\ QueueTransfer(transfer_ring[job.port], job.slot,
                   [req |-> Config(job.index), port |-> job.port])
  /\ job' = [job EXCEPT !.hdr = buf[job.port]]
  /\ pc' = "conf_parse"
  /\ UNCHANGED <<statusVars, buf, cmd_ring, eventq, ctrlVars, dropped, machine>>

\* Request configuration descriptor number job.index ...
RequestConfiguration ==
  /\ KernelAt("conf_req")
  /\ QueueTransfer(transfer_ring[job.port], job.slot,
                   [req |-> Config(job.index), port |-> job.port])
  /\ pc' = "conf_hdr"
  /\ UNCHANGED <<statusVars, buf, cmd_ring, eventq, job, ctrlVars, dropped, machine>>

\* ... read its length and its configuration value at once ...
ReadConfigurationHeader ==
  /\ KernelAt("conf_hdr")
  /\ job' = [job EXCEPT !.hdr = buf[job.port]]
  /\ pc' = "conf_parse"
  /\ UNCHANGED <<statusVars, buf, cmd_ring, tds, eventq, ctrlVars, rung, dropped, machine>>

\* Does the walk through interfaces and endpoints find a boot keyboard?  It
\* starts behind the descriptor the buffer begins with.  If the header was
\* still the device descriptor a moment ago, it may start too far and miss
\* the interface.
Found ==
  IF job.port \notin Keyboards \/ buf[job.port].desc # "config" THEN {FALSE}
  ELSE IF job.hdr.desc = "config" THEN {TRUE} ELSE BOOLEAN

\* ... and walk through the interfaces and endpoints (the length read from a
\* stale header, bcdUSB, is large enough).  For a boot keyboard:
\* SET_CONFIGURATION with the value read before, init_usb_keyboard,
\* Configure Endpoint Command.
ParseConfiguration ==
  /\ KernelAt("conf_parse")
  /\ \E found \in Found :
         IF found
         THEN /\ QueueTransfer(transfer_ring[job.port], job.slot,
                               [setconf |-> job.hdr, index |-> job.index])
              /\ keyboard' = job.slot
              /\ cmd_ring' = Append(cmd_ring, Cmd("ConfigureEndpoint", job.slot))
         ELSE UNCHANGED <<tds, rung, keyboard, cmd_ring>>
  /\ state' = [state EXCEPT ![job.port] = "END_OF_INITIALIZE"]
  /\ IF job.index + 1 < job.count
     THEN pc' = "conf_req" /\ job' = [job EXCEPT !.index = @ + 1, !.hdr = Zeroes]
     ELSE pc' = "loop" /\ job' = NoJob
  /\ UNCHANGED <<current_port, device_contexts, transfer_ring, buf, eventq, ctrlVars, dropped, machine>>

----------------------------------------------------------------------------
(* vMain.                                                                  *)

\* usb_process_events returns as soon as it finds the event ring empty.
ReturnToMain ==
  /\ KernelAt("loop")
  /\ eventq = <<>>
  /\ pc' = "input"
  /\ UNCHANGED <<statusVars, buf, cmd_ring, tds, eventq, job, ctrlVars, rung, dropped, machine>>

\* From then on only read_usb_keyboard takes events; it acts on completed
\* keyboard transfers and throws every other event away.
read_usb_keyboard ==
  /\ KernelAt("input")
  /\ IF eventq = <<>> THEN UNCHANGED <<eventq, dropped>>
     ELSE /\ eventq' = Tail(eventq)
          /\ dropped' = dropped \cup {Head(eventq).type}
  /\ UNCHANGED <<statusVars, buf, cmd_ring, tds, pc, job, ctrlVars, rung, machine>>

Kernel ==
  \/ OnPortEnabled \/ OnPortDisabled
  \/ OnEnableSlot \/ RequestMaxPacketSize \/ ReadMaxPacketSize
  \/ OnAddressDevice \/ OnOtherCommand
  \/ OnDescriptor \/ OnOtherTransfer
  \/ RequestConfiguration \/ ReadConfigurationHeader \/ ParseConfiguration
  \/ ReturnToMain \/ read_usb_keyboard

Next == Controller \/ Kernel

Spec == Init /\ [][Next]_vars

\* The kernel never waits inside a handler; the controller and the devices
\* do in the end what they were asked to do.
FairSpec == Spec /\ WF_vars(Kernel) /\ WF_vars(Controller)

----------------------------------------------------------------------------
(* Properties that hold for every timing of the controller.                *)

\* usb_process_events serves one port at a time: exactly current_port is
\* between Enable Slot and Address Device, and as long as a port waits some
\* port has its turn.  Completions carry no port, so everything hangs on it.
\* (A device that is pulled out and put back sets its port back; if it was the
\* port's turn, the turn is lost and nobody is served any more.)
OneAtATime ==
  /\ \A p \in Ports : ~portsc[p].pulled =>
       (state[p] \in {"ENABLE_SLOT", "ADDRESS_DEVICE"} <=> p = current_port)
  /\ (\E p \in Ports : state[p] = "WAIT_ENABLE_SLOT") => current_port # None

\* Command c is in the command ring, or its completion in the event ring.
Completes(e, c) ==
  /\ e.type = "Command"
  /\ e.cmd = c.cmd
  /\ c.cmd # "EnableSlot" => e.slot = c.slot

InFlight(c) ==
  \/ \E i \in DOMAIN cmd_ring : cmd_ring[i] = c
  \/ \E i \in DOMAIN eventq : Completes(eventq[i], c)

\* The turn of a port ends: the completion its state waits for is on its
\* way, also when completions of other ports' Enable Slot Commands were used
\* for it or ignored.  Otherwise all ports behind it would wait forever.
TurnWillEnd ==
  pc = "loop" /\ current_port # None /\ ~portsc[current_port].pulled =>
    InFlight(IF state[current_port] = "ENABLE_SLOT" THEN Cmd("EnableSlot", 0)
             ELSE Cmd("AddressDevice", transfer_ring[current_port]))

\* ... and when usb_process_events looks at a completed Enable Slot or Address
\* Device Command, it indexes device_status with current_port - 1: some port
\* has its turn then.
CompletionHasPort ==
  pc = "loop" /\ eventq # <<>> /\ Head(eventq).type = "Command"
    /\ Head(eventq).cmd \in {"EnableSlot", "AddressDevice"} => current_port # None

\* usb_process_events keeps turns and completions together: a turn has its
\* completion ahead, and a completion meets a port that has its turn.
TurnMatchesCompletions == TurnWillEnd /\ CompletionHasPort

\* Slots and ports match one to one: a port's transfer ring is the ring of
\* the slot whose context names the port, and no two slots name one port.
\* Transfer events find their port through it.
SlotsMatchPorts ==
  /\ \A p \in Ports : transfer_ring[p] # 0 => device_contexts[transfer_ring[p]] = p
  /\ \A s, t \in Slots :
       s # t /\ device_contexts[s] \in Ports /\ ~portsc[device_contexts[s]].pulled
         => device_contexts[s] # device_contexts[t]

\* A device's descriptors are written to the buffer of its own port, and a
\* device descriptor that is awaited is not overwritten by something else.
TransfersToOwnBuffer ==
  /\ \A s \in Slots : \A i \in DOMAIN tds[s] :
       "req" \in DOMAIN tds[s][i] => tds[s][i].port = device_contexts[s]
  /\ \A p \in Ports : state[p] = "GET_DESCRIPTOR" /\ pc = "loop" /\ ~portsc[p].pulled
                         => buf[p].desc # "config"

\* Twice as many slots as ports (less one) are enough, and three more for a
\* device that is pulled out once, although the slots of ignored Enable Slot
\* completions are never given back: slot 0, which reports a failure nobody
\* checks for, never replaces the scratchpad entry.
ScratchpadKept == device_contexts[0] = Scratchpad

Outstanding ==
  Len(cmd_ring) + Cardinality({i \in DOMAIN eventq : eventq[i].type = "Command"})

\* The command ring is never overrun: there are never more commands written
\* and not yet handled than two for each port (write_ring has no check).
CommandsFit == pc # "input" => Outstanding <= 2 * NumPorts

\* Neither slots nor the command ring run out, which usb_process_events never
\* checks: it asks for few enough slots, and its commands keep to the limit
\* under which TrbRing is a FIFO.
LimitsHold == ScratchpadKept /\ CommandsFit

Rank(st) == CASE st = "RESET" -> 0 [] st = "WAIT_ENABLE_SLOT" -> 1
              [] st = "ENABLE_SLOT" -> 2 [] st = "ADDRESS_DEVICE" -> 3
              [] st = "GET_DESCRIPTOR" -> 4 [] OTHER -> 5

\* Enumeration of a port only moves forward: a later event of another port
\* or a late completion never throws it back.  A device that is pulled out and
\* put back brings a second Port Status Change Event, which sets back its own
\* port and no other.
ForwardOnly ==
  [][\A p \in Ports : Rank(state'[p]) >= Rank(state[p]) \/ portsc[p].pulled]_vars

----------------------------------------------------------------------------
(* Properties that rest on the controller being as fast as the emulated    *)
(* one (Sync).                                                             *)

\* SET_CONFIGURATION carries the value of the configuration that was found
\* to be a keyboard, not what the buffer held before.
ConfiguresWhatItRead ==
  \A s \in Slots : \A i \in DOMAIN tds[s] :
    "setconf" \in DOMAIN tds[s][i] => tds[s][i].setconf = Config(tds[s][i].index)

\* usb_process_events comes to an end, vMain prints its prompt, and then every
\* device is enumerated and a keyboard, if there is one, is set up; nothing is
\* left for read_usb_keyboard to lose.
PromptComesReady ==
  <>[](/\ pc = "input"
       /\ \A p \in Ports : state[p] = "END_OF_INITIALIZE"
       /\ Keyboards # {} => keyboard # 0
       /\ dropped = {})
============================================================================
