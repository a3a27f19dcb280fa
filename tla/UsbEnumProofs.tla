--------------------------- MODULE UsbEnumProofs ---------------------------
(***************************************************************************)
(* Proofs about UsbEnum for every machine, with any number of ports and    *)
(* slots, for a synchronous controller and for one that takes any time,    *)
(* with transfers that fail and devices that are pulled out.               *)
(*                                                                         *)
(* The argument has layers, each an inductive invariant that uses the ones *)
(* before it: types; what a port has reported and whose turn it is; which  *)
(* slot belongs to which port; which commands are on their way, and in     *)
(* which order; which transfers are; and how many commands and slots there *)
(* are, for machines with slots enough.                                    *)
(***************************************************************************)
EXTENDS UsbEnum, FiniteSetTheorems, TLAPS

InFs == pc \in {"fs_req", "fs_read"}
InConf == pc \in {"conf_req", "conf_hdr", "conf_parse"}

\* TypeOK in parts, with the queues as sequences and what the locals of the
\* handler that is cut are.
StatusType ==
  /\ machine \in Machines
  /\ state \in [Ports -> DeviceStates]
  /\ current_port \in Ports \cup {None}
  /\ device_contexts \in [Slots -> Ports \cup {NoPort, Scratchpad}]
  /\ transfer_ring \in [Ports -> Slots]
  /\ buf \in [Ports -> Contents]
  /\ keyboard \in Slots

QueueType ==
  /\ cmd_ring \in Seq([cmd : Commands, slot : Slots])
  /\ tds \in [Slots -> Seq(Requests)]
  /\ eventq \in Seq(Events)

JobType ==
  /\ pc \in {"loop", "fs_req", "fs_read", "conf_req", "conf_hdr", "conf_parse", "input"}
  /\ job \in [slot : Slots, port : Ports \cup {NoPort}, index : Nat, count : Nat, hdr : Contents]
  /\ InFs \/ InConf => job.port \in Ports
  /\ InConf => job.index < job.count /\ job.count <= NumConfigs

PortRegister == [ccs : BOOLEAN, ped : BOOLEAN, csc : BOOLEAN, prc : BOOLEAN,
                 resetting : BOOLEAN, pulled : BOOLEAN]

ControllerType ==
  /\ portsc \in [Ports -> PortRegister]
  /\ nslots \in Slots
  /\ ep \in [Slots -> {"off", "running", "halted"}]
  /\ rung \in [Slots -> BOOLEAN]
  /\ dropped \subseteq {"Transfer", "Command", "PortStatusChange"}

TypeInv == StatusType /\ QueueType /\ JobType /\ ControllerType

\* Event i is the completion of a command c; entry i of the command ring is c.
Done(i, c) == eventq[i].type = "Command" /\ eventq[i].cmd = c
Asked(i, c) == cmd_ring[i].cmd = c

\* The slot belongs to a port.
Given(s) == device_contexts[s] \in Ports

\* Devices are addressed, and transfers queued, for slots that belong to a
\* port, and the transfer ring of a port with a slot is that of such a slot.
RingsGiven == \A s \in Slots : Given(s) => Given(transfer_ring[device_contexts[s]])
CommandsGiven == \A i \in DOMAIN cmd_ring : Asked(i, "AddressDevice") => Given(cmd_ring[i].slot)
EventsGiven ==
  \A i \in DOMAIN eventq :
    eventq[i].type = "Transfer" \/ Done(i, "AddressDevice") => Given(eventq[i].slot)
TransfersGiven == \A s \in Slots : tds[s] # <<>> => Given(s)
HandlerGiven == InFs \/ InConf => Given(transfer_ring[job.port])

PortsKnown == RingsGiven /\ CommandsGiven /\ EventsGiven /\ TransfersGiven /\ HandlerGiven

\* The machine does not change, and so do the sets named after it.
LEMMA SameMachine ==
  ASSUME machine' = machine
  PROVE  /\ Ports' = Ports /\ Slots' = Slots /\ Requests' = Requests /\ Events' = Events
         /\ NumPorts' = NumPorts /\ NumSlots' = NumSlots /\ Usb3' = Usb3
         /\ FullSpeed' = FullSpeed /\ Keyboards' = Keyboards /\ Replug' = Replug
  BY DEF Ports, Slots, Requests, Events, NumPorts, NumSlots, Usb3, FullSpeed, Keyboards, Replug

\* Nothing changes what the machine has.
LEMMA MachineStays == ASSUME [Next]_vars PROVE machine' = machine
  BY DEF Next, vars, Controller, Kernel, Attach, Detach, ResetDone, ExecEnableSlot,
         ExecAddressDevice, ExecOther, ExecTransfer, FailTransfer, OnPortEnabled,
         OnPortDisabled, OnEnableSlot, RequestMaxPacketSize, ReadMaxPacketSize,
         OnAddressDevice, OnOtherCommand, OnDescriptor, OnOtherTransfer,
         RequestConfiguration, ReadConfigurationHeader, ParseConfiguration, ReturnToMain,
         read_usb_keyboard

\* The numbers of ports and slots are numbers, and the marks in their places
\* are none of them.
LEMMA Numbers ==
  ASSUME machine \in Machines
  PROVE  /\ NumPorts \in Nat \ {0} /\ NumSlots \in Nat
         /\ Ports \subseteq Nat \ {0} /\ Slots \subseteq Nat /\ 0 \in Slots
         /\ None \notin Ports /\ NoPort \notin Ports /\ Scratchpad \notin Ports
         /\ NoPort # Scratchpad
  BY MachinesAssumption DEF NumPorts, NumSlots, Ports, Slots, None, NoPort, Scratchpad

\* What the kernel and the controller put into the queues.
LEMMA Records ==
  ASSUME NEW s \in Slots, NEW p \in Ports, NEW c \in Commands, NEW ok \in BOOLEAN,
         NEW r \in Contents, NEW i \in Nat
  PROVE  /\ [type |-> "Transfer", slot |-> s, ok |-> ok] \in Events
         /\ [type |-> "Command", cmd |-> c, slot |-> s] \in Events
         /\ [type |-> "PortStatusChange", port |-> p] \in Events
         /\ Cmd(c, s) \in [cmd : Commands, slot : Slots]
         /\ [req |-> r, port |-> p] \in Requests
         /\ [setconf |-> r, index |-> i] \in Requests
  BY DEF Events, Cmd, Requests

\* An event tells what it is about.
LEMMA EventFields ==
  ASSUME NEW e \in Events
  PROVE  /\ e.type \in {"Transfer", "Command", "PortStatusChange"}
         /\ e.type = "Transfer" => e.slot \in Slots /\ e.ok \in BOOLEAN
         /\ e.type = "Command" => e.slot \in Slots /\ e.cmd \in Commands
         /\ e.type = "PortStatusChange" => e.port \in Ports
  BY DEF Events

\* The typing the proofs work with implies the run's.
LEMMA TypeInvOK == TypeInv => TypeOK
<1> SUFFICES ASSUME TypeInv PROVE TypeOK
  OBVIOUS
<1>1. \A s \in Slots : \A i \in DOMAIN tds[s] : tds[s][i] \in Requests
  BY DEF TypeInv, QueueType
<1>2. \A i \in DOMAIN eventq : eventq[i] \in Events
  BY DEF TypeInv, QueueType
<1> QED BY <1>1, <1>2
       DEF TypeInv, StatusType, QueueType, JobType, ControllerType, PortRegister, TypeOK

\* The contents a buffer can have.
LEMMA ContentsIn ==
  /\ Zeroes \in Contents /\ Device8 \in Contents /\ Device \in Contents
  /\ \A i \in 0 .. NumConfigs : Config(i) \in Contents
  BY DEF Contents

\* What init_xhci leaves is well typed and no port is known yet.
LEMMA InitType == Init => TypeInv /\ PortsKnown
<1> SUFFICES ASSUME Init PROVE TypeInv /\ PortsKnown
  OBVIOUS
<1>1. machine \in Machines /\ 0 \in Slots /\ NoPort \notin Ports /\ Scratchpad \notin Ports
      /\ NumConfigs \in Nat
  BY Numbers, ModeAssumption DEF Init
<1>2. StatusType
  BY <1>1, ContentsIn DEF Init, StatusType, DeviceStates
<1>3. QueueType
  BY <1>1 DEF Init, QueueType
<1>4. JobType
  BY <1>1, ContentsIn DEF Init, JobType, InFs, InConf, NoJob
<1>5. ControllerType
  BY <1>1 DEF Init, ControllerType, PortRegister
<1>6. PortsKnown
  BY <1>1 DEF Init, PortsKnown, RingsGiven, CommandsGiven, EventsGiven, TransfersGiven,
              HandlerGiven, Given, InFs, InConf
<1> QED BY <1>2, <1>3, <1>4, <1>5, <1>6 DEF TypeInv

\* A part whose variables a step leaves alone keeps its type.
LEMMA StatusSame ==
  ASSUME StatusType, UNCHANGED <<machine, state, current_port, device_contexts,
                                 transfer_ring, buf, keyboard>>
  PROVE  StatusType'
  BY SameMachine DEF StatusType

\* A step that leaves the handler alone keeps its type.
LEMMA JobSame ==
  ASSUME JobType, UNCHANGED <<machine, pc, job>>
  PROVE  JobType'
  BY SameMachine DEF JobType, InFs, InConf

\* A step that leaves the controller alone keeps its type.
LEMMA ControllerSame ==
  ASSUME ControllerType, UNCHANGED <<machine, portsc, nslots, ep, rung, dropped>>
  PROVE  ControllerType'
  BY SameMachine DEF ControllerType

\* The event at the head of the queue.
LEMMA HeadFields ==
  ASSUME QueueType, eventq # <<>>
  PROVE  /\ Head(eventq) = eventq[1] /\ 1 \in DOMAIN eventq /\ Tail(eventq) \in Seq(Events)
         /\ Head(eventq) \in Events
         /\ Head(eventq).type \in {"Transfer", "Command", "PortStatusChange"}
         /\ Head(eventq).type = "Transfer" => Head(eventq).slot \in Slots
         /\ Head(eventq).type = "Command" => Head(eventq).slot \in Slots
         /\ Head(eventq).type = "PortStatusChange" => Head(eventq).port \in Ports
<1>1. Head(eventq) = eventq[1] /\ 1 \in DOMAIN eventq /\ Tail(eventq) \in Seq(Events)
      /\ Head(eventq) \in Events
  BY DEF QueueType
<1> QED BY <1>1, EventFields

\* The command at the head of the command ring.
LEMMA CommandFields ==
  ASSUME QueueType, cmd_ring # <<>>
  PROVE  /\ Head(cmd_ring) = cmd_ring[1] /\ 1 \in DOMAIN cmd_ring
         /\ Head(cmd_ring).cmd \in Commands /\ Head(cmd_ring).slot \in Slots
         /\ Tail(cmd_ring) \in Seq([cmd : Commands, slot : Slots])
<1> DEFINE C == [cmd : Commands, slot : Slots]
<1>1. cmd_ring \in Seq(C) /\ \A c \in C : c.cmd \in Commands /\ c.slot \in Slots
  BY DEF QueueType
<1> HIDE DEF C
<1>2. /\ Head(cmd_ring) = cmd_ring[1] /\ 1 \in DOMAIN cmd_ring
      /\ Head(cmd_ring) \in C /\ Tail(cmd_ring) \in Seq(C)
  BY <1>1
<1> QED BY <1>1, <1>2 DEF C

\* Every queued command names a slot.
LEMMA CommandSlots == ASSUME QueueType PROVE \A i \in DOMAIN cmd_ring : cmd_ring[i].slot \in Slots
<1> DEFINE C == [cmd : Commands, slot : Slots]
<1>1. cmd_ring \in Seq(C) /\ \A c \in C : c.slot \in Slots
  BY DEF QueueType
<1> HIDE DEF C
<1> QED BY <1>1

\* Taking the head off a queue, and appending to one.
LEMMA TailIndex ==
  ASSUME NEW S, NEW q \in Seq(S), q # <<>>
  PROVE  /\ Tail(q) \in Seq(S) /\ 1 \in DOMAIN q /\ Head(q) = q[1] /\ Head(q) \in S
         /\ \A i \in DOMAIN Tail(q) : i + 1 \in DOMAIN q /\ Tail(q)[i] = q[i + 1]
         /\ \A i \in DOMAIN q : i # 1 => i - 1 \in DOMAIN Tail(q) /\ Tail(q)[i - 1] = q[i]
         /\ DOMAIN q \subseteq Nat \ {0} /\ DOMAIN Tail(q) \subseteq Nat \ {0}
  OBVIOUS

\* A queue's entries keep their places when one is added behind them.
LEMMA AppendIndex ==
  ASSUME NEW S, NEW q \in Seq(S), NEW e \in S
  PROVE  /\ Append(q, e) \in Seq(S) /\ Append(q, e) # <<>>
         /\ Len(q) + 1 \in DOMAIN Append(q, e) /\ Append(q, e)[Len(q) + 1] = e
         /\ \A i \in DOMAIN q : i < Len(q) + 1 /\ i \in DOMAIN Append(q, e) /\ Append(q, e)[i] = q[i]
         /\ \A i \in DOMAIN Append(q, e) :
              i \in DOMAIN q \/ (i = Len(q) + 1 /\ i \notin DOMAIN q)
         /\ DOMAIN q \subseteq Nat \ {0}
  OBVIOUS

\* usb_process_events takes the event at the head of the queue.
LEMMA TakeFacts ==
  ASSUME QueueType, NEW kind, Take(kind)
  PROVE  /\ pc = "loop" /\ eventq # <<>> /\ Head(eventq).type = kind
         /\ Head(eventq) = eventq[1] /\ 1 \in DOMAIN eventq /\ Head(eventq) \in Events
         /\ eventq' = Tail(eventq) /\ eventq' \in Seq(Events)
         /\ \A i \in DOMAIN eventq' : i + 1 \in DOMAIN eventq /\ eventq'[i] = eventq[i + 1]
         /\ \A i \in DOMAIN eventq : i # 1 => i - 1 \in DOMAIN eventq' /\ eventq'[i - 1] = eventq[i]
         /\ kind = "Transfer" => Head(eventq).slot \in Slots
         /\ kind = "Command" => Head(eventq).slot \in Slots /\ Head(eventq).cmd \in Commands
         /\ kind = "PortStatusChange" => Head(eventq).port \in Ports
         /\ DOMAIN eventq \subseteq Nat \ {0} /\ DOMAIN eventq' \subseteq Nat \ {0}
<1>1. pc = "loop" /\ eventq # <<>> /\ Head(eventq).type = kind /\ eventq' = Tail(eventq)
  BY DEF Take, KernelAt
<1>2. eventq \in Seq(Events)
  BY DEF QueueType
<1>3. /\ Tail(eventq) \in Seq(Events) /\ 1 \in DOMAIN eventq /\ Head(eventq) = eventq[1]
      /\ Head(eventq) \in Events
      /\ \A i \in DOMAIN Tail(eventq) : i + 1 \in DOMAIN eventq /\ Tail(eventq)[i] = eventq[i + 1]
      /\ \A i \in DOMAIN eventq :
           i # 1 => i - 1 \in DOMAIN Tail(eventq) /\ Tail(eventq)[i - 1] = eventq[i]
      /\ DOMAIN eventq \subseteq Nat \ {0} /\ DOMAIN Tail(eventq) \subseteq Nat \ {0}
  BY <1>1, <1>2, TailIndex
<1>4. /\ kind = "Transfer" => Head(eventq).slot \in Slots
      /\ kind = "Command" => Head(eventq).slot \in Slots /\ Head(eventq).cmd \in Commands
      /\ kind = "PortStatusChange" => Head(eventq).port \in Ports
  BY <1>1, <1>3, EventFields
<1> QED BY <1>1, <1>3, <1>4

\* A command written to the command ring.
LEMMA WriteCommand ==
  ASSUME QueueType, NEW c \in Commands, NEW s \in Slots, cmd_ring' = Append(cmd_ring, Cmd(c, s))
  PROVE  /\ cmd_ring' \in Seq([cmd : Commands, slot : Slots])
         /\ Len(cmd_ring) + 1 \in DOMAIN cmd_ring' /\ Len(cmd_ring) + 1 \notin DOMAIN cmd_ring
         /\ cmd_ring'[Len(cmd_ring) + 1].cmd = c /\ cmd_ring'[Len(cmd_ring) + 1].slot = s
         /\ \A i \in DOMAIN cmd_ring :
              i < Len(cmd_ring) + 1 /\ i \in DOMAIN cmd_ring' /\ cmd_ring'[i] = cmd_ring[i]
         /\ \A i \in DOMAIN cmd_ring' : i \in DOMAIN cmd_ring \/ i = Len(cmd_ring) + 1
         /\ DOMAIN cmd_ring \subseteq Nat \ {0} /\ Len(cmd_ring) \in Nat
<1> DEFINE C == [cmd : Commands, slot : Slots]
           e == Cmd(c, s)
<1>1. cmd_ring \in Seq(C) /\ e \in C /\ e.cmd = c /\ e.slot = s /\ cmd_ring' = Append(cmd_ring, e)
  BY DEF QueueType, Cmd
<1> HIDE DEF C, e
<1>2. Len(cmd_ring) + 1 \notin DOMAIN cmd_ring /\ Len(cmd_ring) \in Nat
  BY <1>1
<1> QED BY <1>1, <1>2, AppendIndex DEF C

\* A transfer queued for slot s on the ring of slot ring.
LEMMA WriteTransfer ==
  ASSUME QueueType, ControllerType, NEW ring \in Slots, NEW s \in Slots, NEW td \in Requests,
         QueueTransfer(ring, s, td)
  PROVE  /\ tds' \in [Slots -> Seq(Requests)] /\ rung' \in [Slots -> BOOLEAN]
         /\ \A t \in Slots : t # ring => tds'[t] = tds[t]
         /\ tds'[ring] # <<>>
         /\ \A i \in DOMAIN tds'[ring] :
              (i \in DOMAIN tds[ring] /\ tds'[ring][i] = tds[ring][i]) \/ tds'[ring][i] = td
<1>1. tds \in [Slots -> Seq(Requests)] /\ tds[ring] \in Seq(Requests)
  BY DEF QueueType
<1>2. tds' = [tds EXCEPT ![ring] = Append(tds[ring], td)]
  BY <1>1 DEF QueueTransfer
<1>3. tds'[ring] = Append(tds[ring], td)
  BY <1>1, <1>2
<1>4. /\ tds'[ring] \in Seq(Requests) /\ tds'[ring] # <<>>
      /\ \A i \in DOMAIN tds'[ring] :
           (i \in DOMAIN tds[ring] /\ tds'[ring][i] = tds[ring][i]) \/ tds'[ring][i] = td
  BY <1>1, <1>3
<1>5. tds' \in [Slots -> Seq(Requests)] /\ \A t \in Slots : t # ring => tds'[t] = tds[t]
  BY <1>1, <1>2, <1>3, <1>4
<1>6. (ep[s] = "running") \in BOOLEAN
  OBVIOUS
<1>7. rung' \in [Slots -> BOOLEAN]
  BY <1>6 DEF QueueTransfer, ControllerType
<1> QED BY <1>4, <1>5, <1>7

\* The controller's steps keep the types.
LEMMA ControllerKeepsTypes ==
  ASSUME TypeInv, Controller
  PROVE  TypeInv'
<1> USE DEF statusVars, ctrlVars
<1>m. machine' = machine
  BY MachineStays DEF Next
<1>s. /\ Ports' = Ports /\ Slots' = Slots /\ Requests' = Requests /\ Events' = Events
      /\ 0 \in Slots /\ Slots \subseteq Nat /\ NumSlots \in Nat
  BY <1>m, SameMachine, Numbers DEF TypeInv, StatusType
<1>t. StatusType /\ QueueType /\ JobType /\ ControllerType
  BY DEF TypeInv
<1>c. "EnableSlot" \in Commands /\ "AddressDevice" \in Commands
  BY DEF Commands
<1>1. ASSUME NEW p \in Ports, Attach(p) \/ Detach(p) \/ ResetDone(p) PROVE TypeInv'
  <2>1. [type |-> "PortStatusChange", port |-> p] \in Events
    BY DEF Events
  <2>2. eventq' \in Seq(Events)
    <3> DEFINE e == [type |-> "PortStatusChange", port |-> p]
    <3>1. eventq' = eventq \/ eventq' = Append(eventq, e)
      BY <1>1 DEF Attach, Detach, ResetDone, PortEvent
    <3>2. e \in Events
      BY <2>1
    <3>3. eventq \in Seq(Events)
      BY <1>t DEF QueueType
    <3> HIDE DEF e
    <3> QED BY <3>1, <3>2, <3>3
  <2>3. StatusType' /\ JobType'
    BY <1>t, <1>1, <1>m, StatusSame, JobSame DEF Attach, Detach, ResetDone
  <2>4. QueueType'
    BY <1>t, <1>s, <1>1, <2>2 DEF QueueType, Attach, Detach, ResetDone
  <2>5. portsc' \in [Ports -> PortRegister]
    <3>1. CASE Attach(p)
      <4>1. PICK b \in BOOLEAN : b = (p \in Usb3)
        <5>1. (p \in Usb3) \in BOOLEAN
          OBVIOUS
        <5>2. \A x \in BOOLEAN : \E b \in BOOLEAN : b = x
          OBVIOUS
        <5> QED BY ONLY <5>1, <5>2, Zenon
      <4>2. portsc' = [portsc EXCEPT ![p].ccs = TRUE, ![p].csc = TRUE, ![p].ped = b]
        BY <3>1, <4>1, Zenon DEF Attach
      <4>3. portsc[p] \in PortRegister
        BY <1>t DEF ControllerType
      <4> DEFINE r == [portsc[p] EXCEPT !.ccs = TRUE, !.csc = TRUE, !.ped = b]
      <4>4. r \in PortRegister
        BY <4>3 DEF PortRegister
      <4>5. portsc' = [portsc EXCEPT ![p] = r]
        BY <1>t, <4>2 DEF ControllerType
      <4> HIDE DEF r
      <4> QED BY <1>t, <4>4, <4>5 DEF ControllerType
    <3>2. CASE Detach(p)
      BY <1>t, <3>2 DEF Detach, ControllerType, PortRegister
    <3>3. CASE ResetDone(p)
      <4>1. portsc[p] \in PortRegister
        BY <1>t DEF ControllerType
      <4> DEFINE r == [portsc[p] EXCEPT !.resetting = FALSE, !.ped = TRUE, !.prc = TRUE]
      <4>2. r \in PortRegister
        BY <4>1 DEF PortRegister
      <4>3. portsc' = [portsc EXCEPT ![p] = r]
        BY <1>t, <3>3 DEF ControllerType, ResetDone
      <4> HIDE DEF r
      <4> QED BY <1>t, <4>2, <4>3 DEF ControllerType
    <3> QED BY <1>1, <3>1, <3>2, <3>3
  <2>6. ep' \in [Slots -> {"off", "running", "halted"}]
    BY <1>t, <1>1 DEF Attach, Detach, ResetDone, ControllerType
  <2>7. ControllerType'
    BY <1>t, <1>s, <1>1, <2>5, <2>6 DEF Attach, Detach, ResetDone, ControllerType
  <2> QED BY <2>3, <2>4, <2>7 DEF TypeInv
<1>2. ASSUME NEW c \in Commands, NEW s \in Slots, cmd_ring # <<>>, cmd_ring' = Tail(cmd_ring),
             eventq' = Complete(c, s), tds' = tds
      PROVE  QueueType'
  <2> DEFINE e == [type |-> "Command", cmd |-> c, slot |-> s]
  <2>1. e \in Events /\ eventq' = Append(eventq, e)
    BY <1>2 DEF Events, Complete
  <2> HIDE DEF e
  <2>2. eventq' \in Seq(Events)
    BY <1>t, <2>1 DEF QueueType
  <2> QED BY <1>t, <1>s, <1>2, <2>2, CommandFields DEF QueueType
<1>3. CASE ExecEnableSlot
  <2>1. nslots' \in Slots /\ (IF nslots < NumSlots THEN nslots + 1 ELSE 0) \in Slots
    BY <1>t, <1>s, <1>3 DEF ExecEnableSlot, ControllerType, Slots
  <2>2. QueueType'
    BY <1>2, <1>3, <1>c, <2>1 DEF ExecEnableSlot
  <2>3. StatusType' /\ JobType'
    BY <1>t, <1>3, <1>m, StatusSame, JobSame DEF ExecEnableSlot
  <2>4. ControllerType'
    BY <1>t, <1>s, <1>3, <2>1 DEF ExecEnableSlot, ControllerType
  <2> QED BY <2>2, <2>3, <2>4 DEF TypeInv
<1>4. ASSUME NEW ok \in BOOLEAN, ExecAddressDevice(ok) PROVE TypeInv'
  <2>1. cmd_ring # <<>> /\ Head(cmd_ring).slot \in Slots
    BY <1>t, <1>4, CommandFields DEF ExecAddressDevice
  <2>2. QueueType'
    BY <1>2, <1>4, <1>c, <2>1 DEF ExecAddressDevice
  <2>3. StatusType' /\ JobType'
    BY <1>t, <1>4, <1>m, StatusSame, JobSame DEF ExecAddressDevice
  <2>4. ControllerType'
    BY <1>t, <1>s, <1>4, <2>1 DEF ExecAddressDevice, ControllerType
  <2> QED BY <2>2, <2>3, <2>4 DEF TypeInv
<1>5. CASE ExecOther
  <2>1. cmd_ring # <<>> /\ Head(cmd_ring).slot \in Slots /\ Head(cmd_ring).cmd \in Commands
    BY <1>t, <1>5, CommandFields DEF ExecOther
  <2>2. QueueType'
    BY <1>2, <1>5, <2>1 DEF ExecOther
  <2>3. StatusType' /\ JobType' /\ ControllerType'
    BY <1>t, <1>5, <1>m, StatusSame, JobSame, ControllerSame DEF ExecOther
  <2> QED BY <2>2, <2>3 DEF TypeInv
<1>6. ASSUME NEW s \in Slots, ExecTransfer(s) \/ FailTransfer(s) PROVE TypeInv'
  <2>1. tds[s] \in Seq(Requests) /\ tds[s] # <<>>
    BY <1>t, <1>6 DEF QueueType, ExecTransfer, FailTransfer, Runnable
  <2>2. Head(tds[s]) \in Requests /\ Tail(tds[s]) \in Seq(Requests)
    BY <2>1
  <2>3. tds' \in [Slots -> Seq(Requests)]
    BY <1>t, <1>6, <2>2 DEF QueueType, ExecTransfer, FailTransfer
  <2>4. eventq' \in Seq(Events)
    <3>1. PICK ok \in BOOLEAN : eventq' = Append(eventq, [type |-> "Transfer", slot |-> s, ok |-> ok])
      BY <1>6 DEF ExecTransfer, FailTransfer
    <3> DEFINE e == [type |-> "Transfer", slot |-> s, ok |-> ok]
    <3>2. e \in Events /\ eventq' = Append(eventq, e)
      BY <3>1 DEF Events
    <3> HIDE DEF e
    <3> QED BY <1>t, <3>2 DEF QueueType
  <2>5. QueueType' /\ JobType'
    BY <1>t, <1>s, <1>6, <1>m, <2>3, <2>4, JobSame DEF QueueType, ExecTransfer, FailTransfer
  <2>6. buf' \in [Ports -> Contents]
    <3>1. "req" \in DOMAIN Head(tds[s]) => Head(tds[s]).req \in Contents /\ Head(tds[s]).port \in Ports
      BY <2>2 DEF Requests
    <3> QED BY <1>t, <1>6, <3>1 DEF StatusType, ExecTransfer, FailTransfer
  <2>7. StatusType'
    BY <1>t, <1>s, <1>6, <1>m, <2>6 DEF StatusType, ExecTransfer, FailTransfer
  <2>8. ControllerType'
    <3>1. (Tail(tds[s]) # <<>>) \in BOOLEAN
      OBVIOUS
    <3>2. rung' \in [Slots -> BOOLEAN]
      BY <1>t, <1>6, <3>1 DEF ControllerType, ExecTransfer, FailTransfer
    <3> QED BY <1>t, <1>s, <1>6, <3>2 DEF ControllerType, ExecTransfer, FailTransfer
  <2> QED BY <2>5, <2>7, <2>8 DEF TypeInv
<1> QED BY <1>1, <1>3, <1>4, <1>5, <1>6 DEF Controller

\* The ports that wait for their turn in a state of all ports, and that
\* LastWaiting finds one of them if there is one.
WaitingPorts(st) == {p \in Ports : st[p] = "WAIT_ENABLE_SLOT"}

\* The search for a waiting port finds one exactly when there is one.
LEMMA LastWaitingIs ==
  ASSUME NEW st, machine \in Machines
  PROVE  /\ WaitingPorts(st) = {} => LastWaiting(st) = None
         /\ WaitingPorts(st) # {} => LastWaiting(st) \in WaitingPorts(st)
<1> DEFINE W == WaitingPorts(st)
           D == {d \in Nat : d <= NumPorts /\ NumPorts - d \in W}
<1>1. CASE W = {}
  BY <1>1 DEF LastWaiting, WaitingPorts
<1>2. CASE W # {}
  <2>1. NumPorts \in Nat /\ W \subseteq 1 .. NumPorts
    BY Numbers DEF WaitingPorts, Ports
  <2> HIDE DEF W
  <2>2. PICK q \in W : TRUE
    BY <1>2
  <2>3. NumPorts - q \in D /\ D \subseteq Nat
    BY <2>1, <2>2
  <2> HIDE DEF D
  <2>4. PICK d \in D : \A e \in D : ~(<<e, d>> \in OpToRel(<, Nat))
    BY <2>3, WFMin, NatLessThanWellFounded
  <2>5. \A e \in D : d <= e
    <3>1. \A e \in D : ~(e < d)
      BY <2>3, <2>4, Zenon DEF OpToRel
    <3> QED BY <2>3, <3>1
  <2>6. NumPorts - d \in W /\ \A r \in W : r <= NumPorts - d
    BY <2>1, <2>3, <2>5 DEF D
  <2>7. \E p \in W : \A r \in W : r <= p
    BY <2>6
  <2>8. (CHOOSE p \in W : \A r \in W : r <= p) \in W
    BY <2>7
  <2> QED BY <1>2, <2>8 DEF LastWaiting, WaitingPorts, W
<1> QED BY <1>1, <1>2

\* The kernel's steps keep the types.
LEMMA KernelKeepsTypes ==
  ASSUME TypeInv, PortsKnown, Kernel
  PROVE  TypeInv'
<1> USE DEF statusVars, ctrlVars
<1>m. machine' = machine
  BY MachineStays DEF Next
<1>s. /\ Ports' = Ports /\ Slots' = Slots /\ Requests' = Requests /\ Events' = Events
      /\ 0 \in Slots /\ None \notin Ports /\ NumConfigs \in Nat
  BY <1>m, SameMachine, Numbers, ModeAssumption DEF TypeInv, StatusType
<1>t. StatusType /\ QueueType /\ JobType /\ ControllerType
  BY DEF TypeInv
<1>c. /\ "EnableSlot" \in Commands /\ "AddressDevice" \in Commands
      /\ "EvaluateContext" \in Commands /\ "ConfigureEndpoint" \in Commands
  BY DEF Commands
<1>n. NoJob \in [slot : Slots, port : Ports \cup {NoPort}, index : Nat, count : Nat, hdr : Contents]
  BY <1>s, ContentsIn DEF NoJob
<1>1. CASE OnPortEnabled
  <2>1. eventq' \in Seq(Events) /\ Head(eventq).port \in Ports
    BY <1>1, <1>t, TakeFacts DEF OnPortEnabled
  <2>2. cmd_ring' \in Seq([cmd : Commands, slot : Slots])
    BY <1>1, <1>t, <1>s, <1>c, WriteCommand DEF OnPortEnabled
  <2>3. QueueType'
    BY <1>1, <1>t, <1>s, <2>1, <2>2 DEF OnPortEnabled, QueueType
  <2>4. StatusType'
    BY <1>1, <1>t, <1>s, <1>m, <2>1
       DEF OnPortEnabled, StatusType, TurnWhenEnabled, StateWhenEnabled, DeviceStates
  <2>5. JobType' /\ ControllerType'
    BY <1>1, <1>t, <1>m, JobSame, ControllerSame DEF OnPortEnabled
  <2> QED BY <2>3, <2>4, <2>5 DEF TypeInv
<1>2. CASE OnPortDisabled
  <2>1. eventq' \in Seq(Events) /\ Head(eventq).port \in Ports
    BY <1>2, <1>t, TakeFacts DEF OnPortDisabled
  <2>2. QueueType'
    BY <1>2, <1>t, <1>s, <2>1 DEF OnPortDisabled, QueueType
  <2>3. StatusType' /\ JobType'
    BY <1>2, <1>t, <1>m, StatusSame, JobSame DEF OnPortDisabled
  <2>4. portsc' \in [Ports -> PortRegister]
    <3> DEFINE p == Head(eventq).port
               r == [portsc[p] EXCEPT !.csc = FALSE, !.resetting = portsc[p].ccs]
    <3>1. portsc[p] \in PortRegister
      BY <1>t, <2>1 DEF ControllerType
    <3>2. r \in PortRegister
      BY <3>1 DEF PortRegister
    <3>3. portsc' = [portsc EXCEPT ![p] = r]
      BY <1>2, <1>t, <2>1 DEF ControllerType, OnPortDisabled
    <3> HIDE DEF r, p
    <3> QED BY <1>t, <3>2, <3>3 DEF ControllerType
  <2>5. ControllerType'
    BY <1>2, <1>t, <1>s, <2>4 DEF ControllerType, OnPortDisabled
  <2> QED BY <2>2, <2>3, <2>5 DEF TypeInv
<1>3. CASE OnEnableSlot
  <2> DEFINE s == Head(eventq).slot
             port_id == IF device_contexts[s] \in Ports THEN device_contexts[s] ELSE current_port
  <2>1. eventq' \in Seq(Events) /\ s \in Slots /\ current_port \in Ports /\ port_id \in Ports
    BY <1>3, <1>t, TakeFacts DEF OnEnableSlot, Serving, StatusType
  <2>2. cmd_ring' \in Seq([cmd : Commands, slot : Slots])
    BY <1>3, <1>t, <1>c, <2>1, WriteCommand DEF OnEnableSlot
  <2>3. QueueType'
    BY <1>3, <1>t, <1>s, <2>1, <2>2 DEF OnEnableSlot, QueueType
  <2>4. StatusType'
    BY <1>3, <1>t, <1>s, <1>m, <2>1 DEF OnEnableSlot, StatusType, DeviceStates
  <2>5. JobType'
    <3>1. CASE pc' = pc /\ job' = job
      BY <3>1, <1>t, <1>m, JobSame
    <3>2. CASE pc' = "fs_req" /\ job' = [NoJob EXCEPT !.slot = s, !.port = port_id]
      <4> HIDE DEF s, port_id
      <4>1. /\ job' \in [slot : Slots, port : Ports \cup {NoPort}, index : Nat, count : Nat,
                         hdr : Contents]
            /\ job'.port \in Ports
        BY <3>2, <1>n, <2>1 DEF NoJob
      <4> QED BY <3>2, <4>1, <1>s DEF JobType, InFs, InConf
    <3> QED BY <1>3, <3>1, <3>2 DEF OnEnableSlot
  <2>6. ControllerType'
    BY <1>3, <1>t, <1>m, ControllerSame DEF OnEnableSlot
  <2> QED BY <2>3, <2>4, <2>5, <2>6 DEF TypeInv
<1>4. CASE RequestMaxPacketSize
  <2>1. job.port \in Ports /\ job.slot \in Slots /\ transfer_ring[job.port] \in Slots
    BY <1>4, <1>t DEF RequestMaxPacketSize, KernelAt, JobType, InFs, StatusType
  <2>2. [req |-> Device8, port |-> job.port] \in Requests
    BY <2>1, ContentsIn DEF Requests
  <2>3. tds' \in [Slots -> Seq(Requests)] /\ rung' \in [Slots -> BOOLEAN]
    BY <1>4, <1>t, <2>1, <2>2, WriteTransfer DEF RequestMaxPacketSize
  <2>4. QueueType' /\ ControllerType' /\ StatusType'
    BY <1>4, <1>t, <1>s, <1>m, <2>3, StatusSame DEF RequestMaxPacketSize, QueueType, ControllerType
  <2>5. JobType'
    BY <1>4, <1>t, <1>s, <2>1 DEF RequestMaxPacketSize, KernelAt, JobType, InFs, InConf
  <2> QED BY <2>4, <2>5 DEF TypeInv
<1>5. CASE ReadMaxPacketSize
  <2>1. cmd_ring' \in Seq([cmd : Commands, slot : Slots])
    <3>1. job.slot \in Slots
      BY <1>t DEF JobType
    <3>2. cmd_ring' = cmd_ring \/ cmd_ring' = Append(cmd_ring, Cmd("EvaluateContext", job.slot))
      BY <1>5 DEF ReadMaxPacketSize
    <3>3. CASE cmd_ring' = cmd_ring
      BY <3>3, <1>t DEF QueueType
    <3> QED BY <1>t, <1>c, <3>1, <3>2, <3>3, WriteCommand
  <2>2. QueueType' /\ ControllerType'
    BY <1>5, <1>t, <1>s, <1>m, <2>1, ControllerSame DEF ReadMaxPacketSize, QueueType
  <2>3. StatusType'
    BY <1>5, <1>t, <1>s, <1>m DEF ReadMaxPacketSize, StatusType, DeviceStates
  <2>4. JobType'
    BY <1>5, <1>n, <1>s DEF ReadMaxPacketSize, JobType, InFs, InConf
  <2> QED BY <2>2, <2>3, <2>4 DEF TypeInv
<1>6. CASE OnAddressDevice
  <2> DEFINE s == Head(eventq).slot
             st == [state EXCEPT ![current_port] = "GET_DESCRIPTOR"]
             next == LastWaiting(st)
             td == [req |-> Device, port |-> current_port]
  <2>1. /\ eventq' \in Seq(Events) /\ s \in Slots /\ current_port \in Ports
        /\ Done(1, "AddressDevice") /\ 1 \in DOMAIN eventq /\ s = eventq[1].slot
    BY <1>6, <1>t, TakeFacts DEF OnAddressDevice, Serving, StatusType, Done
  <2>2. device_contexts[s] \in Ports
    BY <2>1 DEF PortsKnown, EventsGiven, Given, Done
  <2>3. transfer_ring[device_contexts[s]] \in Slots
    BY <2>2, <1>t DEF StatusType
  <2>4. td \in Requests
    BY <2>1, ContentsIn DEF Requests
  <2>5. QueueTransfer(transfer_ring[device_contexts[s]], s, td)
    BY <1>6 DEF OnAddressDevice, DescriptorBuffer
  <2>6. tds' \in [Slots -> Seq(Requests)] /\ rung' \in [Slots -> BOOLEAN]
    BY ONLY <1>t, <2>1, <2>3, <2>4, <2>5, WriteTransfer
  <2>7. next \in Ports \cup {None}
    <3>1. machine \in Machines /\ WaitingPorts(st) \subseteq Ports
      BY <1>t DEF StatusType, WaitingPorts
    <3> HIDE DEF st
    <3> QED BY <3>1, LastWaitingIs
  <2>8. cmd_ring' \in Seq([cmd : Commands, slot : Slots])
    <3>1. cmd_ring' = cmd_ring \/ cmd_ring' = Append(cmd_ring, Cmd("EnableSlot", 0))
      BY <1>6 DEF OnAddressDevice, AskSlotFor
    <3>2. CASE cmd_ring' = cmd_ring
      BY <3>2, <1>t DEF QueueType
    <3> QED BY <1>t, <1>c, <1>s, <3>1, <3>2, WriteCommand
  <2>9. QueueType'
    BY <1>s, <2>1, <2>6, <2>8 DEF QueueType
  <2>10. StatusType'
    <3>1. st \in [Ports -> DeviceStates]
      BY <1>t DEF StatusType, DeviceStates
    <3>2. /\ current_port' = next
          /\ state' = IF next = None THEN st ELSE [st EXCEPT ![next] = "ENABLE_SLOT"]
      BY <1>6 DEF OnAddressDevice
    <3> HIDE DEF st, next
    <3>3. state' \in [Ports -> DeviceStates]
      BY <3>1, <3>2 DEF DeviceStates
    <3> QED BY <1>6, <1>t, <1>s, <1>m, <2>7, <3>2, <3>3 DEF OnAddressDevice, StatusType
  <2>11. JobType' /\ ControllerType'
    BY <1>6, <1>t, <1>s, <1>m, <2>6, JobSame DEF OnAddressDevice, ControllerType
  <2> QED BY <2>9, <2>10, <2>11 DEF TypeInv
<1>7. CASE OnOtherCommand \/ OnOtherTransfer
  <2>1. eventq' \in Seq(Events)
    BY <1>7, <1>t, TakeFacts DEF OnOtherCommand, OnOtherTransfer
  <2>2. QueueType'
    BY <1>7, <1>t, <1>s, <2>1 DEF OnOtherCommand, OnOtherTransfer, QueueType
  <2>3. StatusType' /\ JobType' /\ ControllerType'
    BY <1>7, <1>t, <1>m, StatusSame, JobSame, ControllerSame DEF OnOtherCommand, OnOtherTransfer
  <2> QED BY <2>2, <2>3 DEF TypeInv
<1>8. CASE OnDescriptor
  <2> DEFINE s == Head(eventq).slot
             p == device_contexts[s]
  <2>1. /\ eventq' \in Seq(Events) /\ s \in Slots
        /\ 1 \in DOMAIN eventq /\ eventq[1].type = "Transfer" /\ s = eventq[1].slot
    BY <1>8, <1>t, TakeFacts DEF OnDescriptor
  <2>2. p \in Ports
    BY <2>1 DEF PortsKnown, EventsGiven, Given
  <2>3. QueueType' /\ StatusType' /\ ControllerType'
    BY <1>8, <1>t, <1>s, <1>m, <2>1, StatusSame, ControllerSame DEF OnDescriptor, QueueType
  <2>4. JobType'
    <3>1. CASE pc' = pc /\ job' = job
      BY <3>1, <1>t, <1>m, JobSame
    <3>2. CASE /\ num_configs(p) > 0 /\ pc' = "conf_req"
               /\ job' = [NoJob EXCEPT !.slot = s, !.port = p, !.count = num_configs(p)]
      <4>1. num_configs(p) \in Nat /\ num_configs(p) <= NumConfigs
        BY <1>s DEF num_configs
      <4> HIDE DEF s, p
      <4>2. /\ job' \in [slot : Slots, port : Ports \cup {NoPort}, index : Nat, count : Nat,
                         hdr : Contents]
            /\ job'.port \in Ports /\ job'.index = 0 /\ job'.count = num_configs(p)
        BY <3>2, <1>n, <2>1, <2>2, <4>1 DEF NoJob
      <4> QED BY <3>2, <4>1, <4>2, <1>s DEF JobType, InFs, InConf
    <3> QED BY <1>8, <3>1, <3>2 DEF OnDescriptor
  <2> QED BY <2>3, <2>4 DEF TypeInv
<1>9. CASE RequestConfiguration
  <2>1. /\ job.port \in Ports /\ job.slot \in Slots /\ transfer_ring[job.port] \in Slots
        /\ job.index \in 0 .. NumConfigs
    BY <1>9, <1>t, <1>s DEF RequestConfiguration, KernelAt, JobType, InConf, StatusType
  <2>2. [req |-> Config(job.index), port |-> job.port] \in Requests
    BY <2>1, ContentsIn DEF Requests
  <2>3. tds' \in [Slots -> Seq(Requests)] /\ rung' \in [Slots -> BOOLEAN]
    BY <1>9, <1>t, <2>1, <2>2, WriteTransfer DEF RequestConfiguration
  <2>4. QueueType' /\ ControllerType' /\ StatusType'
    BY <1>9, <1>t, <1>s, <1>m, <2>3, StatusSame DEF RequestConfiguration, QueueType, ControllerType
  <2>5. JobType'
    BY <1>9, <1>t, <1>s, <2>1 DEF RequestConfiguration, KernelAt, JobType, InFs, InConf
  <2> QED BY <2>4, <2>5 DEF TypeInv
<1>10. CASE ReadConfigurationHeader
  <2>1. QueueType' /\ StatusType' /\ ControllerType'
    BY <1>10, <1>t, <1>s, <1>m, StatusSame, ControllerSame DEF ReadConfigurationHeader, QueueType
  <2>2. job.port \in Ports /\ buf[job.port] \in Contents
    BY <1>10, <1>t DEF ReadConfigurationHeader, KernelAt, JobType, InConf, StatusType
  <2>3. JobType'
    BY <1>10, <1>t, <1>s, <2>2 DEF ReadConfigurationHeader, KernelAt, JobType, InFs, InConf
  <2> QED BY <2>1, <2>3 DEF TypeInv
<1>11. CASE ParseConfiguration
  <2>1. /\ job.port \in Ports /\ job.slot \in Slots /\ transfer_ring[job.port] \in Slots
        /\ job.hdr \in Contents /\ job.index \in Nat /\ job.count \in Nat
        /\ job.count <= NumConfigs
    BY <1>11, <1>t DEF ParseConfiguration, KernelAt, JobType, InConf, StatusType
  <2>2. [setconf |-> job.hdr, index |-> job.index] \in Requests
    BY <2>1 DEF Requests
  <2>3. /\ tds' \in [Slots -> Seq(Requests)] /\ rung' \in [Slots -> BOOLEAN]
        /\ keyboard' \in Slots /\ cmd_ring' \in Seq([cmd : Commands, slot : Slots])
    <3>1. CASE UNCHANGED <<tds, rung, keyboard, cmd_ring>>
      BY <3>1, <1>t DEF StatusType, QueueType, ControllerType
    <3>2. CASE /\ QueueTransfer(transfer_ring[job.port], job.slot,
                                [setconf |-> job.hdr, index |-> job.index])
               /\ keyboard' = job.slot
               /\ cmd_ring' = Append(cmd_ring, Cmd("ConfigureEndpoint", job.slot))
      BY <3>2, <1>t, <1>c, <2>1, <2>2, WriteTransfer, WriteCommand
    <3> QED BY <1>11, <3>1, <3>2 DEF ParseConfiguration
  <2>4. QueueType' /\ ControllerType'
    BY <1>11, <1>t, <1>s, <2>3 DEF ParseConfiguration, QueueType, ControllerType
  <2>5. StatusType'
    BY <1>11, <1>t, <1>s, <1>m, <2>3 DEF ParseConfiguration, StatusType, DeviceStates
  <2>6. JobType'
    <3>1. CASE pc' = "loop" /\ job' = NoJob
      BY <3>1, <1>s, <1>n DEF JobType, InFs, InConf
    <3>2. CASE /\ job.index + 1 < job.count /\ pc' = "conf_req"
               /\ job' = [job EXCEPT !.index = @ + 1, !.hdr = Zeroes]
      <4>1. /\ job' \in [slot : Slots, port : Ports \cup {NoPort}, index : Nat, count : Nat,
                         hdr : Contents]
            /\ job'.port = job.port /\ job'.index = job.index + 1 /\ job'.count = job.count
        <5>1. /\ job \in [slot : Slots, port : Ports \cup {NoPort}, index : Nat, count : Nat,
                           hdr : Contents]
              /\ job' = [job EXCEPT !.index = job.index + 1, !.hdr = Zeroes]
              /\ job.index + 1 \in Nat
          BY <3>2, <1>t, <2>1 DEF JobType
        <5> QED BY ONLY <5>1, ContentsIn
      <4> QED BY <3>2, <4>1, <2>1, <1>s DEF JobType, InFs, InConf
    <3> QED BY <1>11, <3>1, <3>2 DEF ParseConfiguration
  <2> QED BY <2>4, <2>5, <2>6 DEF TypeInv
<1>12. CASE ReturnToMain
  <2>1. QueueType' /\ StatusType' /\ ControllerType'
    BY <1>12, <1>t, <1>s, <1>m, StatusSame, ControllerSame DEF ReturnToMain, QueueType
  <2>2. JobType'
    BY <1>12, <1>t, <1>s DEF ReturnToMain, JobType, InFs, InConf
  <2> QED BY <2>1, <2>2 DEF TypeInv
<1>13. CASE read_usb_keyboard
  <2>1. StatusType' /\ JobType'
    BY <1>13, <1>t, <1>m, StatusSame, JobSame DEF read_usb_keyboard
  <2>2. QueueType' /\ ControllerType'
    <3>1. CASE eventq = <<>>
      BY <1>13, <1>t, <1>s, <1>m, <3>1, ControllerSame DEF read_usb_keyboard, QueueType
    <3>2. CASE eventq # <<>>
      <4>1. /\ eventq' = Tail(eventq) /\ dropped' = dropped \cup {Head(eventq).type}
            /\ UNCHANGED <<cmd_ring, tds, buf, portsc, nslots, ep, rung, machine>>
        BY <1>13, <3>2 DEF read_usb_keyboard
      <4>2. Tail(eventq) \in Seq(Events)
            /\ Head(eventq).type \in {"Transfer", "Command", "PortStatusChange"}
        BY <1>t, <3>2, HeadFields
      <4>3. QueueType'
        BY <1>t, <1>s, <4>1, <4>2 DEF QueueType
      <4>4. ControllerType'
        BY <1>t, <1>s, <4>1, <4>2 DEF ControllerType
      <4> QED BY <4>3, <4>4
    <3> QED BY <3>1, <3>2
  <2> QED BY <2>1, <2>2 DEF TypeInv
<1> QED BY <1>1, <1>2, <1>3, <1>4, <1>5, <1>6, <1>7, <1>8, <1>9, <1>10, <1>11, <1>12, <1>13
       DEF Kernel

\* A completion posted by the controller.
LEMMA PostEvent ==
  ASSUME QueueType, NEW e \in Events, eventq' = Append(eventq, e)
  PROVE  /\ Len(eventq) + 1 \in DOMAIN eventq' /\ eventq'[Len(eventq) + 1] = e
         /\ \A i \in DOMAIN eventq :
              i < Len(eventq) + 1 /\ i \in DOMAIN eventq' /\ eventq'[i] = eventq[i]
         /\ \A i \in DOMAIN eventq' : i \in DOMAIN eventq \/ i = Len(eventq) + 1
         /\ DOMAIN eventq \subseteq Nat \ {0} /\ Len(eventq) \in Nat
         /\ Len(eventq) + 1 \notin DOMAIN eventq
<1>1. eventq \in Seq(Events)
  BY DEF QueueType
<1>2. Len(eventq) \in Nat /\ Len(eventq) + 1 \notin DOMAIN eventq
  BY <1>1
<1> QED BY <1>1, <1>2, AppendIndex

\* A command taken from the command ring.
LEMMA FetchCommand ==
  ASSUME QueueType, cmd_ring # <<>>, cmd_ring' = Tail(cmd_ring)
  PROVE  /\ 1 \in DOMAIN cmd_ring /\ Head(cmd_ring) = cmd_ring[1]
         /\ \A i \in DOMAIN cmd_ring' : i + 1 \in DOMAIN cmd_ring /\ cmd_ring'[i] = cmd_ring[i + 1]
         /\ \A i \in DOMAIN cmd_ring :
              i # 1 => i - 1 \in DOMAIN cmd_ring' /\ cmd_ring'[i - 1] = cmd_ring[i]
         /\ DOMAIN cmd_ring \subseteq Nat \ {0} /\ DOMAIN cmd_ring' \subseteq Nat \ {0}
<1> DEFINE C == [cmd : Commands, slot : Slots]
<1>1. cmd_ring \in Seq(C)
  BY DEF QueueType
<1> HIDE DEF C
<1> QED BY <1>1, TailIndex

\* The controller posts event e: a port's report, the end of a transfer, or
\* the completion of the next command.
Posts(e) ==
  \/ /\ e.type = "PortStatusChange" /\ UNCHANGED <<cmd_ring, nslots>>
     /\ \E p \in Ports : Attach(p) \/ Detach(p) \/ ResetDone(p)
  \/ e.type = "Transfer" /\ tds[e.slot] # <<>> /\ UNCHANGED <<cmd_ring, nslots>>
  \/ /\ e.type = "Command" /\ cmd_ring # <<>> /\ cmd_ring' = Tail(cmd_ring)
     /\ e.cmd = Head(cmd_ring).cmd
     /\ IF e.cmd = "EnableSlot"
        THEN \/ nslots < NumSlots /\ e.slot = nslots + 1 /\ nslots' = nslots + 1
             \/ ~(nslots < NumSlots) /\ e.slot = 0 /\ nslots' = nslots
        ELSE e.slot = Head(cmd_ring).slot /\ nslots' = nslots

\* What the controller adds to the event queue, and what it takes from the
\* command ring and from the transfer rings.
LEMMA ControllerQueues ==
  ASSUME TypeInv, Controller
  PROVE  /\ \/ UNCHANGED <<eventq, cmd_ring, nslots>>
            \/ \E e \in Events : eventq' = Append(eventq, e) /\ Posts(e)
         /\ \A r \in Slots : tds'[r] = tds[r] \/ (tds[r] # <<>> /\ tds'[r] = Tail(tds[r]))
<1> USE DEF statusVars, ctrlVars
<1>t. StatusType /\ QueueType /\ JobType /\ ControllerType
  BY DEF TypeInv
<1>s. 0 \in Slots /\ Slots \subseteq Nat /\ NumSlots \in Nat
  BY <1>t, Numbers DEF StatusType
<1> DEFINE Tds == \A r \in Slots : tds'[r] = tds[r] \/ (tds[r] # <<>> /\ tds'[r] = Tail(tds[r]))
           Evs == \E e \in Events : eventq' = Append(eventq, e) /\ Posts(e)
<1>1. ASSUME NEW p \in Ports, Attach(p) \/ Detach(p) \/ ResetDone(p)
      PROVE  (UNCHANGED <<eventq, cmd_ring, nslots>> \/ Evs) /\ Tds
  <2> DEFINE e == [type |-> "PortStatusChange", port |-> p]
  <2>1. e \in Events /\ e.type = "PortStatusChange"
    BY DEF Events
  <2>2. eventq' = eventq \/ eventq' = Append(eventq, e)
    BY <1>1 DEF Attach, Detach, ResetDone, PortEvent
  <2>3. UNCHANGED <<cmd_ring, nslots, tds>>
    BY <1>1 DEF Attach, Detach, ResetDone
  <2> HIDE DEF e
  <2>4. eventq' = eventq \/ Evs
    BY <1>1, <2>1, <2>2, <2>3 DEF Posts
  <2>5. Tds
    BY <2>3, Zenon
  <2> HIDE DEF Tds
  <2> QED BY <2>3, <2>4, <2>5
<1>2. ASSUME ExecEnableSlot PROVE Evs /\ Tds
  <2> DEFINE s == IF nslots < NumSlots THEN nslots + 1 ELSE 0
             e == [type |-> "Command", cmd |-> "EnableSlot", slot |-> s]
  <2>1. s \in Slots
    BY <1>t, <1>s DEF ControllerType, Slots
  <2>2. e \in Events /\ e.type = "Command" /\ e.cmd = "EnableSlot" /\ e.slot = s
    BY <2>1 DEF Events, Commands
  <2>3. eventq' = Append(eventq, e)
    BY <1>2 DEF ExecEnableSlot, Complete
  <2>4. \/ nslots < NumSlots /\ e.slot = nslots + 1 /\ nslots' = nslots + 1
        \/ ~(nslots < NumSlots) /\ e.slot = 0 /\ nslots' = nslots
    BY <1>2, <2>2 DEF ExecEnableSlot
  <2>5. cmd_ring # <<>> /\ cmd_ring' = Tail(cmd_ring) /\ tds' = tds /\ e.cmd = Head(cmd_ring).cmd
    BY <1>2, <2>2 DEF ExecEnableSlot
  <2> HIDE DEF e
  <2>6. Posts(e)
    BY <2>2, <2>4, <2>5 DEF Posts
  <2>7. Tds
    BY <2>5, Zenon
  <2> HIDE DEF Tds
  <2> QED BY <2>2, <2>3, <2>6, <2>7
<1>3. ASSUME ExecOther \/ \E ok \in BOOLEAN : ExecAddressDevice(ok)
      PROVE  Evs /\ Tds
  <2>1. /\ cmd_ring # <<>> /\ cmd_ring' = Tail(cmd_ring) /\ tds' = tds /\ nslots' = nslots
        /\ eventq' = Complete(Head(cmd_ring).cmd, Head(cmd_ring).slot)
        /\ Head(cmd_ring).cmd # "EnableSlot"
    BY <1>3 DEF ExecOther, ExecAddressDevice
  <2>2. Head(cmd_ring).cmd \in Commands /\ Head(cmd_ring).slot \in Slots
    BY <1>t, <2>1, CommandFields
  <2> DEFINE e == [type |-> "Command", cmd |-> Head(cmd_ring).cmd, slot |-> Head(cmd_ring).slot]
  <2>3. e \in Events /\ e.type = "Command" /\ e.cmd = Head(cmd_ring).cmd /\ e.slot = Head(cmd_ring).slot
    BY <2>2 DEF Events
  <2>4. eventq' = Append(eventq, e)
    BY <2>1 DEF Complete
  <2> HIDE DEF e
  <2>5. Posts(e)
    BY <2>1, <2>3 DEF Posts
  <2>6. Tds
    BY <2>1, Zenon
  <2> HIDE DEF Tds
  <2> QED BY <2>3, <2>4, <2>5, <2>6
<1>4. ASSUME NEW s \in Slots, ExecTransfer(s) \/ FailTransfer(s)
      PROVE  Evs /\ Tds
  <2>1. PICK ok \in BOOLEAN : eventq' = Append(eventq, [type |-> "Transfer", slot |-> s, ok |-> ok])
    BY <1>4 DEF ExecTransfer, FailTransfer
  <2> DEFINE e == [type |-> "Transfer", slot |-> s, ok |-> ok]
  <2>2. e \in Events /\ e.type = "Transfer" /\ e.slot = s /\ eventq' = Append(eventq, e)
    BY <2>1 DEF Events
  <2>3. UNCHANGED <<cmd_ring, nslots>> /\ tds[s] # <<>> /\ tds' = [tds EXCEPT ![s] = Tail(@)]
    BY <1>4 DEF ExecTransfer, FailTransfer, Runnable
  <2> HIDE DEF e
  <2>4. Posts(e)
    BY <2>2, <2>3 DEF Posts
  <2>5. ASSUME NEW r \in Slots PROVE tds'[r] = tds[r] \/ (tds[r] # <<>> /\ tds'[r] = Tail(tds[r]))
    <3>1. DOMAIN tds = Slots
      BY <1>t DEF QueueType
    <3>2. CASE r = s
      BY <2>3, <3>1, <3>2, Zenon
    <3>3. CASE r # s
      <4>1. tds'[r] = tds[r]
        BY <1>t, <2>3, <3>1, <3>3
      <4> QED BY <4>1, Zenon
    <3> QED BY <3>2, <3>3
  <2> QED BY <2>2, <2>4, <2>5
<1> HIDE DEF Evs, Tds
<1>5. (UNCHANGED <<eventq, cmd_ring, nslots>> \/ Evs) /\ Tds
  BY <1>1, <1>2, <1>3, <1>4 DEF Controller
<1> QED BY <1>5 DEF Evs, Tds

\* The controller's steps keep what belongs to the kernel.
LEMMA ControllerLeaves ==
  ASSUME Controller
  PROVE  UNCHANGED <<state, current_port, device_contexts, transfer_ring, keyboard,
                     pc, job, dropped, machine>>
  BY DEF Controller, Attach, Detach, ResetDone, ExecEnableSlot, ExecAddressDevice, ExecOther,
         ExecTransfer, FailTransfer, statusVars, ctrlVars

\* The controller does not touch what the driver knows of its ports.
LEMMA ControllerKeepsPorts ==
  ASSUME TypeInv, PortsKnown, Controller
  PROVE  PortsKnown'
<1>l. UNCHANGED <<state, current_port, device_contexts, transfer_ring, keyboard, pc, job, machine>>
  BY ControllerLeaves
<1>s. Ports' = Ports /\ Slots' = Slots
  BY <1>l, SameMachine
<1>t. QueueType
  BY DEF TypeInv
<1>1. RingsGiven' /\ HandlerGiven'
  BY <1>l, <1>s DEF PortsKnown, RingsGiven, HandlerGiven, Given, InFs, InConf
<1>2. CommandsGiven'
  <2>1. CASE cmd_ring' = cmd_ring
    BY <1>l, <1>s, <2>1 DEF PortsKnown, CommandsGiven, Given, Asked
  <2>2. CASE cmd_ring # <<>> /\ cmd_ring' = Tail(cmd_ring)
    <3>1. \A i \in DOMAIN cmd_ring' : i + 1 \in DOMAIN cmd_ring /\ cmd_ring'[i] = cmd_ring[i + 1]
      BY <1>t, <2>2, FetchCommand
    <3> QED BY <1>l, <1>s, <3>1 DEF PortsKnown, CommandsGiven, Given, Asked
  <2> QED BY <2>1, <2>2, ControllerQueues DEF Posts
<1>3. EventsGiven'
  <2>1. CASE eventq' = eventq
    BY <1>l, <1>s, <2>1 DEF PortsKnown, EventsGiven, Given, Done
  <2>2. ASSUME NEW e \in Events, eventq' = Append(eventq, e),
               e.type = "Transfer" \/ (e.type = "Command" /\ e.cmd = "AddressDevice") => Given(e.slot)
        PROVE  EventsGiven'
    <3>1. /\ \A i \in DOMAIN eventq' : i \in DOMAIN eventq \/ i = Len(eventq) + 1
          /\ eventq'[Len(eventq) + 1] = e
          /\ \A i \in DOMAIN eventq : eventq'[i] = eventq[i]
      BY <1>t, <2>2, PostEvent
    <3> QED BY <1>l, <1>s, <2>2, <3>1 DEF PortsKnown, EventsGiven, Given, Done
  <2>3. \A e \in Events : e.type = "Transfer" => e.slot \in Slots
    BY EventFields
  <2>4. cmd_ring # <<>> => 1 \in DOMAIN cmd_ring /\ Head(cmd_ring) = cmd_ring[1]
    BY <1>t, CommandFields
  <2>5. ASSUME NEW e \in Events, Posts(e)
        PROVE  e.type = "Transfer" \/ (e.type = "Command" /\ e.cmd = "AddressDevice") => Given(e.slot)
    BY <2>3, <2>4, <2>5 DEF Posts, PortsKnown, TransfersGiven, CommandsGiven, Asked
  <2> QED BY <2>1, <2>2, <2>5, ControllerQueues
<1>4. TransfersGiven'
  BY <1>l, <1>s, ControllerQueues DEF PortsKnown, TransfersGiven, Given
<1> QED BY <1>1, <1>2, <1>3, <1>4 DEF PortsKnown

\* The kernel takes events from the queue one by one and adds none.
LEMMA KernelEvents ==
  ASSUME TypeInv, Kernel
  PROVE  \/ eventq' = eventq
         \/ /\ eventq # <<>> /\ eventq' = Tail(eventq)
            /\ 1 \in DOMAIN eventq /\ Head(eventq) = eventq[1]
            /\ \A i \in DOMAIN eventq' : i + 1 \in DOMAIN eventq /\ eventq'[i] = eventq[i + 1]
            /\ \A i \in DOMAIN eventq :
                 i # 1 => i - 1 \in DOMAIN eventq' /\ eventq'[i - 1] = eventq[i]
            /\ DOMAIN eventq \subseteq Nat \ {0} /\ DOMAIN eventq' \subseteq Nat \ {0}
<1>1. eventq' = eventq \/ (eventq # <<>> /\ eventq' = Tail(eventq))
  BY DEF Kernel, OnPortEnabled, OnPortDisabled, OnEnableSlot, RequestMaxPacketSize,
         ReadMaxPacketSize, OnAddressDevice, OnOtherCommand, OnDescriptor, OnOtherTransfer,
         RequestConfiguration, ReadConfigurationHeader, ParseConfiguration, ReturnToMain,
         read_usb_keyboard, Take
<1>2. eventq \in Seq(Events)
  BY DEF TypeInv, QueueType
<1>3. CASE eventq # <<>> /\ eventq' = Tail(eventq)
  BY <1>2, <1>3, TailIndex
<1> QED BY <1>1, <1>3

\* A handler's port and slot are the ones its event named.
LEMMA KernelKeepsPorts ==
  ASSUME TypeInv, PortsKnown, Kernel
  PROVE  PortsKnown'
<1> USE DEF statusVars, ctrlVars
<1>m. machine' = machine
  BY MachineStays DEF Next
<1>s. Ports' = Ports /\ Slots' = Slots /\ 0 \in Slots
  BY <1>m, SameMachine, Numbers DEF TypeInv, StatusType
<1>t. StatusType /\ QueueType /\ JobType /\ ControllerType
  BY DEF TypeInv
<1>c. /\ "EnableSlot" \in Commands /\ "AddressDevice" \in Commands
      /\ "EvaluateContext" \in Commands /\ "ConfigureEndpoint" \in Commands
  BY DEF Commands
<1>e. ASSUME \A s \in Slots : Given(s) => Given(s)' PROVE EventsGiven'
  <2>1. \A i \in DOMAIN eventq : eventq[i].type = "Transfer" \/ eventq[i].type = "Command"
          => eventq[i].slot \in Slots
    <3>1. \A i \in DOMAIN eventq : eventq[i] \in Events
      BY <1>t DEF QueueType
    <3> QED BY <3>1, EventFields
  <2> QED BY <1>e, <2>1, KernelEvents DEF PortsKnown, EventsGiven, Done, Given
<1>w. ASSUME device_contexts' = device_contexts, cmd_ring' = cmd_ring PROVE CommandsGiven'
  BY <1>w, <1>s DEF PortsKnown, CommandsGiven, Asked, Given
<1>x. ASSUME device_contexts' = device_contexts, NEW c \in Commands \ {"AddressDevice"},
             NEW s \in Slots, cmd_ring' = Append(cmd_ring, Cmd(c, s))
      PROVE CommandsGiven'
  <2>1. /\ cmd_ring'[Len(cmd_ring) + 1].cmd = c
        /\ \A i \in DOMAIN cmd_ring : cmd_ring'[i] = cmd_ring[i]
        /\ \A i \in DOMAIN cmd_ring' : i \in DOMAIN cmd_ring \/ i = Len(cmd_ring) + 1
    BY ONLY <1>t, <1>x, WriteCommand
  <2> QED BY <1>x, <1>s, <2>1 DEF PortsKnown, CommandsGiven, Asked, Given
<1>g. ASSUME device_contexts' = device_contexts PROVE \A s \in Slots : Given(s) <=> Given(s)'
  BY <1>g, <1>s DEF Given
<1>r. ASSUME UNCHANGED <<device_contexts, transfer_ring>> PROVE RingsGiven'
  BY <1>r, <1>s DEF PortsKnown, RingsGiven, Given
<1>d. ASSUME UNCHANGED <<device_contexts, tds>> PROVE TransfersGiven'
  BY <1>d, <1>s DEF PortsKnown, TransfersGiven, Given
<1>q. ASSUME device_contexts' = device_contexts, NEW ring \in Slots, NEW s \in Slots,
             NEW td \in Requests, Given(ring), QueueTransfer(ring, s, td)
      PROVE TransfersGiven'
  <2>1. \A t \in Slots : t # ring => tds'[t] = tds[t]
    BY <1>t, <1>q, WriteTransfer
  <2> QED BY <1>q, <1>s, <2>1 DEF PortsKnown, TransfersGiven, Given
<1>h. ASSUME UNCHANGED <<device_contexts, transfer_ring>>,
             (InFs \/ InConf)' => (InFs \/ InConf) /\ job'.port = job.port
      PROVE HandlerGiven'
  BY <1>h, <1>s DEF PortsKnown, HandlerGiven, Given
<1>1. CASE OnPortEnabled
  <2>1. UNCHANGED <<device_contexts, transfer_ring, tds, pc, job>>
        /\ cmd_ring' = Append(cmd_ring, Cmd("EnableSlot", 0))
    BY <1>1 DEF OnPortEnabled
  <2>2. CommandsGiven'
    BY <1>x, <1>c, <1>s, <2>1
  <2> QED BY <1>e, <1>g, <1>r, <1>d, <1>h, <2>1, <2>2 DEF PortsKnown, InFs, InConf
<1>2. CASE OnPortDisabled \/ OnOtherCommand \/ OnOtherTransfer \/ read_usb_keyboard
  <2>1. UNCHANGED <<device_contexts, transfer_ring, tds, pc, job, cmd_ring>>
    BY <1>2 DEF OnPortDisabled, OnOtherCommand, OnOtherTransfer, read_usb_keyboard
  <2> QED BY <1>e, <1>g, <1>r, <1>d, <1>h, <1>w, <2>1 DEF PortsKnown, InFs, InConf
<1>3. CASE OnEnableSlot
  <2> DEFINE s == Head(eventq).slot
             port_id == IF device_contexts[s] \in Ports THEN device_contexts[s] ELSE current_port
  <2>1. s \in Slots /\ current_port \in Ports /\ pc = "loop"
    BY <1>3, <1>t, TakeFacts DEF OnEnableSlot, Serving, StatusType
  <2>2. /\ device_contexts' = [device_contexts EXCEPT ![s] = current_port]
        /\ transfer_ring' = [transfer_ring EXCEPT ![current_port] = s]
        /\ tds' = [tds EXCEPT ![s] = <<>>]
        /\ cmd_ring' = Append(cmd_ring, Cmd("AddressDevice", s))
        /\ job' = [NoJob EXCEPT !.slot = s, !.port = port_id] \/ pc' = pc
    BY <1>3 DEF OnEnableSlot
  <2> HIDE DEF s
  <2>3. /\ \A t \in Slots : Given(t) => Given(t)'
        /\ device_contexts'[s] = current_port
        /\ \A t \in Slots : t # s => device_contexts'[t] = device_contexts[t]
    BY <1>t, <1>s, <2>1, <2>2 DEF StatusType, Given
  <2>4. /\ transfer_ring'[current_port] = s
        /\ \A p \in Ports : transfer_ring[p] \in Slots
        /\ \A p \in Ports : p # current_port => transfer_ring'[p] = transfer_ring[p]
    BY <1>t, <2>1, <2>2 DEF StatusType
  <2>5. EventsGiven'
    BY <1>e, <2>3
  <2>6. RingsGiven'
    BY <1>s, <2>1, <2>3, <2>4 DEF PortsKnown, RingsGiven, Given
  <2>7. CommandsGiven'
    <3>1. /\ cmd_ring'[Len(cmd_ring) + 1].slot = s
          /\ \A i \in DOMAIN cmd_ring : cmd_ring'[i] = cmd_ring[i]
          /\ \A i \in DOMAIN cmd_ring' : i \in DOMAIN cmd_ring \/ i = Len(cmd_ring) + 1
      BY <1>t, <1>c, <2>1, <2>2, WriteCommand
    <3>2. \A i \in DOMAIN cmd_ring : cmd_ring[i].slot \in Slots
      BY <1>t, CommandSlots
    <3> QED BY <1>s, <2>1, <2>3, <3>1, <3>2 DEF PortsKnown, CommandsGiven, Asked, Given
  <2>8. TransfersGiven'
    <3>1. tds'[s] = <<>> /\ \A t \in Slots : t # s => tds'[t] = tds[t]
      BY <1>t, <2>1, <2>2 DEF QueueType
    <3> QED BY <1>s, <2>3, <3>1 DEF PortsKnown, TransfersGiven
  <2>9. HandlerGiven'
    <3>1. CASE pc' = pc
      BY <2>1, <3>1 DEF HandlerGiven, InFs, InConf
    <3>2. CASE job' = [NoJob EXCEPT !.slot = s, !.port = port_id]
      <4>1. job'.port = port_id
        BY <3>2 DEF NoJob
      <4>2. port_id = current_port \/ (Given(s) /\ port_id = device_contexts[s])
        BY DEF Given
      <4>3. CASE port_id = current_port
        BY <4>1, <4>3, <1>s, <2>1, <2>3, <2>4 DEF HandlerGiven, Given
      <4>4. CASE port_id # current_port /\ Given(s) /\ port_id = device_contexts[s]
        <5>1. port_id \in Ports /\ Given(transfer_ring[port_id])
          BY <4>4, <2>1 DEF Given, PortsKnown, RingsGiven
        <5>2. transfer_ring'[port_id] = transfer_ring[port_id] /\ transfer_ring[port_id] \in Slots
          BY <4>4, <2>4, <5>1
        <5> QED BY <4>1, <5>1, <5>2, <1>s, <2>3 DEF HandlerGiven, Given
      <4> QED BY <4>2, <4>3, <4>4
    <3> QED BY <2>2, <3>1, <3>2
  <2> QED BY <2>5, <2>6, <2>7, <2>8, <2>9 DEF PortsKnown
<1>4. CASE RequestMaxPacketSize
  <2>1. /\ job.port \in Ports /\ job.slot \in Slots /\ transfer_ring[job.port] \in Slots
        /\ Given(transfer_ring[job.port]) /\ InFs
    BY <1>4, <1>t DEF RequestMaxPacketSize, KernelAt, JobType, InFs, StatusType, PortsKnown,
                     HandlerGiven
  <2>2. [req |-> Device8, port |-> job.port] \in Requests
    BY <2>1, ContentsIn DEF Requests
  <2>3. /\ UNCHANGED <<device_contexts, transfer_ring, job, cmd_ring>>
        /\ QueueTransfer(transfer_ring[job.port], job.slot, [req |-> Device8, port |-> job.port])
    BY <1>4 DEF RequestMaxPacketSize
  <2>4. TransfersGiven'
    BY <1>q, <2>1, <2>2, <2>3
  <2> QED BY <1>e, <1>g, <1>r, <1>w, <1>h, <2>1, <2>3, <2>4 DEF PortsKnown
<1>5. CASE ReadMaxPacketSize
  <2>1. /\ UNCHANGED <<device_contexts, transfer_ring, tds>> /\ pc' = "loop"
        /\ cmd_ring' = cmd_ring \/ cmd_ring' = Append(cmd_ring, Cmd("EvaluateContext", job.slot))
        /\ job.slot \in Slots
    BY <1>5, <1>t DEF ReadMaxPacketSize, JobType
  <2>2. CommandsGiven'
    BY <1>x, <1>w, <1>c, <2>1
  <2>3. HandlerGiven'
    BY <2>1 DEF HandlerGiven, InFs, InConf
  <2> QED BY <1>e, <1>g, <1>r, <1>d, <2>1, <2>2, <2>3 DEF PortsKnown
<1>6. CASE OnAddressDevice
  <2> DEFINE s == Head(eventq).slot
             td == [req |-> Device, port |-> current_port]
  <2>1. /\ s \in Slots /\ current_port \in Ports
        /\ Done(1, "AddressDevice") /\ 1 \in DOMAIN eventq /\ s = eventq[1].slot
    BY <1>6, <1>t, TakeFacts DEF OnAddressDevice, Serving, StatusType, Done
  <2>2. Given(s) /\ device_contexts[s] \in Ports
    BY <2>1 DEF PortsKnown, EventsGiven, Given
  <2>3. transfer_ring[device_contexts[s]] \in Slots /\ Given(transfer_ring[device_contexts[s]])
    BY <2>1, <2>2, <1>t DEF StatusType, PortsKnown, RingsGiven
  <2>4. td \in Requests
    BY <2>1, ContentsIn DEF Requests
  <2>5. /\ QueueTransfer(transfer_ring[device_contexts[s]], s, td)
        /\ UNCHANGED <<device_contexts, transfer_ring, pc, job>>
        /\ cmd_ring' = cmd_ring \/ cmd_ring' = Append(cmd_ring, Cmd("EnableSlot", 0))
    BY <1>6 DEF OnAddressDevice, DescriptorBuffer, AskSlotFor
  <2> HIDE DEF s, td
  <2>6. TransfersGiven'
    BY <1>q, <2>1, <2>3, <2>4, <2>5
  <2>7. CommandsGiven'
    BY <1>x, <1>w, <1>c, <1>s, <2>5
  <2> QED BY <1>e, <1>g, <1>r, <1>h, <2>5, <2>6, <2>7 DEF PortsKnown, InFs, InConf
<1>7. CASE OnDescriptor
  <2> DEFINE s == Head(eventq).slot
             p == device_contexts[s]
  <2>1. s \in Slots /\ 1 \in DOMAIN eventq /\ eventq[1].type = "Transfer" /\ s = eventq[1].slot
    BY <1>7, <1>t, TakeFacts DEF OnDescriptor
  <2>2. Given(transfer_ring[p])
    BY <2>1 DEF PortsKnown, EventsGiven, RingsGiven
  <2>3. /\ UNCHANGED <<device_contexts, transfer_ring, tds, cmd_ring>>
        /\ job' = [NoJob EXCEPT !.slot = s, !.port = p, !.count = num_configs(p)]
           \/ UNCHANGED <<pc, job>>
    BY <1>7 DEF OnDescriptor
  <2> HIDE DEF s
  <2>4. HandlerGiven'
    <3>1. CASE UNCHANGED <<pc, job>>
      BY <1>h, <2>3, <3>1 DEF InFs, InConf
    <3>2. CASE job' = [NoJob EXCEPT !.slot = s, !.port = p, !.count = num_configs(p)]
      <4>1. job'.port = p
        BY <3>2 DEF NoJob
      <4> QED BY <4>1, <1>s, <2>2, <2>3 DEF HandlerGiven, Given
    <3> QED BY <2>3, <3>1, <3>2
  <2> QED BY <1>e, <1>g, <1>r, <1>d, <1>w, <2>3, <2>4 DEF PortsKnown
<1>8. CASE RequestConfiguration
  <2>1. /\ job.port \in Ports /\ job.slot \in Slots /\ transfer_ring[job.port] \in Slots
        /\ job.index \in 0 .. NumConfigs /\ Given(transfer_ring[job.port]) /\ InConf
    BY <1>8, <1>t, ModeAssumption
       DEF RequestConfiguration, KernelAt, JobType, InConf, StatusType, PortsKnown, HandlerGiven
  <2>2. [req |-> Config(job.index), port |-> job.port] \in Requests
    BY <2>1, ContentsIn DEF Requests
  <2>3. /\ UNCHANGED <<device_contexts, transfer_ring, job, cmd_ring>>
        /\ QueueTransfer(transfer_ring[job.port], job.slot,
                         [req |-> Config(job.index), port |-> job.port])
    BY <1>8 DEF RequestConfiguration
  <2>4. TransfersGiven'
    BY <1>q, <2>1, <2>2, <2>3
  <2> QED BY <1>e, <1>g, <1>r, <1>w, <1>h, <2>1, <2>3, <2>4 DEF PortsKnown
<1>9. CASE ReadConfigurationHeader
  <2>1. /\ UNCHANGED <<device_contexts, transfer_ring, tds, cmd_ring>> /\ InConf
        /\ job'.port = job.port
    BY <1>9, <1>t DEF ReadConfigurationHeader, KernelAt, InConf, JobType
  <2> QED BY <1>e, <1>g, <1>r, <1>d, <1>w, <1>h, <2>1 DEF PortsKnown
<1>10. CASE ParseConfiguration
  <2>1. /\ job.port \in Ports /\ job.slot \in Slots /\ transfer_ring[job.port] \in Slots
        /\ job.hdr \in Contents /\ job.index \in Nat
        /\ Given(transfer_ring[job.port]) /\ InConf
    BY <1>10, <1>t
       DEF ParseConfiguration, KernelAt, JobType, InConf, StatusType, PortsKnown, HandlerGiven
  <2>2. [setconf |-> job.hdr, index |-> job.index] \in Requests
    BY <2>1 DEF Requests
  <2>3. /\ UNCHANGED <<device_contexts, transfer_ring>>
        /\ \/ UNCHANGED <<tds, cmd_ring>>
           \/ /\ QueueTransfer(transfer_ring[job.port], job.slot,
                               [setconf |-> job.hdr, index |-> job.index])
              /\ cmd_ring' = Append(cmd_ring, Cmd("ConfigureEndpoint", job.slot))
        /\ pc' = "loop" \/ job' = [job EXCEPT !.index = @ + 1, !.hdr = Zeroes]
    BY <1>10 DEF ParseConfiguration
  <2>4. TransfersGiven'
    BY <1>q, <1>d, <2>1, <2>2, <2>3
  <2>5. CommandsGiven'
    BY <1>w, <1>x, <1>c, <2>1, <2>3
  <2>6. (InFs \/ InConf)' => job'.port = job.port
    BY <1>t, <2>3 DEF InFs, InConf, JobType
  <2> QED BY <1>e, <1>g, <1>r, <1>h, <2>1, <2>3, <2>4, <2>5, <2>6 DEF PortsKnown
<1>11. CASE ReturnToMain
  <2>1. UNCHANGED <<device_contexts, transfer_ring, tds, cmd_ring>> /\ ~(InFs \/ InConf)'
    BY <1>11 DEF ReturnToMain, InFs, InConf
  <2> QED BY <1>e, <1>g, <1>r, <1>d, <1>w, <1>h, <2>1 DEF PortsKnown
<1> QED BY <1>1, <1>2, <1>3, <1>4, <1>5, <1>6, <1>7, <1>8, <1>9, <1>10, <1>11 DEF Kernel

\* Steps that change nothing.
LEMMA StutterTypes ==
  ASSUME TypeInv, PortsKnown, UNCHANGED vars
  PROVE  TypeInv' /\ PortsKnown'
<1>1. machine' = machine
  BY DEF vars
<1>2. Ports' = Ports /\ Slots' = Slots /\ Requests' = Requests /\ Events' = Events
  BY <1>1, SameMachine
<1>3. TypeInv'
  BY <1>2, StatusSame, JobSame, ControllerSame DEF TypeInv, QueueType, vars
<1>4. PortsKnown'
  BY <1>2 DEF vars, PortsKnown, RingsGiven, CommandsGiven, EventsGiven, TransfersGiven,
              HandlerGiven, Given, Done, Asked, InFs, InConf
<1> QED BY <1>3, <1>4

\* usb_process_events and its handlers keep every table, queue and local in
\* its type, and find a port for every slot they look one up for: what they
\* index device_status with is a port's number.
THEOREM KnownHolds == Spec => [](TypeInv /\ PortsKnown)
<1>1. TypeInv /\ PortsKnown /\ [Next]_vars => (TypeInv /\ PortsKnown)'
  BY ControllerKeepsTypes, ControllerKeepsPorts, KernelKeepsTypes, KernelKeepsPorts, StutterTypes
     DEF Next
<1> QED BY InitType, <1>1, PTL DEF Spec

\* The types are correct: UsbEnum's TypeOK.
THEOREM TypeCorrect == Spec => []TypeOK
<1>1. TypeInv /\ PortsKnown => TypeOK
  BY TypeInvOK
<1> QED BY KnownHolds, <1>1, PTL

----------------------------------------------------------------------------
\* Event i is a Port Status Change Event of port p.
Reports(i, p) == eventq[i].type = "PortStatusChange" /\ eventq[i].port = p

\* A port that was never pulled out is connected, reset (if it is no USB 3
\* port) and enabled in this order, reports each change once, and leaves
\* RESET with the report that it is enabled.
PortOrder(p) ==
  /\ ~portsc[p].ccs => /\ ~portsc[p].csc /\ ~portsc[p].ped
                       /\ ~portsc[p].resetting /\ state[p] = "RESET"
  /\ portsc[p].prc => portsc[p].ped
  /\ portsc[p].resetting => ~portsc[p].csc /\ ~portsc[p].ped
  /\ state[p] # "RESET" => portsc[p].ped
  /\ \A i \in DOMAIN eventq : Reports(i, p) =>
       /\ portsc[p].csc \/ portsc[p].prc
       /\ state[p] = "RESET"
       /\ \A j \in DOMAIN eventq : Reports(j, p) => i = j

PortsInOrder == \A p \in Ports : ~portsc[p].pulled => PortOrder(p)

\* A handler that is cut works for the port it says.
HandlerPort ==
  /\ InFs => current_port # None /\ state[current_port] = "ENABLE_SLOT"
  /\ InConf => state[job.port] \in {"GET_DESCRIPTOR", "END_OF_INITIALIZE"}

TurnInv == PortsInOrder /\ OneAtATime /\ HandlerPort

\* No step but Attach, Detach and ResetDone adds a report: the reports in the
\* queue after it are reports that were there, in the same order.
NoNewReport ==
  \E d \in {0, 1} : \A i \in DOMAIN eventq' :
    eventq'[i].type = "PortStatusChange" => i + d \in DOMAIN eventq /\ eventq'[i] = eventq[i + d]

\* Ports stay in order when a step adds no report, changes no port register,
\* and moves no port out of or into RESET.
LEMMA OrderKept ==
  ASSUME TypeInv, TypeInv', PortsInOrder, machine' = machine, portsc' = portsc, NoNewReport,
         \A p \in Ports : state'[p] = state[p] \/ (state[p] # "RESET" /\ state'[p] # "RESET")
  PROVE  PortsInOrder'
<1>1. Ports' = Ports
  BY SameMachine
<1>2. DOMAIN eventq' \subseteq Nat /\ DOMAIN eventq \subseteq Nat
  BY DEF TypeInv, QueueType
<1>3. PICK d \in {0, 1} : \A i \in DOMAIN eventq' :
        eventq'[i].type = "PortStatusChange" => i + d \in DOMAIN eventq /\ eventq'[i] = eventq[i + d]
  BY DEF NoNewReport
<1>4. SUFFICES ASSUME NEW p \in Ports, ~portsc[p].pulled PROVE PortOrder(p)'
  BY <1>1 DEF PortsInOrder
<1>5. PortOrder(p)
  BY <1>4 DEF PortsInOrder
<1>6. ASSUME NEW i \in DOMAIN eventq', Reports(i, p)' PROVE i + d \in DOMAIN eventq /\ Reports(i + d, p)
  BY <1>3, <1>6 DEF Reports
<1>7. ASSUME NEW i \in DOMAIN eventq', Reports(i, p)'
      PROVE  /\ portsc'[p].csc \/ portsc'[p].prc
             /\ state'[p] = "RESET"
             /\ \A j \in DOMAIN eventq' : Reports(j, p)' => i = j
  <2>1. i + d \in DOMAIN eventq /\ Reports(i + d, p) /\ i \in Nat
    BY <1>2, <1>6, <1>7
  <2>2. portsc[p].csc \/ portsc[p].prc
    BY <1>5, <2>1 DEF PortOrder
  <2>3. state'[p] = "RESET"
    BY <1>5, <2>1 DEF PortOrder
  <2>4. ASSUME NEW j \in DOMAIN eventq', Reports(j, p)' PROVE i = j
    <3>1. j + d \in DOMAIN eventq /\ Reports(j + d, p) /\ j \in Nat
      BY <1>2, <1>6, <2>4
    <3>2. i + d = j + d
      BY <1>5, <2>1, <3>1 DEF PortOrder
    <3> QED BY <1>3, <2>1, <3>1, <3>2
  <2> QED BY <2>2, <2>3, <2>4
<1> QED BY <1>5, <1>7 DEF PortOrder

\* How a port that was never pulled out may move on in one step.
Forward(a, b) ==
  \/ a = b
  \/ a = "RESET" /\ b \in {"WAIT_ENABLE_SLOT", "ENABLE_SLOT"}
  \/ a = "WAIT_ENABLE_SLOT" /\ b = "ENABLE_SLOT"
  \/ a = "ENABLE_SLOT" /\ b = "ADDRESS_DEVICE"
  \/ a = "ADDRESS_DEVICE" /\ b = "GET_DESCRIPTOR"
  \/ a \in {"GET_DESCRIPTOR", "END_OF_INITIALIZE"} /\ b = "END_OF_INITIALIZE"

MovesForward == \A p \in Ports : ~portsc[p].pulled => Forward(state[p], state'[p])

\* No port has its turn yet.
LEMMA InitTurn == Init => TurnInv
  BY Numbers DEF Init, TurnInv, PortsInOrder, PortOrder, Reports, OneAtATime, HandlerPort,
                 InFs, InConf

\* The controller's steps: a port's report is made when it changes.
LEMMA ControllerTurn ==
  ASSUME TypeInv, TypeInv', TurnInv, Controller
  PROVE  TurnInv' /\ MovesForward /\ (portsc' = portsc => NoNewReport)
         /\ \A p \in Ports : portsc[p].pulled => portsc'[p].pulled
<1> USE DEF statusVars, ctrlVars
<1>l. UNCHANGED <<state, current_port, device_contexts, transfer_ring, keyboard, pc, job, machine>>
  BY ControllerLeaves
<1>s. Ports' = Ports /\ Slots' = Slots
  BY <1>l, SameMachine
<1>t. QueueType /\ ControllerType /\ QueueType'
  BY DEF TypeInv
<1>n. DOMAIN eventq \subseteq Nat
  BY <1>t DEF QueueType
<1>f. MovesForward
  BY <1>l DEF MovesForward, Forward
<1>o. PortsInOrder /\ OneAtATime /\ HandlerPort
  BY DEF TurnInv
<1>h. HandlerPort'
  BY <1>l, <1>o DEF HandlerPort, InFs, InConf
<1>a. ASSUME \A p \in Ports : portsc[p].pulled => portsc'[p].pulled PROVE OneAtATime'
  BY <1>l, <1>s, <1>o, <1>a DEF OneAtATime
\* The step changes the register of port p and nothing of the other ports.
<1>p. ASSUME NEW p \in Ports, \A q \in Ports : q # p => portsc'[q] = portsc[q],
             PortOrder(p)' \/ portsc'[p].pulled, portsc[p].pulled => portsc'[p].pulled,
             \/ eventq' = eventq
             \/ eventq' = Append(eventq, [type |-> "PortStatusChange", port |-> p])
      PROVE  PortsInOrder'
  <2> DEFINE e == [type |-> "PortStatusChange", port |-> p]
  <2>2. e \in Events /\ e.port = p
    BY DEF Events
  <2> HIDE DEF e
  <2>3. ASSUME NEW q \in Ports, q # p, NEW i \in DOMAIN eventq', Reports(i, q)'
        PROVE  i \in DOMAIN eventq /\ Reports(i, q)
    <3>1. CASE eventq' = eventq
      BY <2>3, <3>1 DEF Reports
    <3>2. CASE eventq' = Append(eventq, e)
      <4>1. /\ \A j \in DOMAIN eventq' : j \in DOMAIN eventq \/ j = Len(eventq) + 1
            /\ eventq'[Len(eventq) + 1] = e
            /\ \A j \in DOMAIN eventq : eventq'[j] = eventq[j]
        BY <1>t, <2>2, <3>2, PostEvent
      <4> QED BY <2>2, <2>3, <4>1 DEF Reports
    <3> QED BY <1>p, <3>1, <3>2 DEF e
  <2>4. ASSUME NEW q \in Ports, q # p, ~portsc[q].pulled PROVE PortOrder(q)'
    <3>1. PortOrder(q)
      BY <1>o, <2>4 DEF PortsInOrder
    <3>2. portsc'[q] = portsc[q]
      BY <1>p, <2>4
    <3> QED BY <1>l, <2>3, <2>4, <3>1, <3>2 DEF PortOrder
  <2> QED BY <1>s, <1>p, <2>4 DEF PortsInOrder
\* A report of p is added, and there was none.
<1>q. ASSUME NEW p \in Ports, \A i \in DOMAIN eventq : ~Reports(i, p),
             eventq' = Append(eventq, [type |-> "PortStatusChange", port |-> p]),
             state[p] = "RESET", portsc'[p].csc \/ portsc'[p].prc
      PROVE  \A i \in DOMAIN eventq' : Reports(i, p)' =>
               /\ portsc'[p].csc \/ portsc'[p].prc
               /\ state'[p] = "RESET"
               /\ \A j \in DOMAIN eventq' : Reports(j, p)' => i = j
  <2> DEFINE e == [type |-> "PortStatusChange", port |-> p]
  <2>1. e \in Events /\ eventq' = Append(eventq, e)
    BY <1>q DEF Events
  <2> HIDE DEF e
  <2>2. /\ \A j \in DOMAIN eventq' : j \in DOMAIN eventq \/ j = Len(eventq) + 1
        /\ \A j \in DOMAIN eventq : eventq'[j] = eventq[j]
    BY <1>t, <2>1, PostEvent
  <2>3. \A i \in DOMAIN eventq' : Reports(i, p)' => i = Len(eventq) + 1
    BY <1>q, <2>2 DEF Reports
  <2> QED BY <1>l, <1>q, <2>3
<1>1. ASSUME NEW p \in Ports, Attach(p) PROVE TurnInv' /\ portsc' # portsc
                                             /\ \A q \in Ports : portsc[q].pulled => portsc'[q].pulled
  <2>1. portsc[p] \in PortRegister /\ portsc \in [Ports -> PortRegister]
    BY <1>t DEF ControllerType
  <2>2. /\ \A q \in Ports : q # p => portsc'[q] = portsc[q]
        /\ portsc'[p].ccs /\ portsc'[p].csc /\ ~portsc[p].ccs
        /\ portsc'[p].prc = portsc[p].prc /\ portsc'[p].resetting = portsc[p].resetting
        /\ portsc'[p].pulled = portsc[p].pulled
    BY <1>1, <2>1 DEF Attach, PortRegister
  <2>3. ASSUME ~portsc[p].pulled PROVE PortOrder(p)'
    <3>1. PortOrder(p)
      BY <1>o, <2>3 DEF PortsInOrder
    <3>2. ~portsc[p].csc /\ ~portsc[p].prc /\ ~portsc[p].resetting /\ state[p] = "RESET"
      BY <2>2, <3>1 DEF PortOrder
    <3>3. \A i \in DOMAIN eventq : ~Reports(i, p)
      BY <3>1, <3>2 DEF PortOrder
    <3>4. eventq' = Append(eventq, [type |-> "PortStatusChange", port |-> p])
      BY <1>1, <3>2 DEF Attach, PortEvent
    <3> QED BY <1>l, <1>q, <2>2, <3>2, <3>3, <3>4 DEF PortOrder
  <2>4. PortsInOrder'
    BY <1>1, <1>p, <2>2, <2>3 DEF Attach, PortEvent
  <2> QED BY <1>a, <1>h, <2>2, <2>4 DEF TurnInv
<1>2. ASSUME NEW p \in Ports, Detach(p) PROVE TurnInv' /\ portsc' # portsc
                                             /\ \A q \in Ports : portsc[q].pulled => portsc'[q].pulled
  <2>1. portsc[p] \in PortRegister /\ portsc \in [Ports -> PortRegister]
    BY <1>t DEF ControllerType
  <2>2. /\ \A q \in Ports : q # p => portsc'[q] = portsc[q]
        /\ portsc'[p].pulled /\ ~portsc[p].pulled
        /\ eventq' = Append(eventq, [type |-> "PortStatusChange", port |-> p])
    BY <1>2, <2>1 DEF Detach
  <2>3. PortsInOrder'
    BY <1>p, <2>2
  <2> QED BY <1>a, <1>h, <2>2, <2>3 DEF TurnInv
<1>3. ASSUME NEW p \in Ports, ResetDone(p) PROVE TurnInv' /\ portsc' # portsc
                                             /\ \A q \in Ports : portsc[q].pulled => portsc'[q].pulled
  <2>1. portsc[p] \in PortRegister /\ portsc \in [Ports -> PortRegister]
    BY <1>t DEF ControllerType
  <2>2. /\ \A q \in Ports : q # p => portsc'[q] = portsc[q]
        /\ portsc[p].resetting /\ ~portsc'[p].resetting /\ portsc'[p].ped /\ portsc'[p].prc
        /\ portsc'[p].ccs = portsc[p].ccs /\ portsc'[p].csc = portsc[p].csc
        /\ portsc'[p].pulled = portsc[p].pulled
    BY <1>3, <2>1 DEF ResetDone, PortRegister
  <2>3. ASSUME ~portsc[p].pulled PROVE PortOrder(p)'
    <3>1. PortOrder(p)
      BY <1>o, <2>3 DEF PortsInOrder
    <3>2. ~portsc[p].csc /\ ~portsc[p].prc /\ portsc[p].ccs /\ state[p] = "RESET"
      BY <2>2, <3>1 DEF PortOrder
    <3>3. \A i \in DOMAIN eventq : ~Reports(i, p)
      BY <3>1, <3>2 DEF PortOrder
    <3>4. eventq' = Append(eventq, [type |-> "PortStatusChange", port |-> p])
      BY <1>3, <3>2 DEF ResetDone, PortEvent
    <3> QED BY <1>l, <1>q, <2>2, <3>2, <3>3, <3>4 DEF PortOrder
  <2>4. PortsInOrder'
    BY <1>3, <1>p, <2>2, <2>3 DEF ResetDone, PortEvent
  <2> QED BY <1>a, <1>h, <2>2, <2>4 DEF TurnInv
<1>4. ASSUME portsc' = portsc PROVE TurnInv' /\ NoNewReport
  <2>1. ASSUME NEW e \in Events, eventq' = Append(eventq, e), e.type # "PortStatusChange"
        PROVE  NoNewReport
    <3>1. /\ \A j \in DOMAIN eventq' : j \in DOMAIN eventq \/ j = Len(eventq) + 1
          /\ eventq'[Len(eventq) + 1] = e
          /\ \A j \in DOMAIN eventq : eventq'[j] = eventq[j]
      BY <1>t, <2>1, PostEvent
    <3>2. \A i \in DOMAIN eventq' : eventq'[i].type = "PortStatusChange" =>
             i + 0 \in DOMAIN eventq /\ eventq'[i] = eventq[i + 0]
      BY <1>n, <2>1, <3>1
    <3> QED BY <3>2 DEF NoNewReport
  <2>2. NoNewReport
    <3>1. CASE eventq' = eventq
      <4>1. \A i \in DOMAIN eventq' : i + 0 \in DOMAIN eventq /\ eventq'[i] = eventq[i + 0]
        BY <1>n, <3>1
      <4> QED BY <4>1 DEF NoNewReport
    <3>2. ASSUME NEW e \in Events, Posts(e) PROVE e.type # "PortStatusChange"
      BY <1>1, <1>2, <1>3, <1>4, <3>2 DEF Posts
    <3> QED BY <2>1, <3>1, <3>2, ControllerQueues
  <2>3. PortsInOrder'
    BY <1>l, <1>o, <1>4, <2>2, OrderKept
  <2> QED BY <1>a, <1>h, <1>4, <2>2, <2>3 DEF TurnInv
<1>5. (\E p \in Ports : Attach(p) \/ Detach(p) \/ ResetDone(p)) \/ portsc' = portsc
  BY DEF Controller, ExecEnableSlot, ExecAddressDevice, ExecOther, ExecTransfer, FailTransfer
<1> QED BY <1>f, <1>1, <1>2, <1>3, <1>4, <1>5

\* The kernel's steps: the turn goes from port to port, and a port that has
\* it moves on.
LEMMA KernelTurn ==
  ASSUME TypeInv, TypeInv', PortsKnown, TurnInv, Kernel
  PROVE  TurnInv' /\ MovesForward
<1> USE DEF statusVars, ctrlVars
<1>m. machine' = machine
  BY MachineStays DEF Next
<1>s. Ports' = Ports /\ Slots' = Slots /\ None \notin Ports
  BY <1>m, SameMachine, Numbers DEF TypeInv, StatusType
<1>t. StatusType /\ QueueType /\ JobType /\ ControllerType /\ StatusType'
  BY DEF TypeInv
<1>o. PortsInOrder /\ OneAtATime /\ HandlerPort
  BY DEF TurnInv
<1>n. NoNewReport /\ DOMAIN eventq' \subseteq Nat \ {0}
  <2>1. DOMAIN eventq' \subseteq Nat \ {0}
    BY DEF TypeInv, QueueType
  <2>2. CASE eventq' = eventq
    <3>1. \A i \in DOMAIN eventq' : i + 0 \in DOMAIN eventq /\ eventq'[i] = eventq[i + 0]
      BY <2>1, <2>2
    <3> QED BY <2>1, <3>1 DEF NoNewReport
  <2> QED BY <2>1, <2>2, KernelEvents DEF NoNewReport
<1>f. ASSUME UNCHANGED <<state, current_port, portsc>> PROVE PortsInOrder' /\ OneAtATime' /\ MovesForward
  <2>1. PortsInOrder'
    BY <1>f, <1>m, <1>n, <1>o, OrderKept
  <2> QED BY <1>f, <1>s, <1>o, <2>1 DEF OneAtATime, MovesForward, Forward
<1>h. ASSUME ~InFs', ~InConf' PROVE HandlerPort'
  BY <1>h DEF HandlerPort
<1>1. CASE OnPortEnabled
  <2>p. PICK p \in Ports : p = Head(eventq).port
    BY <1>1, <1>t, TakeFacts DEF OnPortEnabled
  <2>1. /\ p \in Ports /\ pc = "loop" /\ eventq[1].type = "PortStatusChange" /\ p = eventq[1].port
        /\ 1 \in DOMAIN eventq
        /\ \A i \in DOMAIN eventq' : i + 1 \in DOMAIN eventq /\ eventq'[i] = eventq[i + 1]
    BY <1>1, <1>t, <2>p, TakeFacts DEF OnPortEnabled
  <2>2. /\ portsc[p].ped
        /\ current_port' = TurnWhenEnabled(p)
        /\ state' = [state EXCEPT ![p] = StateWhenEnabled]
        /\ UNCHANGED <<portsc, pc, job>>
    BY <1>1, <2>p DEF OnPortEnabled
  <2>3. state'[p] = StateWhenEnabled /\ \A q \in Ports : q # p => state'[q] = state[q]
    BY <1>t, <2>1, <2>2 DEF StatusType
  <2>4. ASSUME ~portsc[p].pulled
        PROVE  state[p] = "RESET" /\ \A i \in DOMAIN eventq' : ~Reports(i, p)'
    <3>1. PortOrder(p) /\ Reports(1, p)
      BY <1>o, <2>1, <2>4 DEF PortsInOrder, Reports
    <3>2. ASSUME NEW i \in DOMAIN eventq', Reports(i, p)' PROVE FALSE
      <4>1. i + 1 \in DOMAIN eventq /\ Reports(i + 1, p) /\ i \in Nat /\ i # 0
        BY <2>1, <3>2, <1>n DEF Reports
      <4>2. i + 1 = 1
        BY <2>1, <3>1, <4>1 DEF PortOrder
      <4> QED BY <4>1, <4>2
    <3> QED BY <2>1, <3>1, <3>2 DEF PortOrder
  <2>5. PortsInOrder'
    <3>1. SUFFICES ASSUME NEW q \in Ports, ~portsc[q].pulled PROVE PortOrder(q)'
      BY <1>s, <2>2 DEF PortsInOrder
    <3>2. PortOrder(q)
      BY <1>o, <3>1 DEF PortsInOrder
    <3>3. CASE q = p
      <4>1. portsc[p].ccs
        BY <2>2, <3>2, <3>3 DEF PortOrder
      <4> QED BY <2>2, <2>4, <3>1, <3>2, <3>3, <4>1 DEF PortOrder
    <3>4. CASE q # p
      <4>1. ASSUME NEW i \in DOMAIN eventq', Reports(i, q)' PROVE i + 1 \in DOMAIN eventq /\ Reports(i + 1, q)
        BY <2>1, <4>1 DEF Reports
      <4>2. \A i \in DOMAIN eventq' : Reports(i, q)' =>
               \A j \in DOMAIN eventq' : Reports(j, q)' => i = j
        <5>1. SUFFICES ASSUME NEW i \in DOMAIN eventq', NEW j \in DOMAIN eventq', Reports(i, q)', Reports(j, q)'
                       PROVE  i = j
          OBVIOUS
        <5>2. i + 1 = j + 1 /\ i \in Nat /\ j \in Nat
          BY <1>n, <3>2, <4>1, <5>1 DEF PortOrder
        <5> QED BY <5>2
      <4> QED BY <2>2, <2>3, <3>2, <3>4, <4>1, <4>2 DEF PortOrder
    <3> QED BY <3>3, <3>4
  <2>6. OneAtATime'
    <3>1. CASE current_port = None
      <4>1. current_port' = p /\ state'[p] = "ENABLE_SLOT"
        BY <2>2, <2>3, <3>1 DEF TurnWhenEnabled, StateWhenEnabled
      <4> QED BY <1>s, <1>o, <2>1, <2>2, <2>3, <3>1, <4>1 DEF OneAtATime
    <3>2. CASE current_port # None
      <4>1. current_port' = current_port /\ state'[p] = "WAIT_ENABLE_SLOT"
        BY <2>2, <2>3, <3>2 DEF TurnWhenEnabled, StateWhenEnabled
      <4> QED BY <1>s, <1>o, <2>1, <2>2, <2>3, <2>4, <3>2, <4>1 DEF OneAtATime
    <3> QED BY <3>1, <3>2
  <2>7. MovesForward
    BY <2>3, <2>4 DEF MovesForward, Forward, StateWhenEnabled
  <2>8. HandlerPort'
    BY <1>h, <2>1, <2>2 DEF InFs, InConf
  <2> QED BY <2>5, <2>6, <2>7, <2>8 DEF TurnInv
<1>2. CASE OnPortDisabled
  <2>p. PICK p \in Ports : p = Head(eventq).port
    BY <1>2, <1>t, TakeFacts DEF OnPortDisabled
  <2>1. /\ p \in Ports /\ pc = "loop" /\ eventq[1].type = "PortStatusChange" /\ p = eventq[1].port
        /\ 1 \in DOMAIN eventq
        /\ \A i \in DOMAIN eventq' : i + 1 \in DOMAIN eventq /\ eventq'[i] = eventq[i + 1]
    BY <1>2, <1>t, <2>p, TakeFacts DEF OnPortDisabled
  <2>2. /\ ~portsc[p].ped
        /\ portsc' = [portsc EXCEPT ![p].csc = FALSE, ![p].resetting = portsc[p].ccs]
        /\ UNCHANGED <<state, current_port, pc, job>>
    BY <1>2, <2>p DEF OnPortDisabled
  <2>3. portsc[p] \in PortRegister /\ portsc \in [Ports -> PortRegister]
    BY <1>t, <2>1 DEF ControllerType
  <2>4. /\ \A q \in Ports : q # p => portsc'[q] = portsc[q]
        /\ ~portsc'[p].csc /\ portsc'[p].resetting = portsc[p].ccs
        /\ portsc'[p].ccs = portsc[p].ccs /\ portsc'[p].ped = portsc[p].ped
        /\ portsc'[p].prc = portsc[p].prc /\ portsc'[p].pulled = portsc[p].pulled
    BY <2>1, <2>2, <2>3 DEF PortRegister
  <2>5. \A q \in Ports : portsc'[q].pulled = portsc[q].pulled
    BY <2>4
  <2>6. PortsInOrder'
    <3>1. SUFFICES ASSUME NEW q \in Ports, ~portsc[q].pulled PROVE PortOrder(q)'
      BY <1>s, <2>5 DEF PortsInOrder
    <3>2. PortOrder(q)
      BY <1>o, <3>1 DEF PortsInOrder
    <3>3. CASE q = p
      <4>1. Reports(1, p) /\ state[p] = "RESET" /\ (portsc[p].csc \/ portsc[p].prc)
        BY <2>1, <3>2, <3>3 DEF PortOrder, Reports
      <4>2. portsc[p].ccs /\ ~portsc[p].prc
        BY <2>2, <3>2, <3>3, <4>1 DEF PortOrder
      <4>3. ASSUME NEW i \in DOMAIN eventq', Reports(i, p)' PROVE FALSE
        <5>1. i + 1 \in DOMAIN eventq /\ Reports(i + 1, p) /\ i \in Nat /\ i # 0
          BY <2>1, <4>3, <1>n DEF Reports
        <5>2. i + 1 = 1
          BY <2>1, <3>2, <3>3, <4>1, <5>1 DEF PortOrder
        <5> QED BY <5>1, <5>2
      <4> QED BY <2>2, <2>4, <3>3, <4>1, <4>2, <4>3 DEF PortOrder
    <3>4. CASE q # p
      <4>1. ASSUME NEW i \in DOMAIN eventq', Reports(i, q)' PROVE i + 1 \in DOMAIN eventq /\ Reports(i + 1, q)
        BY <2>1, <4>1 DEF Reports
      <4>2. \A i \in DOMAIN eventq' : Reports(i, q)' =>
               \A j \in DOMAIN eventq' : Reports(j, q)' => i = j
        <5>1. SUFFICES ASSUME NEW i \in DOMAIN eventq', NEW j \in DOMAIN eventq', Reports(i, q)', Reports(j, q)'
                       PROVE  i = j
          OBVIOUS
        <5>2. i + 1 = j + 1 /\ i \in Nat /\ j \in Nat
          BY <1>n, <3>2, <4>1, <5>1 DEF PortOrder
        <5> QED BY <5>2
      <4>3. portsc'[q] = portsc[q] /\ state' = state
        BY <2>2, <2>4, <3>4
      <4> QED BY <3>2, <4>1, <4>2, <4>3 DEF PortOrder
    <3> QED BY <3>3, <3>4
  <2>7. OneAtATime' /\ MovesForward
    BY <1>s, <1>o, <2>2, <2>5 DEF OneAtATime, MovesForward, Forward
  <2>8. HandlerPort'
    BY <1>h, <2>1, <2>2 DEF InFs, InConf
  <2> QED BY <2>6, <2>7, <2>8 DEF TurnInv
<1>3. CASE OnEnableSlot
  <2>1. pc = "loop" /\ current_port \in Ports /\ state[current_port] = "ENABLE_SLOT"
    BY <1>3, <1>t, TakeFacts DEF OnEnableSlot, Serving, StatusType
  <2>2. /\ UNCHANGED <<current_port, portsc>>
        /\ \/ pc' = "fs_req" /\ state' = state
           \/ state' = [state EXCEPT ![current_port] = "ADDRESS_DEVICE"] /\ UNCHANGED <<pc, job>>
    BY <1>3 DEF OnEnableSlot
  <2>3. CASE pc' = "fs_req" /\ state' = state
    BY <1>f, <1>s, <2>1, <2>2, <2>3 DEF TurnInv, HandlerPort, InFs, InConf
  <2>4. CASE state' = [state EXCEPT ![current_port] = "ADDRESS_DEVICE"] /\ UNCHANGED <<pc, job>>
    <3>1. /\ state'[current_port] = "ADDRESS_DEVICE"
          /\ \A q \in Ports : q # current_port => state'[q] = state[q]
      BY <1>t, <2>1, <2>4 DEF StatusType
    <3>2. PortsInOrder'
      BY <1>m, <1>n, <1>o, <2>1, <2>2, <3>1, OrderKept
    <3>3. OneAtATime'
      BY <1>s, <1>o, <2>1, <2>2, <3>1 DEF OneAtATime
    <3>4. MovesForward
      BY <2>1, <3>1 DEF MovesForward, Forward
    <3> QED BY <1>h, <2>1, <2>4, <3>2, <3>3, <3>4 DEF TurnInv, InFs, InConf
  <2> QED BY <2>2, <2>3, <2>4
<1>4. CASE RequestMaxPacketSize
  <2>1. UNCHANGED <<state, current_port, portsc>> /\ InFs /\ ~InConf'
    BY <1>4 DEF RequestMaxPacketSize, KernelAt, InFs, InConf
  <2> QED BY <1>f, <1>o, <2>1 DEF TurnInv, HandlerPort
<1>5. CASE ReadMaxPacketSize
  <2>1. /\ UNCHANGED <<current_port, portsc>> /\ InFs /\ ~InConf' /\ ~InFs'
        /\ state' = [state EXCEPT ![current_port] = "ADDRESS_DEVICE"]
    BY <1>5 DEF ReadMaxPacketSize, KernelAt, InFs, InConf
  <2>2. current_port \in Ports /\ state[current_port] = "ENABLE_SLOT"
    BY <1>t, <1>o, <2>1 DEF HandlerPort, StatusType
  <2>3. /\ state'[current_port] = "ADDRESS_DEVICE"
        /\ \A q \in Ports : q # current_port => state'[q] = state[q]
    BY <1>t, <2>1, <2>2 DEF StatusType
  <2>4. PortsInOrder'
    BY <1>m, <1>n, <1>o, <2>1, <2>2, <2>3, OrderKept
  <2>5. OneAtATime'
    BY <1>s, <1>o, <2>1, <2>2, <2>3 DEF OneAtATime
  <2>6. MovesForward
    BY <2>2, <2>3 DEF MovesForward, Forward
  <2> QED BY <1>h, <2>1, <2>4, <2>5, <2>6 DEF TurnInv
<1>6. CASE OnAddressDevice
  <2> DEFINE st == [state EXCEPT ![current_port] = "GET_DESCRIPTOR"]
             next == LastWaiting(st)
  <2>1. pc = "loop" /\ current_port \in Ports /\ state[current_port] = "ADDRESS_DEVICE"
    BY <1>6, <1>t, TakeFacts DEF OnAddressDevice, Serving, StatusType
  <2>2. /\ current_port' = next
        /\ state' = IF next = None THEN st ELSE [st EXCEPT ![next] = "ENABLE_SLOT"]
        /\ UNCHANGED <<portsc, pc, job>>
    BY <1>6 DEF OnAddressDevice
  <2>3. /\ st \in [Ports -> DeviceStates] /\ st[current_port] = "GET_DESCRIPTOR"
        /\ \A q \in Ports : q # current_port => st[q] = state[q]
    BY <1>t, <2>1 DEF StatusType, DeviceStates
  <2> HIDE DEF st
  <2>4. /\ WaitingPorts(st) = {} => next = None
        /\ WaitingPorts(st) # {} => next \in WaitingPorts(st)
    BY <1>t, LastWaitingIs DEF StatusType
  <2> HIDE DEF next
  <2>5. CASE WaitingPorts(st) = {}
    <3>1. next = None /\ state' = st /\ current_port' = None
      BY <2>2, <2>4, <2>5
    <3>2. \A p \in Ports : state'[p] # "WAIT_ENABLE_SLOT"
      BY <2>5, <3>1 DEF WaitingPorts
    <3>3. PortsInOrder'
      BY <1>m, <1>n, <1>o, <2>1, <2>2, <2>3, <3>1, OrderKept
    <3>4. OneAtATime'
      BY <1>s, <1>o, <2>1, <2>2, <2>3, <3>1, <3>2 DEF OneAtATime
    <3>5. MovesForward
      BY <2>1, <2>3, <3>1 DEF MovesForward, Forward
    <3> QED BY <1>h, <2>1, <2>2, <3>3, <3>4, <3>5 DEF TurnInv, InFs, InConf
  <2>6. CASE WaitingPorts(st) # {}
    <3>1. next \in Ports /\ st[next] = "WAIT_ENABLE_SLOT" /\ next # current_port /\ next # None
      BY <1>s, <2>3, <2>4, <2>6 DEF WaitingPorts
    <3>2. /\ state'[next] = "ENABLE_SLOT" /\ current_port' = next
          /\ \A q \in Ports : q # next => state'[q] = st[q]
      BY <2>2, <2>3, <3>1
    <3>3. PortsInOrder'
      BY <1>m, <1>n, <1>o, <2>1, <2>2, <2>3, <3>1, <3>2, OrderKept
    <3>4. OneAtATime'
      BY <1>s, <1>o, <2>1, <2>2, <2>3, <3>1, <3>2 DEF OneAtATime
    <3>5. MovesForward
      BY <2>1, <2>3, <3>1, <3>2 DEF MovesForward, Forward
    <3> QED BY <1>h, <2>1, <2>2, <3>3, <3>4, <3>5 DEF TurnInv, InFs, InConf
  <2> QED BY <2>5, <2>6
<1>7. CASE OnOtherCommand \/ OnOtherTransfer \/ ReturnToMain \/ read_usb_keyboard
  <2>1. UNCHANGED <<state, current_port, portsc>> /\ ~InFs' /\ ~InConf'
    BY <1>7 DEF OnOtherCommand, OnOtherTransfer, ReturnToMain, read_usb_keyboard, Take, KernelAt,
                InFs, InConf
  <2> QED BY <1>f, <1>h, <2>1 DEF TurnInv
<1>8. CASE OnDescriptor
  <2> DEFINE s == Head(eventq).slot
             p == device_contexts[s]
  <2>1. state[p] = "GET_DESCRIPTOR" /\ pc = "loop"
    BY <1>8 DEF OnDescriptor, Expected, Take, KernelAt
  <2>2. /\ UNCHANGED <<state, current_port, portsc>>
        /\ \/ /\ pc' = "conf_req"
              /\ job' = [NoJob EXCEPT !.slot = s, !.port = p, !.count = num_configs(p)]
           \/ UNCHANGED <<pc, job>>
    BY <1>8 DEF OnDescriptor
  <2>3. CASE UNCHANGED <<pc, job>>
    BY <1>f, <1>h, <2>1, <2>2, <2>3 DEF TurnInv, InFs, InConf
  <2>4. CASE /\ pc' = "conf_req"
             /\ job' = [NoJob EXCEPT !.slot = s, !.port = p, !.count = num_configs(p)]
    <3>1. job'.port = p
      BY <2>4 DEF NoJob
    <3>2. HandlerPort'
      BY <2>1, <2>2, <2>4, <3>1 DEF HandlerPort, InFs, InConf
    <3> QED BY <1>f, <2>2, <3>2 DEF TurnInv
  <2> QED BY <2>2, <2>3, <2>4
<1>9. CASE RequestConfiguration \/ ReadConfigurationHeader
  <2>1. /\ UNCHANGED <<state, current_port, portsc>> /\ InConf /\ ~InFs'
        /\ job'.port = job.port
    BY <1>9, <1>t DEF RequestConfiguration, ReadConfigurationHeader, KernelAt, InFs, InConf, JobType
  <2> QED BY <1>f, <1>o, <2>1 DEF TurnInv, HandlerPort
<1>10. CASE ParseConfiguration
  <2>1. InConf /\ job.port \in Ports
    BY <1>10, <1>t DEF ParseConfiguration, KernelAt, InConf, JobType
  <2>2. state[job.port] \in {"GET_DESCRIPTOR", "END_OF_INITIALIZE"}
    BY <1>o, <2>1 DEF HandlerPort
  <2>3. /\ UNCHANGED <<current_port, portsc>>
        /\ state' = [state EXCEPT ![job.port] = "END_OF_INITIALIZE"]
        /\ \/ pc' = "loop"
           \/ pc' = "conf_req" /\ job' = [job EXCEPT !.index = @ + 1, !.hdr = Zeroes]
    BY <1>10 DEF ParseConfiguration
  <2>4. /\ state'[job.port] = "END_OF_INITIALIZE"
        /\ \A q \in Ports : q # job.port => state'[q] = state[q]
    BY <1>t, <2>1, <2>3 DEF StatusType
  <2>5. PortsInOrder'
    BY <1>m, <1>n, <1>o, <2>1, <2>2, <2>3, <2>4, OrderKept
  <2>6. OneAtATime'
    BY <1>s, <1>o, <2>1, <2>2, <2>3, <2>4 DEF OneAtATime
  <2>7. MovesForward
    BY <2>2, <2>4 DEF MovesForward, Forward
  <2>8. HandlerPort'
    <3>1. CASE pc' = "loop"
      BY <1>h, <3>1 DEF InFs, InConf
    <3>2. CASE pc' = "conf_req" /\ job' = [job EXCEPT !.index = @ + 1, !.hdr = Zeroes]
      <4>1. job'.port = job.port
        BY <1>t, <3>2 DEF JobType
      <4> QED BY <2>4, <3>2, <4>1 DEF HandlerPort, InFs, InConf
    <3> QED BY <2>3, <3>1, <3>2
  <2> QED BY <2>5, <2>6, <2>7, <2>8 DEF TurnInv
<1> QED BY <1>1, <1>2, <1>3, <1>4, <1>5, <1>6, <1>7, <1>8, <1>9, <1>10 DEF Kernel

\* A step that changes nothing keeps the turn.
LEMMA StutterTurn ==
  ASSUME TurnInv, UNCHANGED vars
  PROVE  TurnInv'
<1>1. machine' = machine
  BY DEF vars
<1>2. Ports' = Ports
  BY <1>1, SameMachine
<1> QED BY <1>2 DEF vars, TurnInv, PortsInOrder, PortOrder, Reports, OneAtATime, HandlerPort,
                    InFs, InConf

\* The first two layers together, and what a step does to a port's state.
Known == TypeInv /\ PortsKnown

\* Every step keeps the types and the ports known.
LEMMA KnownStep == Known /\ [Next]_vars => Known'
  BY ControllerKeepsTypes, ControllerKeepsPorts, KernelKeepsTypes, KernelKeepsPorts, StutterTypes
     DEF Next, Known

\* Every step keeps the order of turns, and moves no port back that was not
\* pulled out.
LEMMA TurnStep == Known /\ TurnInv /\ [Next]_vars => TurnInv' /\ (MovesForward \/ UNCHANGED vars)
  BY KnownStep, ControllerTurn, KernelTurn, StutterTurn DEF Next, Known

\* usb_process_events gives the ports their turns one by one.
THEOREM TurnHolds == Spec => []TurnInv
<1>1. Init => TurnInv
  BY InitTurn
<1>2. Known /\ TurnInv /\ [Next]_vars => TurnInv'
  BY TurnStep
<1>3. Spec => []Known
  BY KnownHolds DEF Known
<1> QED BY <1>1, <1>2, <1>3, PTL DEF Spec

\* usb_process_events serves one port at a time: exactly current_port is
\* between Enable Slot and Address Device.
THEOREM ServesOneAtATime == Spec => []OneAtATime
<1>1. TurnInv => OneAtATime
  BY DEF TurnInv
<1> QED BY TurnHolds, <1>1, PTL

\* The enumeration of a port that was never pulled out only moves forward,
\* whatever events and completions come in which order.
THEOREM MovesOnlyForward == Spec => ForwardOnly
<1>1. Known /\ TurnInv /\ [Next]_vars
      => [\A p \in Ports : Rank(state'[p]) >= Rank(state[p]) \/ portsc[p].pulled]_vars
  <2> SUFFICES ASSUME Known, TurnInv, [Next]_vars, ~UNCHANGED vars
               PROVE  \A p \in Ports : Rank(state'[p]) >= Rank(state[p]) \/ portsc[p].pulled
    OBVIOUS
  <2>1. MovesForward
    BY TurnStep
  <2>2. \A a, b : Forward(a, b) => Rank(b) >= Rank(a)
    BY DEF Forward, Rank
  <2> QED BY <2>1, <2>2 DEF MovesForward
<1>2. Spec => []Known
  BY KnownHolds DEF Known
<1>3. Spec => []TurnInv
  BY TurnHolds
<1> QED BY <1>1, <1>2, <1>3, PTL DEF Spec, ForwardOnly

----------------------------------------------------------------------------
\* A slot that was enabled and not yet given to a port, or not enabled at all,
\* belongs to no port; each slot is reported once.
FreshSlots ==
  /\ \A i \in DOMAIN eventq : Done(i, "EnableSlot") /\ eventq[i].slot # 0 =>
       /\ eventq[i].slot <= nslots
       /\ device_contexts[eventq[i].slot] = NoPort
       /\ \A j \in DOMAIN eventq :
            Done(j, "EnableSlot") /\ eventq[j].slot = eventq[i].slot => i = j
  /\ \A s \in Slots : s > nslots => device_contexts[s] = NoPort

\* A port that has not been given a slot has none.
NoSlotYet ==
  \A p \in Ports :
    /\ ~portsc[p].pulled
    /\ \/ state[p] \in {"RESET", "WAIT_ENABLE_SLOT"}
       \/ state[p] = "ENABLE_SLOT" /\ ~InFs
    => /\ transfer_ring[p] = 0
       /\ \A s \in Slots : device_contexts[s] # p

SlotInv == FreshSlots /\ NoSlotYet /\ SlotsMatchPorts

\* No slot is enabled yet.
LEMMA InitSlots == Init => SlotInv
  BY Numbers DEF Init, SlotInv, FreshSlots, NoSlotYet, SlotsMatchPorts, InFs

\* What no kernel step changes, and what only handle_enable_slot does.
LEMMA KernelLeaves ==
  ASSUME Known, Kernel
  PROVE  /\ nslots' = nslots /\ ep' = ep
         /\ \A p \in Ports : portsc'[p].pulled = portsc[p].pulled
         /\ OnEnableSlot \/ UNCHANGED <<device_contexts, transfer_ring>>
<1> USE DEF statusVars, ctrlVars
<1>1. OnPortDisabled \/ portsc' = portsc
  BY DEF Kernel, OnPortEnabled, OnEnableSlot, RequestMaxPacketSize,
         ReadMaxPacketSize, OnAddressDevice, OnOtherCommand, OnDescriptor, OnOtherTransfer,
         RequestConfiguration, ReadConfigurationHeader, ParseConfiguration, ReturnToMain,
         read_usb_keyboard
<1>2. CASE OnPortDisabled
  <2>1. PICK p \in Ports : p = Head(eventq).port
    BY <1>2, TakeFacts DEF OnPortDisabled, Known, TypeInv
  <2>2. portsc \in [Ports -> PortRegister] /\ portsc[p] \in PortRegister
    BY DEF Known, TypeInv, ControllerType
  <2>3. portsc' = [portsc EXCEPT ![p].csc = FALSE, ![p].resetting = portsc[p].ccs]
    BY <1>2, <2>1 DEF OnPortDisabled
  <2> QED BY <1>2, <2>2, <2>3 DEF OnPortDisabled, PortRegister
<1>3. nslots' = nslots /\ ep' = ep /\ (OnEnableSlot \/ UNCHANGED <<device_contexts, transfer_ring>>)
  BY DEF Kernel, OnPortEnabled, OnPortDisabled, OnEnableSlot, RequestMaxPacketSize,
         ReadMaxPacketSize, OnAddressDevice, OnOtherCommand, OnDescriptor, OnOtherTransfer,
         RequestConfiguration, ReadConfigurationHeader, ParseConfiguration, ReturnToMain,
         read_usb_keyboard
<1> QED BY <1>1, <1>2, <1>3

\* handle_enable_slot for a full-speed port ends with the port's next state.
LEMMA HandlerEnds ==
  ASSUME Known, TurnInv, Kernel, InFs
  PROVE  InFs' \/ (current_port \in Ports /\ state'[current_port] = "ADDRESS_DEVICE")
<1> USE DEF statusVars, ctrlVars
<1>1. RequestMaxPacketSize \/ ReadMaxPacketSize
  BY DEF Kernel, OnPortEnabled, OnPortDisabled, OnEnableSlot, OnAddressDevice, OnOtherCommand,
         OnDescriptor, OnOtherTransfer, RequestConfiguration, ReadConfigurationHeader,
         ParseConfiguration, ReturnToMain, read_usb_keyboard, Take, KernelAt, InFs
<1>2. CASE RequestMaxPacketSize
  BY <1>2 DEF RequestMaxPacketSize, InFs
<1>3. CASE ReadMaxPacketSize
  BY <1>3 DEF ReadMaxPacketSize, Known, TypeInv, StatusType, TurnInv, HandlerPort
<1> QED BY <1>1, <1>2, <1>3

\* The controller enables slots in order, each of them once.
LEMMA ControllerSlots ==
  ASSUME Known, Known', TurnInv, SlotInv, Controller
  PROVE  SlotInv'
<1>l. UNCHANGED <<state, current_port, device_contexts, transfer_ring, keyboard, pc, job, machine>>
  BY ControllerLeaves
<1>s. Ports' = Ports /\ Slots' = Slots /\ Slots \subseteq Nat
  BY <1>l, SameMachine, Numbers DEF Known, TypeInv, StatusType
<1>t. QueueType /\ ControllerType
  BY DEF Known, TypeInv
<1>p. \A p \in Ports : portsc[p].pulled => portsc'[p].pulled
  BY ControllerTurn DEF Known
<1>o. FreshSlots /\ NoSlotYet /\ SlotsMatchPorts
  BY DEF SlotInv
<1>1. NoSlotYet' /\ SlotsMatchPorts'
  <2>1. NoSlotYet'
    BY <1>l, <1>s, <1>p, <1>o DEF NoSlotYet, InFs
  <2>2. SlotsMatchPorts'
    BY <1>l, <1>s, <1>p, <1>o DEF SlotsMatchPorts
  <2> QED BY <2>1, <2>2
<1>2. ASSUME nslots' = nslots \/ nslots' = nslots + 1
      PROVE  \A s \in Slots : s > nslots' => device_contexts'[s] = NoPort
  <2>1. nslots \in Nat /\ \A s \in Slots : s \in Nat
    BY <1>s, <1>t DEF ControllerType
  <2>2. \A s \in Slots : s > nslots' => s > nslots
    BY <1>2, <2>1
  <2> QED BY <1>l, <1>o, <2>2 DEF FreshSlots
<1>3. CASE UNCHANGED <<eventq, nslots>>
  <2>1. FreshSlots'
    BY <1>l, <1>s, <1>o, <1>3 DEF FreshSlots, Done
  <2> QED BY <1>1, <2>1 DEF SlotInv
<1>4. ASSUME NEW e \in Events, eventq' = Append(eventq, e), Posts(e)
      PROVE  FreshSlots'
  <2>1. /\ \A j \in DOMAIN eventq' : j \in DOMAIN eventq \/ j = Len(eventq) + 1
        /\ eventq'[Len(eventq) + 1] = e
        /\ \A j \in DOMAIN eventq : eventq'[j] = eventq[j]
    BY <1>t, <1>4, PostEvent
  <2>2. /\ nslots \in Nat /\ NumSlots \in Nat
        /\ \/ nslots' = nslots /\ ~(e.type = "Command" /\ e.cmd = "EnableSlot" /\ e.slot # 0)
           \/ nslots' = nslots + 1 /\ e.slot = nslots + 1 /\ nslots + 1 \in Slots
    BY <1>t, <1>s, <1>4, Numbers DEF Posts, ControllerType, Known, TypeInv, StatusType, Slots
  <2>3. \A i \in DOMAIN eventq : Done(i, "EnableSlot")' <=> Done(i, "EnableSlot")
    BY <2>1 DEF Done
  <2>4. \A i \in DOMAIN eventq : Done(i, "EnableSlot") => eventq[i].slot \in Nat
    <3>1. \A i \in DOMAIN eventq : eventq[i] \in Events
      BY <1>t DEF QueueType
    <3> QED BY <1>s, <3>1, EventFields DEF Done
  <2>5. \A s \in Slots : s > nslots' => device_contexts'[s] = NoPort
    BY <1>2, <2>2
  <2>6. CASE nslots' = nslots /\ ~(e.type = "Command" /\ e.cmd = "EnableSlot" /\ e.slot # 0)
    <3>1. \A i \in DOMAIN eventq' : Done(i, "EnableSlot")' /\ eventq'[i].slot # 0 => i \in DOMAIN eventq
      BY <2>1, <2>6 DEF Done
    <3> QED BY <1>l, <1>s, <1>o, <2>1, <2>3, <2>5, <2>6, <3>1 DEF FreshSlots
  <2>7. CASE nslots' = nslots + 1 /\ e.slot = nslots + 1 /\ nslots + 1 \in Slots
    <3>1. device_contexts[nslots + 1] = NoPort
      BY <1>o, <2>2, <2>7 DEF FreshSlots
    <3>2. SUFFICES ASSUME NEW i \in DOMAIN eventq', Done(i, "EnableSlot")', eventq'[i].slot # 0
                   PROVE  /\ eventq'[i].slot <= nslots'
                          /\ device_contexts'[eventq'[i].slot] = NoPort
                          /\ \A j \in DOMAIN eventq' :
                               Done(j, "EnableSlot")' /\ eventq'[j].slot = eventq'[i].slot => i = j
      BY <1>s, <2>5 DEF FreshSlots
    <3>3. CASE i \in DOMAIN eventq
      <4>1. Done(i, "EnableSlot") /\ eventq'[i].slot = eventq[i].slot /\ eventq[i].slot # 0
        BY <2>1, <2>3, <3>2, <3>3
      <4>2. eventq[i].slot <= nslots /\ eventq[i].slot \in Nat
        BY <1>o, <2>4, <3>3, <4>1 DEF FreshSlots
      <4>3. \A j \in DOMAIN eventq' :
              Done(j, "EnableSlot")' /\ eventq'[j].slot = eventq'[i].slot => j \in DOMAIN eventq
        BY <2>1, <2>2, <2>7, <4>1, <4>2
      <4> QED BY <1>l, <1>o, <2>1, <2>2, <2>3, <2>7, <3>3, <4>1, <4>2, <4>3 DEF FreshSlots
    <3>4. CASE i = Len(eventq) + 1
      <4>1. eventq'[i].slot = nslots + 1
        BY <2>1, <2>7, <3>4
      <4>2. \A j \in DOMAIN eventq : Done(j, "EnableSlot")' => eventq'[j].slot # nslots + 1
        BY <1>o, <2>1, <2>2, <2>3, <2>4 DEF FreshSlots
      <4> QED BY <1>l, <2>1, <2>2, <2>7, <3>1, <3>4, <4>1, <4>2
    <3> QED BY <2>1, <3>3, <3>4
  <2> QED BY <2>2, <2>6, <2>7
<1> QED BY <1>1, <1>3, <1>4, ControllerQueues DEF Known, SlotInv

\* The completions that are left after a kernel step were there before it.
LEMMA CompletionsLeft ==
  ASSUME Known, Known', Kernel
  PROVE  \E d \in {0, 1} :
           /\ \A i \in DOMAIN eventq' : i + d \in DOMAIN eventq /\ eventq'[i] = eventq[i + d]
           /\ \A i \in DOMAIN eventq : i # d => i - d \in DOMAIN eventq' /\ eventq'[i - d] = eventq[i]
           /\ DOMAIN eventq' \subseteq Nat \ {0} /\ DOMAIN eventq \subseteq Nat \ {0}
           /\ d = 0 => eventq' = eventq
           /\ d = 1 => eventq # <<>> /\ 1 \in DOMAIN eventq /\ Head(eventq) = eventq[1]
<1>1. DOMAIN eventq' \subseteq Nat \ {0} /\ DOMAIN eventq \subseteq Nat \ {0}
  BY DEF Known, TypeInv, QueueType
<1>2. CASE eventq' = eventq
  <2>1. /\ \A i \in DOMAIN eventq' : i + 0 \in DOMAIN eventq /\ eventq'[i] = eventq[i + 0]
        /\ \A i \in DOMAIN eventq : i # 0 => i - 0 \in DOMAIN eventq' /\ eventq'[i - 0] = eventq[i]
    BY <1>1, <1>2
  <2> QED BY <1>1, <1>2, <2>1
<1>3. CASE eventq' # eventq
  BY <1>1, <1>3, KernelEvents DEF Known
<1> QED BY <1>2, <1>3

\* handle_enable_slot ties the new slot to the port whose turn it is.
LEMMA KernelSlots ==
  ASSUME Known, Known', TurnInv, SlotInv, Kernel
  PROVE  SlotInv'
<1> USE DEF statusVars, ctrlVars
<1>m. machine' = machine
  BY MachineStays DEF Next
<1>s. Ports' = Ports /\ Slots' = Slots /\ Slots \subseteq Nat /\ NoPort \notin Ports /\ 0 \in Slots
      /\ None \notin Ports
  BY <1>m, SameMachine, Numbers DEF Known, TypeInv, StatusType
<1>t. StatusType /\ QueueType /\ ControllerType
  BY DEF Known, TypeInv
<1>o. FreshSlots /\ NoSlotYet /\ SlotsMatchPorts /\ OneAtATime
  BY DEF SlotInv, TurnInv
<1>f. MovesForward
  BY KernelTurn DEF Known
<1>k. nslots' = nslots /\ \A p \in Ports : portsc'[p].pulled = portsc[p].pulled
  BY KernelLeaves
<1>d. PICK d \in {0, 1} :
        /\ \A i \in DOMAIN eventq' : i + d \in DOMAIN eventq /\ eventq'[i] = eventq[i + d]
        /\ DOMAIN eventq' \subseteq Nat \ {0}
  BY CompletionsLeft
<1>e. \A i \in DOMAIN eventq' : /\ Done(i, "EnableSlot")' <=> Done(i + d, "EnableSlot")
                                /\ eventq'[i].slot = eventq[i + d].slot
  BY <1>d DEF Done
<1>1. ASSUME UNCHANGED <<device_contexts, transfer_ring>> PROVE SlotInv'
  <2>1. FreshSlots'
    <3>1. ASSUME NEW i \in DOMAIN eventq', Done(i, "EnableSlot")', eventq'[i].slot # 0
          PROVE  /\ eventq'[i].slot <= nslots'
                 /\ device_contexts'[eventq'[i].slot] = NoPort
                 /\ \A j \in DOMAIN eventq' :
                      Done(j, "EnableSlot")' /\ eventq'[j].slot = eventq'[i].slot => i = j
      <4>1. i + d \in DOMAIN eventq /\ Done(i + d, "EnableSlot") /\ eventq[i + d].slot # 0
        BY <1>d, <1>e, <3>1
      <4>2. eventq'[i].slot <= nslots' /\ device_contexts'[eventq'[i].slot] = NoPort
        BY <1>o, <1>k, <1>e, <1>1, <3>1, <4>1 DEF FreshSlots
      <4>3. ASSUME NEW j \in DOMAIN eventq', Done(j, "EnableSlot")', eventq'[j].slot = eventq'[i].slot
            PROVE  i = j
        <5>1. i + d = j + d
          BY <1>o, <1>d, <1>e, <3>1, <4>1, <4>3 DEF FreshSlots
        <5> QED BY <1>d, <5>1
      <4> QED BY <4>2, <4>3
    <3> QED BY <1>s, <1>o, <1>k, <1>1, <3>1 DEF FreshSlots
  <2>2. SlotsMatchPorts'
    BY <1>s, <1>o, <1>k, <1>1 DEF SlotsMatchPorts
  <2>3. NoSlotYet'
    <3>1. SUFFICES ASSUME NEW p \in Ports, ~portsc[p].pulled,
                          \/ state'[p] \in {"RESET", "WAIT_ENABLE_SLOT"}
                          \/ state'[p] = "ENABLE_SLOT" /\ ~InFs'
                   PROVE  transfer_ring[p] = 0 /\ \A s \in Slots : device_contexts[s] # p
      BY <1>s, <1>k, <1>1 DEF NoSlotYet
    <3>2. state[p] \in {"RESET", "WAIT_ENABLE_SLOT", "ENABLE_SLOT"}
      BY <1>f, <3>1 DEF MovesForward, Forward
    <3>3. CASE state[p] = "ENABLE_SLOT" /\ InFs
      <4>1. p = current_port
        BY <1>o, <3>1, <3>3 DEF OneAtATime
      <4>2. state'[p] = "ENABLE_SLOT"
        BY <1>f, <3>1, <3>3 DEF MovesForward, Forward
      <4> QED BY <3>1, <3>3, <4>1, <4>2, HandlerEnds
    <3> QED BY <1>o, <3>1, <3>2, <3>3 DEF NoSlotYet
  <2> QED BY <2>1, <2>2, <2>3 DEF SlotInv
<1>2. CASE OnEnableSlot
  <2>1. PICK s \in Slots : s = Head(eventq).slot
    BY <1>2, <1>t, TakeFacts DEF OnEnableSlot
  <2>2. /\ pc = "loop" /\ current_port \in Ports /\ state[current_port] = "ENABLE_SLOT"
        /\ 1 \in DOMAIN eventq /\ Done(1, "EnableSlot") /\ eventq[1].slot = s
        /\ \A i \in DOMAIN eventq' : i + 1 \in DOMAIN eventq /\ eventq'[i] = eventq[i + 1]
    BY <1>2, <1>t, <2>1, TakeFacts DEF OnEnableSlot, Serving, StatusType, Done
  <2>3. /\ device_contexts' = [device_contexts EXCEPT ![s] = current_port]
        /\ transfer_ring' = [transfer_ring EXCEPT ![current_port] = s]
        /\ \/ pc' = "fs_req" /\ state' = state
           \/ state' = [state EXCEPT ![current_port] = "ADDRESS_DEVICE"]
    BY <1>2, <2>1 DEF OnEnableSlot
  <2>4. /\ device_contexts'[s] = current_port
        /\ \A t \in Slots : t # s => device_contexts'[t] = device_contexts[t]
        /\ transfer_ring'[current_port] = s
        /\ \A p \in Ports : p # current_port => transfer_ring'[p] = transfer_ring[p]
        /\ \A p \in Ports : p # current_port => state'[p] = state[p]
        /\ InFs' \/ state'[current_port] = "ADDRESS_DEVICE"
    BY <1>t, <2>2, <2>3 DEF StatusType, InFs
  <2>5. s # 0 => device_contexts[s] = NoPort /\ s <= nslots
    BY <1>o, <2>2 DEF FreshSlots
  <2>6. ~portsc[current_port].pulled => \A t \in Slots : device_contexts[t] # current_port
    BY <1>o, <2>2 DEF NoSlotYet, InFs
  <2>7. FreshSlots'
    <3>1. ASSUME NEW i \in DOMAIN eventq', Done(i, "EnableSlot")', eventq'[i].slot # 0
          PROVE  /\ eventq'[i].slot <= nslots'
                 /\ device_contexts'[eventq'[i].slot] = NoPort
                 /\ \A j \in DOMAIN eventq' :
                      Done(j, "EnableSlot")' /\ eventq'[j].slot = eventq'[i].slot => i = j
      <4>1. /\ i + 1 \in DOMAIN eventq /\ Done(i + 1, "EnableSlot") /\ eventq[i + 1].slot # 0
            /\ eventq'[i].slot = eventq[i + 1].slot /\ i \in Nat /\ i # 0
        BY <1>d, <2>2, <3>1 DEF Done
      <4>2. /\ eventq[i + 1].slot <= nslots /\ device_contexts[eventq[i + 1].slot] = NoPort
            /\ \A j \in DOMAIN eventq :
                 Done(j, "EnableSlot") /\ eventq[j].slot = eventq[i + 1].slot => i + 1 = j
        BY <1>o, <4>1 DEF FreshSlots
      <4>3. eventq[i + 1].slot # s /\ eventq[i + 1].slot \in Slots
        <5>1. eventq[i + 1].slot # s
          BY <2>2, <4>1, <4>2
        <5>2. eventq[i + 1] \in Events
          BY <1>t, <4>1 DEF QueueType
        <5> QED BY <4>1, <5>1, <5>2, EventFields DEF Done
      <4>4. ASSUME NEW j \in DOMAIN eventq', Done(j, "EnableSlot")', eventq'[j].slot = eventq'[i].slot
            PROVE  i = j
        <5>1. i + 1 = j + 1 /\ j \in Nat
          BY <1>d, <2>2, <4>1, <4>2, <4>4 DEF Done
        <5> QED BY <4>1, <5>1
      <4> QED BY <1>k, <2>4, <4>1, <4>2, <4>3, <4>4
    <3>2. ASSUME NEW t \in Slots, t > nslots PROVE device_contexts'[t] = NoPort
      <4>1. t # s
        BY <1>s, <1>t, <2>5, <3>2 DEF ControllerType
      <4> QED BY <1>o, <2>4, <3>2, <4>1 DEF FreshSlots
    <3> QED BY <1>s, <1>k, <3>1, <3>2 DEF FreshSlots
  <2>8. NoSlotYet'
    <3>1. SUFFICES ASSUME NEW p \in Ports, ~portsc[p].pulled,
                          \/ state'[p] \in {"RESET", "WAIT_ENABLE_SLOT"}
                          \/ state'[p] = "ENABLE_SLOT" /\ ~InFs'
                   PROVE  transfer_ring'[p] = 0 /\ \A t \in Slots : device_contexts'[t] # p
      BY <1>s, <1>k DEF NoSlotYet
    <3>2. p # current_port
      <4>1. CASE state' = state
        BY <2>2, <2>4, <3>1, <4>1
      <4>2. CASE state' # state
        BY <1>t, <2>2, <2>3, <3>1, <4>2 DEF StatusType
      <4> QED BY <4>1, <4>2
    <3>3. state[p] \in {"RESET", "WAIT_ENABLE_SLOT"}
      BY <1>o, <2>4, <3>1, <3>2 DEF OneAtATime
    <3>4. transfer_ring[p] = 0 /\ \A t \in Slots : device_contexts[t] # p
      BY <1>o, <3>1, <3>3 DEF NoSlotYet
    <3> QED BY <2>4, <3>2, <3>4
  <2>9. SlotsMatchPorts'
    <3>1. ASSUME NEW p \in Ports, transfer_ring'[p] # 0
          PROVE  device_contexts'[transfer_ring'[p]] = p
      <4>1. CASE p = current_port
        BY <2>4, <4>1
      <4>2. CASE p # current_port
        <5>1. transfer_ring'[p] = transfer_ring[p] /\ transfer_ring[p] \in Slots
          BY <1>t, <2>4, <4>2 DEF StatusType
        <5>2. device_contexts[transfer_ring[p]] = p
          BY <1>o, <3>1, <5>1 DEF SlotsMatchPorts
        <5>3. transfer_ring[p] # s
          BY <1>s, <2>5, <3>1, <5>1, <5>2
        <5> QED BY <2>4, <5>1, <5>2, <5>3
      <4> QED BY <4>1, <4>2
    <3>2. ASSUME NEW a \in Slots, NEW b \in Slots, a # b, device_contexts'[a] \in Ports,
                 ~portsc[device_contexts'[a]].pulled
          PROVE  device_contexts'[a] # device_contexts'[b]
      BY <1>o, <2>4, <2>6, <3>2 DEF SlotsMatchPorts
    <3> QED BY <1>s, <1>k, <3>1, <3>2 DEF SlotsMatchPorts
  <2> QED BY <2>7, <2>8, <2>9 DEF SlotInv
<1> QED BY <1>1, <1>2, KernelLeaves

\* A step that changes nothing keeps slots and ports together.
LEMMA StutterSlots == ASSUME SlotInv, UNCHANGED vars PROVE SlotInv'
<1>1. machine' = machine
  BY DEF vars
<1>2. Ports' = Ports /\ Slots' = Slots
  BY <1>1, SameMachine
<1> QED BY <1>2 DEF vars, SlotInv, FreshSlots, NoSlotYet, SlotsMatchPorts, Done, InFs

\* The driver's slots and ports match in every state of the enumeration.
THEOREM SlotsHold == Spec => []SlotInv
<1>1. Known /\ TurnInv /\ SlotInv /\ [Next]_vars => SlotInv'
  BY KnownStep, ControllerSlots, KernelSlots, StutterSlots DEF Next
<1>2. Spec => []Known
  BY KnownHolds DEF Known
<1> QED BY InitSlots, <1>1, <1>2, TurnHolds, PTL DEF Spec

\* Slots and ports match one to one, also when slots of ignored Enable Slot
\* completions are lost and when slots have run out.
THEOREM SlotsAndPortsMatch == Spec => []SlotsMatchPorts
<1>1. SlotInv => SlotsMatchPorts
  BY DEF SlotInv
<1> QED BY SlotsHold, <1>1, PTL

----------------------------------------------------------------------------
\* The port whose turn it is waits for the completion of c.
AwaitsEnable == current_port # None /\ state[current_port] = "ENABLE_SLOT" /\ ~InFs
AwaitsAddress == current_port # None /\ (state[current_port] = "ADDRESS_DEVICE" \/ InFs)

SomeoneWaits == \E p \in Ports : state[p] = "WAIT_ENABLE_SLOT"

\* No command of this kind is on its way.
NoneAsked(c) == (\A i \in DOMAIN eventq : ~Done(i, c)) /\ (\A i \in DOMAIN cmd_ring : ~Asked(i, c))

\* While nobody has a turn nothing is asked for, while a port waits for its
\* slot no device is being addressed.
NothingStray ==
  /\ current_port = None => NoneAsked("EnableSlot") /\ NoneAsked("AddressDevice")
  /\ AwaitsEnable => NoneAsked("AddressDevice")

\* The one Address Device Command is for the port whose turn it is, and an
\* Enable Slot Command behind it was written for a port that waits.
AddressInOrder ==
  AwaitsAddress =>
    /\ \A i \in DOMAIN eventq : Done(i, "AddressDevice") =>
         /\ eventq[i].slot = transfer_ring[current_port]
         /\ \A j \in DOMAIN eventq : Done(j, "AddressDevice") => i = j
         /\ \A j \in DOMAIN cmd_ring : ~Asked(j, "AddressDevice")
         /\ \A j \in DOMAIN eventq : i < j /\ Done(j, "EnableSlot") => SomeoneWaits
         /\ \A j \in DOMAIN cmd_ring : Asked(j, "EnableSlot") => SomeoneWaits
    /\ \A i \in DOMAIN cmd_ring : Asked(i, "AddressDevice") =>
         /\ cmd_ring[i].slot = transfer_ring[current_port]
         /\ \A j \in DOMAIN cmd_ring : Asked(j, "AddressDevice") => i = j
         /\ \A j \in DOMAIN cmd_ring : i < j /\ Asked(j, "EnableSlot") => SomeoneWaits
    /\ device_contexts[transfer_ring[current_port]] = current_port

\* What the port whose turn it is waits for is on its way.
AwaitedComes ==
  current_port # None /\ ~portsc[current_port].pulled =>
    /\ AwaitsEnable => \/ \E i \in DOMAIN eventq : Done(i, "EnableSlot")
                       \/ \E i \in DOMAIN cmd_ring : Asked(i, "EnableSlot")
    /\ AwaitsAddress => \/ \E i \in DOMAIN eventq : Done(i, "AddressDevice")
                        \/ \E i \in DOMAIN cmd_ring : Asked(i, "AddressDevice")

\* Enable Slot Commands name no slot.
PlainEnables == \A i \in DOMAIN cmd_ring : Asked(i, "EnableSlot") => cmd_ring[i].slot = 0

CommandInv ==
  /\ PlainEnables
  /\ pc # "input" => NothingStray /\ AddressInOrder /\ AwaitedComes

\* No command is queued yet.
LEMMA InitCommand == Init => CommandInv
  BY DEF Init, CommandInv, PlainEnables, NothingStray, NoneAsked, AddressInOrder, AwaitedComes,
         AwaitsEnable, AwaitsAddress

\* The controller answers each command once, in order.
LEMMA ControllerCommand ==
  ASSUME Known, Known', TurnInv, CommandInv, Controller
  PROVE  CommandInv'
<1>l. UNCHANGED <<state, current_port, device_contexts, transfer_ring, keyboard, pc, job, machine>>
  BY ControllerLeaves
<1>s. Ports' = Ports /\ Slots' = Slots
  BY <1>l, SameMachine
<1>t. QueueType /\ StatusType
  BY DEF Known, TypeInv
<1>n. DOMAIN eventq \subseteq Nat \ {0} /\ DOMAIN cmd_ring \subseteq Nat \ {0}
  <2>1. DOMAIN eventq \subseteq Nat \ {0}
    BY <1>t DEF QueueType
  <2> DEFINE C == [cmd : Commands, slot : Slots]
  <2>2. cmd_ring \in Seq(C)
    BY <1>t DEF QueueType
  <2> HIDE DEF C
  <2>3. DOMAIN cmd_ring \subseteq Nat \ {0}
    BY <2>2
  <2> QED BY <2>1, <2>3
<1>p. ASSUME current_port \in Ports, ~portsc'[current_port].pulled PROVE ~portsc[current_port].pulled
  BY <1>p, ControllerTurn DEF Known
<1>c. current_port # None => current_port \in Ports
  BY <1>t DEF StatusType
<1>w. /\ AwaitsEnable' <=> AwaitsEnable
      /\ AwaitsAddress' <=> AwaitsAddress
      /\ SomeoneWaits' <=> SomeoneWaits
  BY <1>l, <1>s DEF AwaitsEnable, AwaitsAddress, SomeoneWaits, InFs
<1>1. CASE UNCHANGED <<eventq, cmd_ring>>
  <2>1. PlainEnables' /\ (NothingStray => NothingStray') /\ (AddressInOrder => AddressInOrder')
    BY <1>l, <1>w, <1>1
       DEF CommandInv, PlainEnables, NothingStray, NoneAsked, AddressInOrder, Done, Asked
  <2>2. AwaitedComes => AwaitedComes'
    BY <1>l, <1>w, <1>c, <1>p, <1>1 DEF AwaitedComes, Done, Asked
  <2> QED BY <1>l, <2>1, <2>2 DEF CommandInv
<1>2. ASSUME NEW e \in Events, eventq' = Append(eventq, e), e.type # "Command", cmd_ring' = cmd_ring
      PROVE  CommandInv'
  <2>1. /\ \A j \in DOMAIN eventq' : j \in DOMAIN eventq \/ j = Len(eventq) + 1
        /\ eventq'[Len(eventq) + 1] = e
        /\ \A j \in DOMAIN eventq : j \in DOMAIN eventq' /\ eventq'[j] = eventq[j]
    BY <1>t, <1>2, PostEvent
  <2>2. \A j \in DOMAIN eventq', c \in Commands :
           Done(j, c)' => j \in DOMAIN eventq /\ Done(j, c) /\ eventq'[j].slot = eventq[j].slot
    BY <1>2, <2>1 DEF Done
  <2>3. \A j \in DOMAIN eventq, c \in Commands : Done(j, c) => j \in DOMAIN eventq' /\ Done(j, c)'
    BY <2>1 DEF Done
  <2>4. \A c : \A j : Asked(j, c)' <=> Asked(j, c)
    BY <1>2 DEF Asked
  <2>c. "EnableSlot" \in Commands /\ "AddressDevice" \in Commands
    BY DEF Commands
  <2>5. PlainEnables'
    BY <1>2, <2>4 DEF CommandInv, PlainEnables
  <2>6. NothingStray => NothingStray'
    BY <1>l, <1>w, <1>2, <2>2, <2>4, <2>c DEF NothingStray, NoneAsked
  <2>7. AddressInOrder => AddressInOrder'
    BY <1>l, <1>w, <1>2, <2>2, <2>4, <2>c DEF AddressInOrder
  <2>8. AwaitedComes => AwaitedComes'
    BY <1>l, <1>w, <1>c, <1>p, <1>2, <2>3, <2>4, <2>c DEF AwaitedComes
  <2> QED BY <1>l, <2>5, <2>6, <2>7, <2>8 DEF CommandInv
<1>3. ASSUME NEW e \in Events, eventq' = Append(eventq, e), e.type = "Command",
             cmd_ring # <<>>, cmd_ring' = Tail(cmd_ring), e.cmd = Head(cmd_ring).cmd,
             e.cmd # "EnableSlot" => e.slot = Head(cmd_ring).slot
      PROVE  CommandInv'
  <2> DEFINE n == Len(eventq) + 1
  <2>1. /\ \A j \in DOMAIN eventq' : j \in DOMAIN eventq \/ j = n
        /\ n \in DOMAIN eventq' /\ n \in Nat
        /\ eventq'[n] = e
        /\ \A j \in DOMAIN eventq : j < n /\ j \in DOMAIN eventq' /\ eventq'[j] = eventq[j]
    BY <1>t, <1>3, PostEvent
  <2>2. /\ 1 \in DOMAIN cmd_ring /\ Head(cmd_ring) = cmd_ring[1]
        /\ \A i \in DOMAIN cmd_ring' : i + 1 \in DOMAIN cmd_ring /\ cmd_ring'[i] = cmd_ring[i + 1]
        /\ \A i \in DOMAIN cmd_ring :
             i # 1 => i - 1 \in DOMAIN cmd_ring' /\ cmd_ring'[i - 1] = cmd_ring[i]
        /\ DOMAIN cmd_ring' \subseteq Nat \ {0}
    BY <1>t, <1>3, FetchCommand
  <2>3. PICK m \in Nat : m = n
    BY <2>1
  <2>4. /\ \A j \in DOMAIN eventq' : j \in DOMAIN eventq \/ j = m
        /\ m \in DOMAIN eventq' /\ m \notin DOMAIN eventq
        /\ \A j \in DOMAIN eventq : j < m /\ j \in DOMAIN eventq'
        /\ \A c : \A j \in DOMAIN eventq : Done(j, c)' <=> Done(j, c)
        /\ \A j \in DOMAIN eventq : eventq'[j].slot = eventq[j].slot
        /\ \A c : Done(m, c)' <=> Asked(1, c)
        /\ Asked(1, "AddressDevice") => eventq'[m].slot = cmd_ring[1].slot
    BY <1>n, <1>3, <2>1, <2>2, <2>3 DEF Done, Asked
  <2> HIDE DEF n
  <2>5. /\ \A i \in DOMAIN cmd_ring' : i + 1 \in DOMAIN cmd_ring /\ i \in Nat \ {0}
        /\ \A i \in DOMAIN cmd_ring' : cmd_ring'[i].slot = cmd_ring[i + 1].slot
        /\ \A c : \A i \in DOMAIN cmd_ring' : Asked(i, c)' <=> Asked(i + 1, c)
        /\ \A c : \A i \in DOMAIN cmd_ring :
             Asked(i, c) => i = 1 \/ (i - 1 \in DOMAIN cmd_ring' /\ Asked(i - 1, c)')
    BY <2>2 DEF Asked
  <2>6. PlainEnables'
    BY <2>5 DEF CommandInv, PlainEnables
  <2>7. \A c : NoneAsked(c) => NoneAsked(c)'
    BY <2>2, <2>4, <2>5 DEF NoneAsked
  <2>8. NothingStray => NothingStray'
    BY <1>l, <1>w, <2>7 DEF NothingStray
  <2>9. AddressInOrder => AddressInOrder'
    <3> SUFFICES ASSUME AddressInOrder, AwaitsAddress PROVE AddressInOrder'
      BY <1>w DEF AddressInOrder
    <3>1. \A i \in DOMAIN eventq : Done(i, "AddressDevice") =>
         /\ eventq[i].slot = transfer_ring[current_port]
         /\ \A j \in DOMAIN eventq : Done(j, "AddressDevice") => i = j
         /\ \A j \in DOMAIN cmd_ring : ~Asked(j, "AddressDevice")
         /\ \A j \in DOMAIN eventq : i < j /\ Done(j, "EnableSlot") => SomeoneWaits
         /\ \A j \in DOMAIN cmd_ring : Asked(j, "EnableSlot") => SomeoneWaits
      BY DEF AddressInOrder
    <3>2. \A i \in DOMAIN cmd_ring : Asked(i, "AddressDevice") =>
         /\ cmd_ring[i].slot = transfer_ring[current_port]
         /\ \A j \in DOMAIN cmd_ring : Asked(j, "AddressDevice") => i = j
         /\ \A j \in DOMAIN cmd_ring : i < j /\ Asked(j, "EnableSlot") => SomeoneWaits
      BY DEF AddressInOrder
    <3>3. ASSUME NEW i \in DOMAIN eventq, Done(i, "AddressDevice")'
          PROVE  /\ eventq'[i].slot = transfer_ring'[current_port']
                 /\ \A j \in DOMAIN eventq' : Done(j, "AddressDevice")' => i = j
                 /\ \A j \in DOMAIN cmd_ring' : ~Asked(j, "AddressDevice")'
                 /\ \A j \in DOMAIN eventq' : i < j /\ Done(j, "EnableSlot")' => SomeoneWaits'
                 /\ \A j \in DOMAIN cmd_ring' : Asked(j, "EnableSlot")' => SomeoneWaits'
      <4>1. Done(i, "AddressDevice") /\ ~Asked(1, "AddressDevice")
        BY <2>2, <2>4, <3>1, <3>3
      <4> QED BY <1>l, <1>w, <2>2, <2>4, <2>5, <3>1, <4>1
    <3>4. ASSUME Done(m, "AddressDevice")'
          PROVE  /\ eventq'[m].slot = transfer_ring'[current_port']
                 /\ \A j \in DOMAIN eventq' : Done(j, "AddressDevice")' => m = j
                 /\ \A j \in DOMAIN cmd_ring' : ~Asked(j, "AddressDevice")'
                 /\ \A j \in DOMAIN eventq' : m < j /\ Done(j, "EnableSlot")' => SomeoneWaits'
                 /\ \A j \in DOMAIN cmd_ring' : Asked(j, "EnableSlot")' => SomeoneWaits'
      <4>1. Asked(1, "AddressDevice") /\ \A j \in DOMAIN eventq : ~Done(j, "AddressDevice")
        BY <2>2, <2>4, <3>1, <3>4
      <4>2. \A j \in DOMAIN cmd_ring' : j + 1 # 1 /\ 1 < j + 1
        BY <2>5
      <4>3. \A j \in DOMAIN eventq' : ~(m < j)
        BY <1>n, <2>4
      <4> QED BY <1>l, <1>w, <2>2, <2>4, <2>5, <3>2, <4>1, <4>2, <4>3
    <3>5. ASSUME NEW i \in DOMAIN cmd_ring', Asked(i, "AddressDevice")'
          PROVE  /\ cmd_ring'[i].slot = transfer_ring'[current_port']
                 /\ \A j \in DOMAIN cmd_ring' : Asked(j, "AddressDevice")' => i = j
                 /\ \A j \in DOMAIN cmd_ring' : i < j /\ Asked(j, "EnableSlot")' => SomeoneWaits'
      <4>1. i + 1 \in DOMAIN cmd_ring /\ Asked(i + 1, "AddressDevice")
        BY <2>5, <3>5
      <4>2. \A j \in DOMAIN cmd_ring' : (i + 1 = j + 1 => i = j) /\ (i < j => i + 1 < j + 1)
        BY <2>5
      <4> QED BY <1>l, <1>w, <2>5, <3>2, <4>1, <4>2
    <3>6. device_contexts'[transfer_ring'[current_port']] = current_port'
      BY <1>l DEF AddressInOrder
    <3> QED BY <2>4, <3>3, <3>4, <3>5, <3>6 DEF AddressInOrder
  <2>10. AwaitedComes => AwaitedComes'
    <3>1. \A c : (\/ \E i \in DOMAIN eventq : Done(i, c)
                  \/ \E i \in DOMAIN cmd_ring : Asked(i, c))
              => (\/ \E i \in DOMAIN eventq' : Done(i, c)'
                  \/ \E i \in DOMAIN cmd_ring' : Asked(i, c)')
      BY <2>4, <2>5
    <3> QED BY <1>l, <1>w, <1>c, <1>p, <3>1 DEF AwaitedComes
  <2> QED BY <1>l, <2>6, <2>8, <2>9, <2>10 DEF CommandInv
<1> QED BY <1>1, <1>2, <1>3, ControllerQueues DEF Known, Posts

\* A handler asks for the next command only when it took the last answer.
LEMMA KernelCommand ==
  ASSUME Known, Known', TurnInv, TurnInv', CommandInv, Kernel
  PROVE  CommandInv'
<1> USE DEF statusVars, ctrlVars
<1>m. machine' = machine
  BY MachineStays DEF Next
<1>s. Ports' = Ports /\ Slots' = Slots /\ 0 \in Slots /\ None \notin Ports
  BY <1>m, SameMachine, Numbers DEF Known, TypeInv, StatusType
<1>t. StatusType /\ QueueType /\ JobType /\ StatusType'
  BY DEF Known, TypeInv
<1>c. /\ "EnableSlot" \in Commands /\ "AddressDevice" \in Commands
      /\ "EvaluateContext" \in Commands /\ "ConfigureEndpoint" \in Commands
  BY DEF Commands
<1>k. \A p \in Ports : portsc'[p].pulled = portsc[p].pulled
  BY KernelLeaves
<1>o. OneAtATime /\ HandlerPort /\ OneAtATime'
  BY DEF TurnInv
<1>p. current_port # None => current_port \in Ports
  BY <1>t DEF StatusType
<1>d. PICK d \in {0, 1} :
           /\ \A i \in DOMAIN eventq' : i + d \in DOMAIN eventq /\ eventq'[i] = eventq[i + d]
           /\ \A i \in DOMAIN eventq : i # d => i - d \in DOMAIN eventq' /\ eventq'[i - d] = eventq[i]
           /\ DOMAIN eventq' \subseteq Nat \ {0} /\ DOMAIN eventq \subseteq Nat \ {0}
           /\ d = 0 => eventq' = eventq
  BY CompletionsLeft
<1>e. /\ \A i \in DOMAIN eventq' : /\ i + d \in DOMAIN eventq /\ i \in Nat
                                   /\ eventq'[i].slot = eventq[i + d].slot
      /\ \A c : \A i \in DOMAIN eventq' : Done(i, c)' <=> Done(i + d, c)
      /\ \A c : \A i \in DOMAIN eventq :
           Done(i, c) => \/ i = 1 /\ d = 1
                         \/ i - d \in DOMAIN eventq' /\ Done(i - d, c)'
  BY <1>d DEF Done
\* A step that writes neither command, takes no awaited completion, and
\* leaves the turn where it is.
<1>q. ASSUME pc # "input", UNCHANGED <<current_port, device_contexts, transfer_ring>>,
             AwaitsEnable' => AwaitsEnable, AwaitsAddress' => AwaitsAddress,
             SomeoneWaits => SomeoneWaits',
             \/ cmd_ring' = cmd_ring
             \/ \E c \in Commands \ {"EnableSlot", "AddressDevice"}, s \in Slots :
                  cmd_ring' = Append(cmd_ring, Cmd(c, s)),
             \/ eventq' = eventq
             \/ /\ AwaitsEnable => ~Done(1, "EnableSlot")
                /\ AwaitsAddress => ~Done(1, "AddressDevice")
      PROVE  CommandInv'
  <2>1. \A c \in {"EnableSlot", "AddressDevice"} :
          /\ \A i \in DOMAIN cmd_ring' : Asked(i, c)' =>
               i \in DOMAIN cmd_ring /\ Asked(i, c) /\ cmd_ring'[i].slot = cmd_ring[i].slot
          /\ \A i \in DOMAIN cmd_ring : Asked(i, c) => i \in DOMAIN cmd_ring' /\ Asked(i, c)'
    <3>1. CASE cmd_ring' = cmd_ring
      BY <3>1 DEF Asked
    <3>2. ASSUME NEW x \in Commands \ {"EnableSlot", "AddressDevice"}, NEW s \in Slots,
                 cmd_ring' = Append(cmd_ring, Cmd(x, s))
          PROVE  \A c \in {"EnableSlot", "AddressDevice"} :
                   /\ \A i \in DOMAIN cmd_ring' : Asked(i, c)' =>
                        i \in DOMAIN cmd_ring /\ Asked(i, c) /\ cmd_ring'[i].slot = cmd_ring[i].slot
                   /\ \A i \in DOMAIN cmd_ring : Asked(i, c) => i \in DOMAIN cmd_ring' /\ Asked(i, c)'
      <4>1. /\ cmd_ring'[Len(cmd_ring) + 1].cmd = x
            /\ \A i \in DOMAIN cmd_ring : i \in DOMAIN cmd_ring' /\ cmd_ring'[i] = cmd_ring[i]
            /\ \A i \in DOMAIN cmd_ring' : i \in DOMAIN cmd_ring \/ i = Len(cmd_ring) + 1
        BY ONLY <1>t, <3>2, WriteCommand
      <4> QED BY <3>2, <4>1 DEF Asked
    <3> QED BY <1>q, <3>1, <3>2
  <2>2. NothingStray /\ AddressInOrder /\ AwaitedComes /\ PlainEnables
    BY <1>q DEF CommandInv
  <2>3. PlainEnables'
    BY <2>1, <2>2 DEF PlainEnables
  <2>4. \A c \in {"EnableSlot", "AddressDevice"} : NoneAsked(c) => NoneAsked(c)'
    BY <1>e, <2>1 DEF NoneAsked
  <2>5. NothingStray'
    BY <1>q, <2>2, <2>4 DEF NothingStray
  <2>6. AddressInOrder'
    <3>1. SUFFICES ASSUME AwaitsAddress PROVE AddressInOrder'
      BY <1>q DEF AddressInOrder
    <3>2. ASSUME NEW i \in DOMAIN eventq', Done(i, "AddressDevice")'
          PROVE  /\ eventq'[i].slot = transfer_ring'[current_port']
                 /\ \A j \in DOMAIN eventq' : Done(j, "AddressDevice")' => i = j
                 /\ \A j \in DOMAIN cmd_ring' : ~Asked(j, "AddressDevice")'
                 /\ \A j \in DOMAIN eventq' : i < j /\ Done(j, "EnableSlot")' => SomeoneWaits'
                 /\ \A j \in DOMAIN cmd_ring' : Asked(j, "EnableSlot")' => SomeoneWaits'
      <4>1. i + d \in DOMAIN eventq /\ Done(i + d, "AddressDevice") /\ i \in Nat
        BY <1>e, <3>2
      <4>2. /\ eventq[i + d].slot = transfer_ring[current_port]
            /\ \A j \in DOMAIN eventq : Done(j, "AddressDevice") => i + d = j
            /\ \A j \in DOMAIN cmd_ring : ~Asked(j, "AddressDevice")
            /\ \A j \in DOMAIN eventq : i + d < j /\ Done(j, "EnableSlot") => SomeoneWaits
            /\ \A j \in DOMAIN cmd_ring : Asked(j, "EnableSlot") => SomeoneWaits
        BY <2>2, <3>1, <4>1 DEF AddressInOrder
      <4>3. \A j \in DOMAIN eventq' : (i + d = j + d => i = j) /\ (i < j => i + d < j + d)
        BY <1>e, <4>1
      <4> QED BY <1>q, <1>e, <2>1, <4>2, <4>3
    <3>3. ASSUME NEW i \in DOMAIN cmd_ring', Asked(i, "AddressDevice")'
          PROVE  /\ cmd_ring'[i].slot = transfer_ring'[current_port']
                 /\ \A j \in DOMAIN cmd_ring' : Asked(j, "AddressDevice")' => i = j
                 /\ \A j \in DOMAIN cmd_ring' : i < j /\ Asked(j, "EnableSlot")' => SomeoneWaits'
      <4>1. i \in DOMAIN cmd_ring /\ Asked(i, "AddressDevice") /\ cmd_ring'[i].slot = cmd_ring[i].slot
        BY <2>1, <3>3
      <4>2. /\ cmd_ring[i].slot = transfer_ring[current_port]
            /\ \A j \in DOMAIN cmd_ring : Asked(j, "AddressDevice") => i = j
            /\ \A j \in DOMAIN cmd_ring : i < j /\ Asked(j, "EnableSlot") => SomeoneWaits
        BY <2>2, <3>1, <4>1 DEF AddressInOrder
      <4> QED BY <1>q, <2>1, <4>1, <4>2
    <3>4. device_contexts'[transfer_ring'[current_port']] = current_port'
      BY <1>q, <2>2, <3>1 DEF AddressInOrder
    <3> QED BY <3>2, <3>3, <3>4 DEF AddressInOrder
  <2>7. AwaitedComes'
    <3>1. SUFFICES ASSUME current_port # None, ~portsc[current_port].pulled PROVE AwaitedComes'
      BY <1>k, <1>p, <1>q DEF AwaitedComes
    <3>2. ASSUME NEW c \in {"EnableSlot", "AddressDevice"}, ~Done(1, c) \/ d = 0
          PROVE  (\/ \E i \in DOMAIN eventq : Done(i, c)
                  \/ \E i \in DOMAIN cmd_ring : Asked(i, c))
              => (\/ \E i \in DOMAIN eventq' : Done(i, c)'
                  \/ \E i \in DOMAIN cmd_ring' : Asked(i, c)')
      BY <1>e, <2>1, <3>2
    <3>3. \A c \in {"EnableSlot", "AddressDevice"} :
              /\ eventq' = eventq
              /\ \E i \in DOMAIN eventq : Done(i, c)
              => \E i \in DOMAIN eventq' : Done(i, c)'
      BY DEF Done
    <3>4. AwaitsEnable' => \/ \E i \in DOMAIN eventq' : Done(i, "EnableSlot")'
                           \/ \E i \in DOMAIN cmd_ring' : Asked(i, "EnableSlot")'
      BY <1>q, <2>1, <2>2, <3>1, <3>2, <3>3 DEF AwaitedComes
    <3>5. AwaitsAddress' => \/ \E i \in DOMAIN eventq' : Done(i, "AddressDevice")'
                            \/ \E i \in DOMAIN cmd_ring' : Asked(i, "AddressDevice")'
      BY <1>q, <2>1, <2>2, <3>1, <3>2, <3>3 DEF AwaitedComes
    <3> QED BY <3>4, <3>5 DEF AwaitedComes
  <2> QED BY <2>3, <2>5, <2>6, <2>7 DEF CommandInv
\* An Enable Slot Command is written.
<1>x. ASSUME NEW x \in Commands, NEW s \in Slots, cmd_ring' = Append(cmd_ring, Cmd(x, s))
      PROVE  \E n \in Nat :
               /\ n \in DOMAIN cmd_ring' /\ n \notin DOMAIN cmd_ring /\ cmd_ring'[n].slot = s
               /\ \A c : Asked(n, c)' <=> c = x
               /\ \A i \in DOMAIN cmd_ring' : i \in DOMAIN cmd_ring \/ i = n
               /\ \A i \in DOMAIN cmd_ring : i < n /\ i \in DOMAIN cmd_ring' /\ i \in Nat
               /\ \A i \in DOMAIN cmd_ring : cmd_ring'[i].slot = cmd_ring[i].slot
               /\ \A c : \A i \in DOMAIN cmd_ring : Asked(i, c)' <=> Asked(i, c)
  <2>1. /\ Len(cmd_ring) + 1 \in DOMAIN cmd_ring' /\ Len(cmd_ring) + 1 \notin DOMAIN cmd_ring
        /\ cmd_ring'[Len(cmd_ring) + 1].cmd = x /\ cmd_ring'[Len(cmd_ring) + 1].slot = s
        /\ \A i \in DOMAIN cmd_ring :
              i < Len(cmd_ring) + 1 /\ i \in DOMAIN cmd_ring' /\ cmd_ring'[i] = cmd_ring[i]
        /\ \A i \in DOMAIN cmd_ring' : i \in DOMAIN cmd_ring \/ i = Len(cmd_ring) + 1
        /\ DOMAIN cmd_ring \subseteq Nat \ {0} /\ Len(cmd_ring) \in Nat
    BY ONLY <1>t, <1>x, WriteCommand
  <2>2. PICK n \in Nat : n = Len(cmd_ring) + 1
    BY <2>1
  <2> QED BY <2>1, <2>2 DEF Asked
<1>1. CASE OnPortEnabled
  <2>p. PICK p \in Ports : p = Head(eventq).port
    BY <1>1, <1>t, TakeFacts DEF OnPortEnabled
  <2>1. /\ pc = "loop" /\ eventq[1].type = "PortStatusChange" /\ p = eventq[1].port
        /\ 1 \in DOMAIN eventq
    BY <1>1, <1>t, <2>p, TakeFacts DEF OnPortEnabled
  <2>2. /\ current_port' = TurnWhenEnabled(p)
        /\ state' = [state EXCEPT ![p] = StateWhenEnabled]
        /\ UNCHANGED <<pc, job, device_contexts, transfer_ring>>
        /\ cmd_ring' = Append(cmd_ring, Cmd("EnableSlot", 0))
    BY <1>1, <2>p DEF OnPortEnabled
  <2>3. state'[p] = StateWhenEnabled /\ \A q \in Ports : q # p => state'[q] = state[q]
    BY <1>t, <2>2 DEF StatusType
  <2>4. NothingStray /\ AddressInOrder /\ AwaitedComes /\ PlainEnables /\ ~InFs /\ ~InFs'
    BY <2>1, <2>2 DEF CommandInv, InFs
  <2>5. PICK n \in Nat :
               /\ n \in DOMAIN cmd_ring' /\ n \notin DOMAIN cmd_ring /\ cmd_ring'[n].slot = 0
               /\ \A c : Asked(n, c)' <=> c = "EnableSlot"
               /\ \A i \in DOMAIN cmd_ring' : i \in DOMAIN cmd_ring \/ i = n
               /\ \A i \in DOMAIN cmd_ring : i < n /\ i \in DOMAIN cmd_ring' /\ i \in Nat
               /\ \A i \in DOMAIN cmd_ring : cmd_ring'[i].slot = cmd_ring[i].slot
               /\ \A c : \A i \in DOMAIN cmd_ring : Asked(i, c)' <=> Asked(i, c)
    BY <1>x, <1>c, <1>s, <2>2
  <2>6. PlainEnables'
    BY <2>4, <2>5 DEF PlainEnables
  <2>7. NoneAsked("AddressDevice") => NoneAsked("AddressDevice")'
    BY <1>e, <2>5 DEF NoneAsked
  <2>8. CASE current_port = None
    <3>1. current_port' = p /\ state'[p] = "ENABLE_SLOT"
      BY <2>2, <2>3, <2>8 DEF TurnWhenEnabled, StateWhenEnabled
    <3>2. current_port' # None /\ ~AwaitsAddress'
      BY <1>s, <2>4, <3>1 DEF AwaitsAddress
    <3>3. NothingStray'
      BY <2>4, <2>7, <2>8, <3>2 DEF NothingStray
    <3>4. AddressInOrder' /\ AwaitedComes'
      BY <2>5, <3>2 DEF AddressInOrder, AwaitedComes
    <3> QED BY <2>6, <3>3, <3>4 DEF CommandInv
  <2>9. CASE current_port # None
    <3>1. current_port' = current_port /\ state'[p] = "WAIT_ENABLE_SLOT" /\ SomeoneWaits'
      BY <1>s, <2>2, <2>3, <2>9 DEF TurnWhenEnabled, StateWhenEnabled, SomeoneWaits
    <3>2. /\ AwaitsEnable' => AwaitsEnable
          /\ AwaitsAddress' => AwaitsAddress
      BY <1>p, <2>3, <2>4, <2>9, <3>1 DEF AwaitsEnable, AwaitsAddress
    <3>3. NothingStray'
      BY <2>4, <2>7, <2>9, <3>1, <3>2 DEF NothingStray
    <3>4. AddressInOrder'
      <4>1. SUFFICES ASSUME AwaitsAddress PROVE AddressInOrder'
        BY <3>2 DEF AddressInOrder
      <4>2. ASSUME NEW i \in DOMAIN eventq', Done(i, "AddressDevice")'
            PROVE  /\ eventq'[i].slot = transfer_ring'[current_port']
                   /\ \A j \in DOMAIN eventq' : Done(j, "AddressDevice")' => i = j
                   /\ \A j \in DOMAIN cmd_ring' : ~Asked(j, "AddressDevice")'
        <5>1. i + d \in DOMAIN eventq /\ Done(i + d, "AddressDevice") /\ i \in Nat
          BY <1>e, <4>2
        <5>2. /\ eventq[i + d].slot = transfer_ring[current_port]
              /\ \A j \in DOMAIN eventq : Done(j, "AddressDevice") => i + d = j
              /\ \A j \in DOMAIN cmd_ring : ~Asked(j, "AddressDevice")
          BY <2>4, <4>1, <5>1 DEF AddressInOrder
        <5>3. \A j \in DOMAIN eventq' : i + d = j + d => i = j
          BY <1>e, <5>1
        <5> QED BY <1>e, <2>2, <2>5, <3>1, <5>2, <5>3
      <4>3. ASSUME NEW i \in DOMAIN cmd_ring', Asked(i, "AddressDevice")'
            PROVE  /\ cmd_ring'[i].slot = transfer_ring'[current_port']
                   /\ \A j \in DOMAIN cmd_ring' : Asked(j, "AddressDevice")' => i = j
        <5>1. i \in DOMAIN cmd_ring /\ Asked(i, "AddressDevice") /\ cmd_ring'[i].slot = cmd_ring[i].slot
          BY <2>5, <4>3
        <5> QED BY <2>2, <2>4, <2>5, <3>1, <4>1, <5>1 DEF AddressInOrder
      <4>4. device_contexts'[transfer_ring'[current_port']] = current_port'
        BY <2>2, <2>4, <3>1, <4>1 DEF AddressInOrder
      <4> QED BY <3>1, <4>2, <4>3, <4>4 DEF AddressInOrder
    <3>5. AwaitedComes'
      <4>1. SUFFICES ASSUME ~portsc[current_port].pulled PROVE AwaitedComes'
        BY <1>k, <1>p, <2>9, <3>1 DEF AwaitedComes
      <4>2. ~Done(1, "AddressDevice")
        BY <2>1 DEF Done
      <4>3. AwaitsAddress' => \/ \E i \in DOMAIN eventq' : Done(i, "AddressDevice")'
                              \/ \E i \in DOMAIN cmd_ring' : Asked(i, "AddressDevice")'
        BY <1>e, <2>4, <2>5, <2>9, <3>2, <4>1, <4>2 DEF AwaitedComes
      <4> QED BY <2>5, <4>3 DEF AwaitedComes
    <3> QED BY <2>6, <3>3, <3>4, <3>5 DEF CommandInv
  <2> QED BY <2>8, <2>9
<1>2. CASE OnPortDisabled \/ OnOtherTransfer \/ OnDescriptor
  <2>1. /\ pc = "loop" /\ eventq[1].type # "Command"
    BY <1>2, <1>t, TakeFacts DEF OnPortDisabled, OnOtherTransfer, OnDescriptor
  <2>2. UNCHANGED <<current_port, state, device_contexts, transfer_ring, cmd_ring>> /\ ~InFs'
    BY <1>2, <2>1 DEF OnPortDisabled, OnOtherTransfer, OnDescriptor, InFs
  <2>3. /\ AwaitsEnable' => AwaitsEnable
        /\ AwaitsAddress' => AwaitsAddress
        /\ SomeoneWaits => SomeoneWaits'
    BY <1>s, <2>1, <2>2 DEF AwaitsEnable, AwaitsAddress, SomeoneWaits, InFs
  <2> QED BY <1>q, <2>1, <2>2, <2>3 DEF Done
<1>3. CASE OnEnableSlot
  <2>1. PICK s \in Slots : s = Head(eventq).slot
    BY <1>3, <1>t, TakeFacts DEF OnEnableSlot
  <2>2. pc = "loop" /\ current_port \in Ports /\ state[current_port] = "ENABLE_SLOT"
    BY <1>3, <1>t, <2>1, TakeFacts DEF OnEnableSlot, Serving, StatusType
  <2>3. /\ device_contexts' = [device_contexts EXCEPT ![s] = current_port]
        /\ transfer_ring' = [transfer_ring EXCEPT ![current_port] = s]
        /\ cmd_ring' = Append(cmd_ring, Cmd("AddressDevice", s))
        /\ current_port' = current_port
        /\ \/ pc' = "fs_req" /\ state' = state
           \/ state' = [state EXCEPT ![current_port] = "ADDRESS_DEVICE"]
    BY <1>3, <2>1 DEF OnEnableSlot
  <2>4. /\ device_contexts'[s] = current_port /\ transfer_ring'[current_port] = s
        /\ InFs' \/ state'[current_port] = "ADDRESS_DEVICE"
    BY <1>t, <2>2, <2>3 DEF StatusType, InFs
  <2>5. PlainEnables /\ NoneAsked("AddressDevice")
    BY <1>s, <2>2 DEF CommandInv, NothingStray, AwaitsEnable, InFs
  <2>6. PICK n \in Nat :
               /\ n \in DOMAIN cmd_ring' /\ n \notin DOMAIN cmd_ring /\ cmd_ring'[n].slot = s
               /\ \A c : Asked(n, c)' <=> c = "AddressDevice"
               /\ \A i \in DOMAIN cmd_ring' : i \in DOMAIN cmd_ring \/ i = n
               /\ \A i \in DOMAIN cmd_ring : i < n /\ i \in DOMAIN cmd_ring' /\ i \in Nat
               /\ \A i \in DOMAIN cmd_ring : cmd_ring'[i].slot = cmd_ring[i].slot
               /\ \A c : \A i \in DOMAIN cmd_ring : Asked(i, c)' <=> Asked(i, c)
    BY <1>x, <1>c, <2>3
  <2>7. PlainEnables'
    BY <2>5, <2>6 DEF PlainEnables
  <2>8. ~AwaitsEnable' /\ current_port' # None
    BY <1>s, <2>2, <2>3, <2>4 DEF AwaitsEnable
  <2>9. NothingStray'
    BY <2>8 DEF NothingStray
  <2>10. AddressInOrder'
    <3>1. \A i \in DOMAIN eventq' : ~Done(i, "AddressDevice")'
      BY <1>e, <2>5 DEF NoneAsked
    <3>2. \A i \in DOMAIN cmd_ring' : Asked(i, "AddressDevice")' => i = n
      BY <2>5, <2>6 DEF NoneAsked
    <3>3. \A j \in DOMAIN cmd_ring' : ~(n < j)
      BY <2>6
    <3> QED BY <2>3, <2>4, <2>6, <3>1, <3>2, <3>3 DEF AddressInOrder
  <2>11. AwaitedComes'
    BY <2>6, <2>8 DEF AwaitedComes
  <2> QED BY <2>7, <2>9, <2>10, <2>11 DEF CommandInv
<1>4. CASE RequestMaxPacketSize
  <2>1. /\ UNCHANGED <<state, current_port, device_contexts, transfer_ring, cmd_ring, eventq>>
        /\ InFs /\ InFs' /\ pc # "input"
    BY <1>4 DEF RequestMaxPacketSize, KernelAt, InFs
  <2>2. /\ AwaitsEnable' => AwaitsEnable
        /\ AwaitsAddress' => AwaitsAddress
        /\ SomeoneWaits => SomeoneWaits'
    BY <1>s, <2>1 DEF AwaitsEnable, AwaitsAddress, SomeoneWaits
  <2> QED BY <1>q, <2>1, <2>2
<1>5. CASE ReadMaxPacketSize
  <2>1. /\ UNCHANGED <<current_port, device_contexts, transfer_ring, eventq>>
        /\ InFs /\ ~InFs' /\ pc # "input" /\ job.slot \in Slots
        /\ state' = [state EXCEPT ![current_port] = "ADDRESS_DEVICE"]
        /\ cmd_ring' = cmd_ring \/ cmd_ring' = Append(cmd_ring, Cmd("EvaluateContext", job.slot))
    BY <1>5, <1>t DEF ReadMaxPacketSize, KernelAt, InFs, JobType
  <2>2. current_port \in Ports /\ state[current_port] = "ENABLE_SLOT"
    BY <1>o, <1>p, <2>1 DEF HandlerPort
  <2>3. /\ state'[current_port] = "ADDRESS_DEVICE"
        /\ \A q \in Ports : q # current_port => state'[q] = state[q]
    BY <1>t, <2>1, <2>2 DEF StatusType
  <2>4. /\ AwaitsEnable' => AwaitsEnable
        /\ AwaitsAddress' => AwaitsAddress
        /\ SomeoneWaits => SomeoneWaits'
    BY <1>s, <2>1, <2>2, <2>3 DEF AwaitsEnable, AwaitsAddress, SomeoneWaits
  <2> QED BY <1>q, <1>c, <2>1, <2>4
<1>6. CASE OnAddressDevice
  <2> DEFINE st == [state EXCEPT ![current_port] = "GET_DESCRIPTOR"]
             next == LastWaiting(st)
  <2>1. /\ pc = "loop" /\ current_port \in Ports /\ state[current_port] = "ADDRESS_DEVICE"
        /\ 1 \in DOMAIN eventq /\ Done(1, "AddressDevice")
        /\ \A i \in DOMAIN eventq' : i + 1 \in DOMAIN eventq /\ eventq'[i] = eventq[i + 1]
        /\ DOMAIN eventq' \subseteq Nat \ {0}
    BY <1>6, <1>t, TakeFacts DEF OnAddressDevice, Serving, StatusType, Done
  <2>2. /\ current_port' = next
        /\ state' = IF next = None THEN st ELSE [st EXCEPT ![next] = "ENABLE_SLOT"]
        /\ UNCHANGED <<pc, job>>
        /\ cmd_ring' = AskSlotFor(next)
    BY <1>6 DEF OnAddressDevice
  <2>3. /\ st \in [Ports -> DeviceStates] /\ st[current_port] = "GET_DESCRIPTOR"
        /\ \A q \in Ports : q # current_port => st[q] = state[q]
    BY <1>t, <2>1 DEF StatusType, DeviceStates
  <2> HIDE DEF st
  <2>4. /\ WaitingPorts(st) = {} => next = None
        /\ WaitingPorts(st) # {} => next \in WaitingPorts(st)
    BY <1>t, LastWaitingIs DEF StatusType
  <2> HIDE DEF next
  <2>5. NothingStray /\ AddressInOrder /\ AwaitedComes /\ PlainEnables /\ AwaitsAddress
    BY <1>s, <2>1 DEF CommandInv, AwaitsAddress
  <2>6. /\ \A j \in DOMAIN eventq : Done(j, "AddressDevice") => 1 = j
        /\ \A j \in DOMAIN cmd_ring : ~Asked(j, "AddressDevice")
        /\ \A j \in DOMAIN eventq : 1 < j /\ Done(j, "EnableSlot") => SomeoneWaits
        /\ \A j \in DOMAIN cmd_ring : Asked(j, "EnableSlot") => SomeoneWaits
    BY <2>1, <2>5 DEF AddressInOrder
  <2>7. \A i \in DOMAIN eventq' : ~Done(i, "AddressDevice")'
    <3>1. \A i \in DOMAIN eventq' : i + 1 # 1 /\ (Done(i, "AddressDevice")' => Done(i + 1, "AddressDevice"))
      BY <2>1 DEF Done
    <3> QED BY <2>1, <2>6, <3>1
  <2>8. CASE WaitingPorts(st) = {}
    <3>1. next = None /\ current_port' = None /\ cmd_ring' = cmd_ring
      BY <2>2, <2>4, <2>8 DEF AskSlotFor
    <3>2. ~SomeoneWaits
      BY <2>1, <2>3, <2>8 DEF SomeoneWaits, WaitingPorts
    <3>3. \A i \in DOMAIN eventq' : ~Done(i, "EnableSlot")'
      <4>1. \A i \in DOMAIN eventq' : 1 < i + 1 /\ (Done(i, "EnableSlot")' => Done(i + 1, "EnableSlot"))
        BY <2>1 DEF Done
      <4> QED BY <2>1, <2>6, <3>2, <4>1
    <3>4. \A c \in {"EnableSlot", "AddressDevice"} : \A i \in DOMAIN cmd_ring' : ~Asked(i, c)'
      BY <2>6, <3>1, <3>2 DEF Asked
    <3>5. ~AwaitsEnable' /\ ~AwaitsAddress'
      BY <3>1 DEF AwaitsEnable, AwaitsAddress
    <3> QED BY <2>7, <3>1, <3>3, <3>4, <3>5
         DEF CommandInv, PlainEnables, NothingStray, NoneAsked, AddressInOrder, AwaitedComes
  <2>9. CASE WaitingPorts(st) # {}
    <3>1. /\ next \in Ports /\ next # None /\ current_port' = next
          /\ cmd_ring' = Append(cmd_ring, Cmd("EnableSlot", 0))
      BY <1>s, <2>2, <2>4, <2>9 DEF WaitingPorts, AskSlotFor
    <3>2. state'[next] = "ENABLE_SLOT"
      BY <2>2, <2>3, <3>1
    <3>3. PICK n \in Nat :
               /\ n \in DOMAIN cmd_ring' /\ n \notin DOMAIN cmd_ring /\ cmd_ring'[n].slot = 0
               /\ \A c : Asked(n, c)' <=> c = "EnableSlot"
               /\ \A i \in DOMAIN cmd_ring' : i \in DOMAIN cmd_ring \/ i = n
               /\ \A i \in DOMAIN cmd_ring : cmd_ring'[i].slot = cmd_ring[i].slot
               /\ \A c : \A i \in DOMAIN cmd_ring : Asked(i, c)' <=> Asked(i, c)
      BY <1>x, <1>c, <1>s, <3>1
    <3>4. ~AwaitsAddress' /\ current_port' # None
      BY <2>1, <2>2, <3>1, <3>2 DEF AwaitsAddress, InFs
    <3>5. NothingStray'
      BY <2>6, <2>7, <3>3, <3>4 DEF NothingStray, NoneAsked
    <3>6. PlainEnables'
      BY <2>5, <3>3 DEF PlainEnables
    <3> QED BY <3>3, <3>4, <3>5, <3>6 DEF CommandInv, AddressInOrder, AwaitedComes
  <2> QED BY <2>8, <2>9
<1>7. CASE OnOtherCommand
  <2>1. /\ pc = "loop"
        /\ ~(Done(1, "EnableSlot") /\ Serving("ENABLE_SLOT"))
        /\ ~(Done(1, "AddressDevice") /\ Serving("ADDRESS_DEVICE"))
    BY <1>7, <1>t, TakeFacts DEF OnOtherCommand, Done
  <2>2. UNCHANGED <<pc, current_port, state, device_contexts, transfer_ring, cmd_ring>>
    BY <1>7 DEF OnOtherCommand
  <2>3. /\ AwaitsEnable' => AwaitsEnable
        /\ AwaitsAddress' => AwaitsAddress
        /\ SomeoneWaits => SomeoneWaits'
        /\ AwaitsEnable => ~Done(1, "EnableSlot")
        /\ AwaitsAddress => ~Done(1, "AddressDevice")
    BY <1>s, <2>1, <2>2 DEF AwaitsEnable, AwaitsAddress, SomeoneWaits, InFs, Serving
  <2> QED BY <1>q, <2>1, <2>2, <2>3
<1>8. CASE RequestConfiguration \/ ReadConfigurationHeader
  <2>1. /\ UNCHANGED <<state, current_port, device_contexts, transfer_ring, cmd_ring, eventq>>
        /\ ~InFs /\ ~InFs' /\ pc # "input"
    BY <1>8 DEF RequestConfiguration, ReadConfigurationHeader, KernelAt, InFs
  <2>2. /\ AwaitsEnable' => AwaitsEnable
        /\ AwaitsAddress' => AwaitsAddress
        /\ SomeoneWaits => SomeoneWaits'
    BY <1>s, <2>1 DEF AwaitsEnable, AwaitsAddress, SomeoneWaits
  <2> QED BY <1>q, <2>1, <2>2
<1>9. CASE ParseConfiguration
  <2>1. InConf /\ job.port \in Ports /\ job.slot \in Slots /\ pc # "input" /\ ~InFs /\ ~InFs'
    BY <1>9, <1>t DEF ParseConfiguration, KernelAt, InConf, InFs, JobType
  <2>2. state[job.port] \in {"GET_DESCRIPTOR", "END_OF_INITIALIZE"}
    BY <1>o, <2>1 DEF HandlerPort
  <2>3. /\ UNCHANGED <<current_port, device_contexts, transfer_ring, eventq>>
        /\ state' = [state EXCEPT ![job.port] = "END_OF_INITIALIZE"]
        /\ cmd_ring' = cmd_ring \/ cmd_ring' = Append(cmd_ring, Cmd("ConfigureEndpoint", job.slot))
    BY <1>9 DEF ParseConfiguration
  <2>4. /\ state'[job.port] = "END_OF_INITIALIZE"
        /\ \A q \in Ports : q # job.port => state'[q] = state[q]
    BY <1>t, <2>1, <2>3 DEF StatusType
  <2>5. /\ AwaitsEnable' => AwaitsEnable
        /\ AwaitsAddress' => AwaitsAddress
        /\ SomeoneWaits => SomeoneWaits'
    BY <1>s, <1>p, <2>1, <2>2, <2>3, <2>4 DEF AwaitsEnable, AwaitsAddress, SomeoneWaits
  <2> QED BY <1>q, <1>c, <2>1, <2>3, <2>5
<1>10. CASE ReturnToMain \/ read_usb_keyboard
  <2>1. pc' = "input" /\ cmd_ring' = cmd_ring
    BY <1>10 DEF ReturnToMain, read_usb_keyboard, KernelAt
  <2> QED BY <2>1 DEF CommandInv, PlainEnables, Asked
<1> QED BY <1>1, <1>2, <1>3, <1>4, <1>5, <1>6, <1>7, <1>8, <1>9, <1>10 DEF Kernel

\* A step that changes nothing keeps the commands.
LEMMA StutterCommand == ASSUME CommandInv, UNCHANGED vars PROVE CommandInv'
<1>1. machine' = machine
  BY DEF vars
<1>2. Ports' = Ports /\ Slots' = Slots
  BY <1>1, SameMachine
<1> QED BY <1>2 DEF vars, CommandInv, PlainEnables, NothingStray, NoneAsked, AddressInOrder,
                    AwaitedComes, AwaitsEnable, AwaitsAddress, SomeoneWaits, Done, Asked, InFs

\* While ports are enumerated, no command, completion or turn goes astray.
THEOREM CommandsHold == Spec => []CommandInv
<1>1. Known /\ TurnInv /\ CommandInv /\ [Next]_vars => CommandInv'
  BY KnownStep, TurnStep, ControllerCommand, KernelCommand, StutterCommand DEF Next
<1>2. Spec => []Known
  BY KnownHolds DEF Known
<1> QED BY InitCommand, <1>1, <1>2, TurnHolds, PTL DEF Spec

\* A port whose turn it is has its completion ahead, so that the turn ends,
\* and usb_process_events never looks at a completed Enable Slot or Address
\* Device Command while no port has its turn, where it would index
\* device_status out of bounds.
THEOREM TurnsEnd == Spec => []TurnMatchesCompletions
<1>1. Known /\ TurnInv /\ CommandInv => TurnMatchesCompletions
  <2> SUFFICES ASSUME Known, TurnInv, CommandInv PROVE TurnWillEnd /\ CompletionHasPort
    BY DEF TurnMatchesCompletions
  <2>1. CompletionHasPort
    <3> SUFFICES ASSUME pc = "loop", eventq # <<>>, Head(eventq).type = "Command",
                        Head(eventq).cmd \in {"EnableSlot", "AddressDevice"}, current_port = None
                 PROVE  FALSE
      BY DEF CompletionHasPort
    <3>1. 1 \in DOMAIN eventq /\ Head(eventq) = eventq[1]
      BY HeadFields DEF Known, TypeInv
    <3> QED BY <3>1 DEF CommandInv, NothingStray, NoneAsked, Done
  <2>2. TurnWillEnd
    <3> SUFFICES ASSUME pc = "loop", current_port # None, ~portsc[current_port].pulled
                 PROVE  InFlight(IF state[current_port] = "ENABLE_SLOT" THEN Cmd("EnableSlot", 0)
                                 ELSE Cmd("AddressDevice", transfer_ring[current_port]))
      BY DEF TurnWillEnd
    <3>1. /\ current_port \in Ports /\ ~InFs
          /\ state[current_port] \in {"ENABLE_SLOT", "ADDRESS_DEVICE"}
      BY DEF Known, TypeInv, StatusType, TurnInv, OneAtATime, InFs
    <3>2. AddressInOrder /\ AwaitedComes /\ PlainEnables
      BY DEF CommandInv
    <3>3. ASSUME NEW i \in DOMAIN cmd_ring PROVE cmd_ring[i] = Cmd(cmd_ring[i].cmd, cmd_ring[i].slot)
      <4> DEFINE C == [cmd : Commands, slot : Slots]
      <4>1. cmd_ring \in Seq(C) /\ \A c \in C : c = [cmd |-> c.cmd, slot |-> c.slot]
        BY DEF Known, TypeInv, QueueType
      <4> HIDE DEF C
      <4>2. cmd_ring[i] \in C
        BY <4>1
      <4> QED BY <4>1, <4>2 DEF Cmd
    <3>4. CASE state[current_port] = "ENABLE_SLOT"
      <4>1. \/ \E i \in DOMAIN eventq : Done(i, "EnableSlot")
            \/ \E i \in DOMAIN cmd_ring : Asked(i, "EnableSlot")
        BY <3>1, <3>2, <3>4 DEF AwaitedComes, AwaitsEnable
      <4>2. \A i \in DOMAIN eventq : Done(i, "EnableSlot") => Completes(eventq[i], Cmd("EnableSlot", 0))
        BY DEF Done, Completes, Cmd
      <4>3. \A i \in DOMAIN cmd_ring : Asked(i, "EnableSlot") => cmd_ring[i] = Cmd("EnableSlot", 0)
        BY <3>2, <3>3 DEF Asked, PlainEnables
      <4>4. InFlight(Cmd("EnableSlot", 0))
        BY <4>1, <4>2, <4>3, Zenon DEF InFlight
      <4> QED BY <3>4, <4>4
    <3>5. CASE state[current_port] # "ENABLE_SLOT"
      <4> DEFINE c == Cmd("AddressDevice", transfer_ring[current_port])
      <4>1. AwaitsAddress
        BY <3>1, <3>5 DEF AwaitsAddress
      <4>2. \/ \E i \in DOMAIN eventq : Done(i, "AddressDevice")
            \/ \E i \in DOMAIN cmd_ring : Asked(i, "AddressDevice")
        BY <3>2, <4>1 DEF AwaitedComes
      <4>3. \A i \in DOMAIN eventq : Done(i, "AddressDevice") => Completes(eventq[i], c)
        <5>1. c.cmd = "AddressDevice" /\ c.slot = transfer_ring[current_port]
          BY DEF Cmd
        <5> HIDE DEF c
        <5> QED BY <3>2, <4>1, <5>1 DEF Done, Completes, AddressInOrder
      <4>4. \A i \in DOMAIN cmd_ring : Asked(i, "AddressDevice") => cmd_ring[i] = c
        BY <3>2, <3>3, <4>1 DEF Asked, AddressInOrder
      <4> HIDE DEF c
      <4>5. InFlight(c)
        BY <4>2, <4>3, <4>4, Zenon DEF InFlight
      <4> QED BY <3>5, <4>5 DEF c
    <3> QED BY <3>4, <3>5
  <2> QED BY <2>1, <2>2
<1>2. Spec => []Known
  BY KnownHolds DEF Known
<1> QED BY <1>1, <1>2, TurnHolds, CommandsHold, PTL

----------------------------------------------------------------------------
\* A port that got a slot got a real one, as long as slots do not run out, and
\* the handler that is cut for a full-speed port works for the port in turn.
RealSlots ==
  ScratchpadKept =>
    /\ \A p \in Ports : state[p] \in {"ADDRESS_DEVICE", "GET_DESCRIPTOR", "END_OF_INITIALIZE"}
                          => transfer_ring[p] # 0
    /\ InFs => job.port = current_port /\ transfer_ring[current_port] # 0

OwnBuffer ==
  ScratchpadKept =>
    \A s \in Slots : \A i \in DOMAIN tds[s] :
      "req" \in DOMAIN tds[s][i] => tds[s][i].port = device_contexts[s]

\* The port has not used its device descriptor yet, and was never pulled out.
Early(p) == ~portsc[p].pulled /\ state[p] # "END_OF_INITIALIZE" /\ ~(InConf /\ job.port = p)

\* Configuration descriptors are asked for only once the device descriptor
\* has been used.
ConfigLater ==
  \A p \in Ports : Early(p) =>
      /\ buf[p].desc # "config"
      /\ \A s \in Slots : \A i \in DOMAIN tds[s] :
           "req" \in DOMAIN tds[s][i] /\ tds[s][i].port = p => tds[s][i].req.desc # "config"

TransferInv == RealSlots /\ OwnBuffer /\ ConfigLater

\* No transfer is queued yet.
LEMMA InitTransfer == Init => TransferInv
  BY DEF Init, TransferInv, RealSlots, OwnBuffer, ConfigLater, InFs, Zeroes, DeviceStates

\* The controller executes transfers in order and fills their own buffers.
LEMMA ControllerTransfer ==
  ASSUME Known, Known', TurnInv, TransferInv, Controller
  PROVE  TransferInv'
<1> USE DEF statusVars, ctrlVars
<1>l. UNCHANGED <<state, current_port, device_contexts, transfer_ring, keyboard, pc, job, machine>>
  BY ControllerLeaves
<1>s. Ports' = Ports /\ Slots' = Slots
  BY <1>l, SameMachine
<1>t. QueueType /\ StatusType
  BY DEF Known, TypeInv
<1>p. \A p \in Ports : portsc[p].pulled => portsc'[p].pulled
  BY ControllerTurn DEF Known
<1>d. ASSUME NEW s \in Slots, NEW i \in DOMAIN tds'[s]
      PROVE  \E j \in DOMAIN tds[s] : tds'[s][i] = tds[s][j]
  <2>1. tds[s] \in Seq(Requests)
    BY <1>t DEF QueueType
  <2>2. CASE tds'[s] = tds[s]
    BY <2>2
  <2>3. CASE tds[s] # <<>> /\ tds'[s] = Tail(tds[s])
    <3>1. \A k \in DOMAIN Tail(tds[s]) : k + 1 \in DOMAIN tds[s] /\ Tail(tds[s])[k] = tds[s][k + 1]
      BY <2>1, <2>3, TailIndex
    <3> QED BY <2>3, <3>1
  <2> QED BY <2>2, <2>3, ControllerQueues DEF Known
<1>1. RealSlots'
  BY <1>l, <1>s DEF TransferInv, RealSlots, ScratchpadKept, InFs
<1>2. OwnBuffer'
  BY <1>l, <1>s, <1>d DEF TransferInv, OwnBuffer, ScratchpadKept
<1>3. ConfigLater'
  <2>1. SUFFICES ASSUME NEW p \in Ports, Early(p)'
                 PROVE  /\ buf'[p].desc # "config"
                        /\ \A s \in Slots : \A i \in DOMAIN tds'[s] :
                             "req" \in DOMAIN tds'[s][i] /\ tds'[s][i].port = p
                               => tds'[s][i].req.desc # "config"
    BY <1>s DEF ConfigLater
  <2>2. Early(p)
    BY <1>l, <1>p, <2>1 DEF Early, InConf
  <2>3. /\ buf[p].desc # "config"
        /\ \A s \in Slots : \A i \in DOMAIN tds[s] :
             "req" \in DOMAIN tds[s][i] /\ tds[s][i].port = p => tds[s][i].req.desc # "config"
    BY <2>2 DEF TransferInv, ConfigLater
  <2>4. buf'[p].desc # "config"
    <3>1. CASE buf' = buf
      BY <2>3, <3>1
    <3>2. ASSUME NEW s \in Slots, ExecTransfer(s) PROVE buf'[p].desc # "config"
      <4>1. tds[s] \in Seq(Requests) /\ tds[s] # <<>>
        BY <1>t, <3>2 DEF QueueType, ExecTransfer, Runnable
      <4>2. 1 \in DOMAIN tds[s] /\ Head(tds[s]) = tds[s][1]
        BY <4>1
      <4>3. buf' = buf \/ (/\ "req" \in DOMAIN tds[s][1]
                           /\ buf' = [buf EXCEPT ![tds[s][1].port] = tds[s][1].req])
        BY <3>2, <4>2 DEF ExecTransfer
      <4> QED BY <1>t, <2>3, <3>1, <4>2, <4>3 DEF StatusType
    <3> QED BY <3>1, <3>2 DEF Controller, Attach, Detach, ResetDone, ExecEnableSlot,
                              ExecAddressDevice, ExecOther, FailTransfer
  <2> QED BY <1>d, <2>3, <2>4
<1> QED BY <1>1, <1>2, <1>3 DEF TransferInv

\* What the kernel does to ports that still await their device descriptor,
\* and to the scratchpad entry.
LEMMA KernelEarly ==
  ASSUME Known, Known', TurnInv, Kernel
  PROVE  /\ \A p \in Ports : Early(p)' => Early(p)
         /\ ScratchpadKept' => ScratchpadKept
         /\ buf' = buf
<1> USE DEF statusVars, ctrlVars
<1>m. machine' = machine
  BY MachineStays DEF Next
<1>t. StatusType /\ QueueType /\ JobType
  BY DEF Known, TypeInv
<1>f. MovesForward
  BY KernelTurn DEF Known
<1>k. \A p \in Ports : portsc'[p].pulled = portsc[p].pulled
  BY KernelLeaves
<1>1. InConf => (InConf' /\ job'.port = job.port) \/ state'[job.port] = "END_OF_INITIALIZE"
  <2> SUFFICES ASSUME InConf
               PROVE  (InConf' /\ job'.port = job.port) \/ state'[job.port] = "END_OF_INITIALIZE"
    OBVIOUS
  <2>1. RequestConfiguration \/ ReadConfigurationHeader \/ ParseConfiguration
    BY DEF Kernel, OnPortEnabled, OnPortDisabled, OnEnableSlot, OnAddressDevice, OnOtherCommand,
           OnDescriptor, OnOtherTransfer, RequestMaxPacketSize, ReadMaxPacketSize,
           ReturnToMain, read_usb_keyboard, Take, KernelAt, InConf
  <2>2. CASE RequestConfiguration \/ ReadConfigurationHeader
    BY <1>t, <2>2 DEF RequestConfiguration, ReadConfigurationHeader, InConf, JobType
  <2>3. CASE ParseConfiguration
    BY <1>t, <2>3 DEF ParseConfiguration, StatusType, JobType
  <2> QED BY <2>1, <2>2, <2>3
<1>2. ASSUME NEW p \in Ports, Early(p)' PROVE Early(p)
  BY <1>f, <1>k, <1>1, <1>2 DEF Early, MovesForward, Forward
<1>3. ScratchpadKept' => ScratchpadKept
  <2>1. CASE device_contexts' = device_contexts
    BY <2>1 DEF ScratchpadKept
  <2>2. CASE OnEnableSlot
    <3>1. PICK s \in Slots : s = Head(eventq).slot
      BY <1>t, <2>2, TakeFacts DEF OnEnableSlot
    <3>2. device_contexts' = [device_contexts EXCEPT ![s] = current_port] /\ current_port \in Ports
      BY <1>t, <2>2, <3>1 DEF OnEnableSlot, Serving, StatusType
    <3>3. current_port # Scratchpad /\ 0 \in Slots
      BY <1>t, <3>2, Numbers DEF StatusType
    <3> QED BY <1>t, <3>2, <3>3 DEF ScratchpadKept, StatusType
  <2> QED BY <2>1, <2>2, KernelLeaves
<1>4. buf' = buf
  BY DEF Kernel, OnPortEnabled, OnPortDisabled, OnEnableSlot, RequestMaxPacketSize,
         ReadMaxPacketSize, OnAddressDevice, OnOtherCommand, OnDescriptor, OnOtherTransfer,
         RequestConfiguration, ReadConfigurationHeader, ParseConfiguration, ReturnToMain,
         read_usb_keyboard
<1> QED BY <1>2, <1>3, <1>4

\* A handler queues its transfers for the slot and the buffer of its port.
LEMMA KernelTransfer ==
  ASSUME Known, Known', TurnInv, SlotInv, CommandInv, TransferInv, Kernel
  PROVE  TransferInv'
<1> USE DEF statusVars, ctrlVars
<1>m. machine' = machine
  BY MachineStays DEF Next
<1>s. Ports' = Ports /\ Slots' = Slots /\ 0 \in Slots /\ None \notin Ports
      /\ NoPort \notin Ports /\ Scratchpad \notin Ports
  BY <1>m, SameMachine, Numbers DEF Known, TypeInv, StatusType
<1>t. StatusType /\ QueueType /\ JobType /\ ControllerType
  BY DEF Known, TypeInv
<1>o. OneAtATime /\ HandlerPort /\ SlotsMatchPorts /\ RealSlots /\ OwnBuffer /\ ConfigLater
  BY DEF TurnInv, SlotInv, TransferInv
<1>b. /\ \A p \in Ports : Early(p)' => Early(p)
      /\ ScratchpadKept' => ScratchpadKept
      /\ buf' = buf
  BY KernelEarly
\* Steps that queue no transfer, and steps that queue one.
<1>d. ASSUME tds' = tds PROVE ConfigLater' /\ (device_contexts' = device_contexts => OwnBuffer')
  BY <1>d, <1>s, <1>o, <1>b DEF ConfigLater, OwnBuffer
<1>q. ASSUME device_contexts' = device_contexts, NEW ring \in Slots, NEW s \in Slots,
             NEW td \in Requests, QueueTransfer(ring, s, td),
             ScratchpadKept /\ "req" \in DOMAIN td => td.port = device_contexts[ring],
             \A p \in Ports : Early(p)' /\ "req" \in DOMAIN td /\ td.port = p
                                => td.req.desc # "config"
      PROVE  OwnBuffer' /\ ConfigLater'
  <2>1. /\ \A t \in Slots : t # ring => tds'[t] = tds[t]
        /\ \A i \in DOMAIN tds'[ring] :
              (i \in DOMAIN tds[ring] /\ tds'[ring][i] = tds[ring][i]) \/ tds'[ring][i] = td
    BY ONLY <1>t, <1>q, WriteTransfer
  <2>2. ASSUME NEW t \in Slots, NEW i \in DOMAIN tds'[t]
        PROVE  (i \in DOMAIN tds[t] /\ tds'[t][i] = tds[t][i]) \/ (t = ring /\ tds'[t][i] = td)
    BY <2>1, <2>2
  <2>3. OwnBuffer'
    BY <1>q, <1>s, <1>o, <1>b, <2>2 DEF OwnBuffer
  <2>4. ConfigLater'
    <3>1. SUFFICES ASSUME NEW p \in Ports, Early(p)'
                   PROVE  /\ buf'[p].desc # "config"
                          /\ \A t \in Slots : \A i \in DOMAIN tds'[t] :
                               "req" \in DOMAIN tds'[t][i] /\ tds'[t][i].port = p
                                 => tds'[t][i].req.desc # "config"
      BY <1>s DEF ConfigLater
    <3>2. /\ buf[p].desc # "config"
          /\ \A t \in Slots : \A i \in DOMAIN tds[t] :
               "req" \in DOMAIN tds[t][i] /\ tds[t][i].port = p => tds[t][i].req.desc # "config"
      BY <1>o, <1>b, <3>1 DEF ConfigLater
    <3> QED BY <1>q, <1>b, <2>2, <3>1, <3>2
  <2> QED BY <2>3, <2>4
\* Ports keep their slots.
<1>r. ASSUME UNCHANGED <<device_contexts, transfer_ring>>,
             \A p \in Ports : state'[p] \in {"ADDRESS_DEVICE", "GET_DESCRIPTOR", "END_OF_INITIALIZE"}
               => \/ state[p] \in {"ADDRESS_DEVICE", "GET_DESCRIPTOR", "END_OF_INITIALIZE"}
                  \/ InFs /\ p = current_port,
             InFs' => InFs /\ job' = job /\ current_port' = current_port
      PROVE  RealSlots'
  BY <1>r, <1>s, <1>o DEF RealSlots, ScratchpadKept
<1>1. CASE OnPortEnabled \/ OnPortDisabled \/ OnOtherCommand \/ OnDescriptor \/ OnOtherTransfer
           \/ ReturnToMain \/ read_usb_keyboard
  <2>1. UNCHANGED <<device_contexts, transfer_ring, tds>> /\ ~InFs'
    BY <1>1 DEF OnPortEnabled, OnPortDisabled, OnOtherCommand, OnDescriptor, OnOtherTransfer,
                ReturnToMain, read_usb_keyboard, Take, KernelAt, InFs
  <2>2. state' = state \/ (OnPortEnabled /\ state' = [state EXCEPT ![Head(eventq).port] = StateWhenEnabled])
    BY <1>1 DEF OnPortEnabled, OnPortDisabled, OnOtherCommand, OnDescriptor, OnOtherTransfer,
                ReturnToMain, read_usb_keyboard
  <2>3. \A p \in Ports : state'[p] \in {"ADDRESS_DEVICE", "GET_DESCRIPTOR", "END_OF_INITIALIZE"}
          => state[p] \in {"ADDRESS_DEVICE", "GET_DESCRIPTOR", "END_OF_INITIALIZE"}
    BY <1>t, <2>2 DEF StatusType, StateWhenEnabled
  <2> QED BY <1>d, <1>r, <2>1, <2>3 DEF TransferInv
<1>2. CASE OnEnableSlot
  <2>1. PICK s \in Slots : s = Head(eventq).slot
    BY <1>2, <1>t, TakeFacts DEF OnEnableSlot
  <2>2. /\ pc = "loop" /\ current_port \in Ports
        /\ 1 \in DOMAIN eventq /\ Done(1, "EnableSlot") /\ eventq[1].slot = s
    BY <1>2, <1>t, <2>1, TakeFacts DEF OnEnableSlot, Serving, StatusType, Done
  <2>3. /\ device_contexts' = [device_contexts EXCEPT ![s] = current_port]
        /\ transfer_ring' = [transfer_ring EXCEPT ![current_port] = s]
        /\ tds' = [tds EXCEPT ![s] = <<>>]
        /\ current_port' = current_port
        /\ \/ /\ pc' = "fs_req" /\ state' = state
              /\ job' = [NoJob EXCEPT !.slot = s, !.port = IF device_contexts[s] \in Ports
                                                           THEN device_contexts[s] ELSE current_port]
           \/ state' = [state EXCEPT ![current_port] = "ADDRESS_DEVICE"] /\ UNCHANGED pc
    BY <1>2, <2>1 DEF OnEnableSlot
  <2>4. s # 0 => device_contexts[s] = NoPort
    BY <2>2 DEF SlotInv, FreshSlots
  <2>5. /\ device_contexts'[s] = current_port
        /\ \A t \in Slots : t # s => device_contexts'[t] = device_contexts[t]
        /\ tds'[s] = <<>> /\ \A t \in Slots : t # s => tds'[t] = tds[t]
        /\ transfer_ring'[current_port] = s
        /\ \A p \in Ports : p # current_port => transfer_ring'[p] = transfer_ring[p]
        /\ \A p \in Ports : p # current_port => state'[p] = state[p]
    BY <1>t, <2>2, <2>3 DEF StatusType, QueueType
  <2>6. \A t \in Slots : \A i \in DOMAIN tds'[t] : t # s /\ i \in DOMAIN tds[t] /\ tds'[t][i] = tds[t][i]
    BY <2>5
  <2>7. OwnBuffer' /\ ConfigLater'
    BY <1>s, <1>o, <1>b, <2>5, <2>6 DEF OwnBuffer, ConfigLater
  <2>8. RealSlots'
    <3>1. SUFFICES ASSUME ScratchpadKept' PROVE RealSlots'
      BY DEF RealSlots
    <3>2. s # 0 /\ ScratchpadKept
      BY <1>s, <1>b, <2>2, <2>5, <3>1 DEF ScratchpadKept
    <3>3. InFs' => job'.port = current_port /\ transfer_ring'[current_port] # 0
      <4>1. CASE UNCHANGED pc
        BY <2>2, <4>1 DEF InFs
      <4>2. CASE job' = [NoJob EXCEPT !.slot = s, !.port = current_port]
        BY <2>5, <3>2, <4>2 DEF NoJob
      <4> QED BY <1>s, <2>3, <2>4, <3>2, <4>1, <4>2
    <3>4. \A p \in Ports : state'[p] \in {"ADDRESS_DEVICE", "GET_DESCRIPTOR", "END_OF_INITIALIZE"}
                             => transfer_ring'[p] # 0
      BY <1>o, <2>5, <3>2 DEF RealSlots
    <3> QED BY <1>s, <2>3, <3>3, <3>4 DEF RealSlots
  <2> QED BY <2>7, <2>8 DEF TransferInv
<1>3. CASE RequestMaxPacketSize
  <2>1. /\ job.port \in Ports /\ job.slot \in Slots /\ transfer_ring[job.port] \in Slots /\ InFs
    BY <1>3, <1>t DEF RequestMaxPacketSize, KernelAt, JobType, InFs, StatusType
  <2>2. /\ UNCHANGED <<state, current_port, device_contexts, transfer_ring, job>>
        /\ QueueTransfer(transfer_ring[job.port], job.slot, [req |-> Device8, port |-> job.port])
    BY <1>3 DEF RequestMaxPacketSize
  <2>3. PICK td \in Requests : td = [req |-> Device8, port |-> job.port]
    BY <2>1, ContentsIn DEF Requests
  <2>4. td.port = job.port /\ td.req.desc # "config"
    BY <2>3 DEF Device8
  <2>5. ScratchpadKept => device_contexts[transfer_ring[job.port]] = job.port
    BY <1>o, <2>1 DEF RealSlots, SlotsMatchPorts
  <2>6. OwnBuffer' /\ ConfigLater'
    BY <1>q, <2>1, <2>2, <2>3, <2>4, <2>5
  <2>7. RealSlots'
    BY <1>r, <2>1, <2>2
  <2> QED BY <2>6, <2>7 DEF TransferInv
<1>4. CASE ReadMaxPacketSize
  <2>1. /\ UNCHANGED <<device_contexts, transfer_ring, tds>>
        /\ InFs /\ ~InFs'
        /\ state' = [state EXCEPT ![current_port] = "ADDRESS_DEVICE"]
    BY <1>4 DEF ReadMaxPacketSize, KernelAt, InFs
  <2>2. \A q \in Ports : q # current_port => state'[q] = state[q]
    BY <1>t, <2>1 DEF StatusType
  <2> QED BY <1>d, <1>r, <2>1, <2>2 DEF TransferInv
<1>5. CASE OnAddressDevice
  <2> DEFINE st == [state EXCEPT ![current_port] = "GET_DESCRIPTOR"]
             next == LastWaiting(st)
  <2>1. PICK s \in Slots : s = Head(eventq).slot
    BY <1>5, <1>t, TakeFacts DEF OnAddressDevice
  <2>2. /\ pc = "loop" /\ current_port \in Ports /\ state[current_port] = "ADDRESS_DEVICE"
        /\ 1 \in DOMAIN eventq /\ Done(1, "AddressDevice") /\ eventq[1].slot = s
    BY <1>5, <1>t, <2>1, TakeFacts DEF OnAddressDevice, Serving, StatusType, Done
  <2>3. /\ QueueTransfer(transfer_ring[device_contexts[s]], s, [req |-> Device, port |-> current_port])
        /\ state' = IF next = None THEN st ELSE [st EXCEPT ![next] = "ENABLE_SLOT"]
        /\ UNCHANGED <<device_contexts, transfer_ring, pc, job>>
    BY <1>5, <2>1 DEF OnAddressDevice, DescriptorBuffer
  <2>4. /\ s = transfer_ring[current_port] /\ device_contexts[s] = current_port
        /\ transfer_ring[device_contexts[s]] = s
    BY <1>s, <2>2 DEF CommandInv, AddressInOrder, AwaitsAddress
  <2>5. PICK td \in Requests : td = [req |-> Device, port |-> current_port]
    BY <2>2, ContentsIn DEF Requests
  <2>6. td.port = current_port /\ td.req.desc # "config"
    BY <2>5 DEF Device
  <2>7. OwnBuffer' /\ ConfigLater'
    BY <1>q, <2>3, <2>4, <2>5, <2>6
  <2>8. \A p \in Ports : state'[p] \in {"ADDRESS_DEVICE", "GET_DESCRIPTOR", "END_OF_INITIALIZE"}
          => state[p] \in {"ADDRESS_DEVICE", "GET_DESCRIPTOR", "END_OF_INITIALIZE"}
    <3>1. \A p \in Ports : st[p] = state[p] \/ p = current_port
      BY <1>t DEF StatusType
    <3>2. st \in [Ports -> DeviceStates]
      BY <1>t DEF StatusType, DeviceStates
    <3> HIDE DEF st, next
    <3>3. \A p \in Ports : state'[p] = st[p] \/ state'[p] = "ENABLE_SLOT"
      BY <2>3, <3>2
    <3> QED BY <2>2, <3>1, <3>3
  <2>9. RealSlots'
    BY <1>r, <2>2, <2>3, <2>8 DEF InFs
  <2> QED BY <2>7, <2>9 DEF TransferInv
<1>6. CASE RequestConfiguration
  <2>1. /\ job.port \in Ports /\ job.slot \in Slots /\ transfer_ring[job.port] \in Slots
        /\ job.index \in 0 .. NumConfigs /\ InConf /\ InConf' /\ ~InFs'
    BY <1>6, <1>t, ModeAssumption
       DEF RequestConfiguration, KernelAt, JobType, InConf, InFs, StatusType
  <2>2. /\ UNCHANGED <<state, device_contexts, transfer_ring, job>>
        /\ QueueTransfer(transfer_ring[job.port], job.slot,
                         [req |-> Config(job.index), port |-> job.port])
    BY <1>6 DEF RequestConfiguration
  <2>3. PICK td \in Requests : td = [req |-> Config(job.index), port |-> job.port]
    BY <2>1, ContentsIn DEF Requests
  <2>4. td.port = job.port
    BY <2>3
  <2>5. ScratchpadKept => device_contexts[transfer_ring[job.port]] = job.port
    BY <1>o, <2>1 DEF RealSlots, SlotsMatchPorts, HandlerPort
  <2>6. \A p \in Ports : Early(p)' => p # job.port
    BY <2>1, <2>2 DEF Early
  <2>7. OwnBuffer' /\ ConfigLater'
    BY <1>q, <2>1, <2>2, <2>3, <2>4, <2>5, <2>6
  <2>8. RealSlots'
    BY <1>r, <2>1, <2>2
  <2> QED BY <2>7, <2>8 DEF TransferInv
<1>7. CASE ReadConfigurationHeader
  <2>1. UNCHANGED <<state, device_contexts, transfer_ring, tds>> /\ ~InFs'
    BY <1>7 DEF ReadConfigurationHeader, InFs
  <2> QED BY <1>d, <1>r, <2>1 DEF TransferInv
<1>8. CASE ParseConfiguration
  <2>1. /\ job.port \in Ports /\ job.slot \in Slots /\ transfer_ring[job.port] \in Slots
        /\ job.hdr \in Contents /\ job.index \in Nat /\ InConf /\ ~InFs'
    BY <1>8, <1>t DEF ParseConfiguration, KernelAt, JobType, InConf, InFs, StatusType
  <2>2. /\ UNCHANGED <<device_contexts, transfer_ring>>
        /\ \/ tds' = tds
           \/ QueueTransfer(transfer_ring[job.port], job.slot,
                            [setconf |-> job.hdr, index |-> job.index])
        /\ state' = [state EXCEPT ![job.port] = "END_OF_INITIALIZE"]
    BY <1>8 DEF ParseConfiguration
  <2>3. PICK td \in Requests : td = [setconf |-> job.hdr, index |-> job.index]
    BY <2>1 DEF Requests
  <2>4. "req" \notin DOMAIN td
    BY <2>3
  <2>5. OwnBuffer' /\ ConfigLater'
    BY <1>q, <1>d, <2>1, <2>2, <2>3, <2>4
  <2>6. \A p \in Ports : state'[p] \in {"ADDRESS_DEVICE", "GET_DESCRIPTOR", "END_OF_INITIALIZE"}
          => state[p] \in {"ADDRESS_DEVICE", "GET_DESCRIPTOR", "END_OF_INITIALIZE"}
    BY <1>t, <1>o, <2>1, <2>2 DEF StatusType, HandlerPort
  <2>7. RealSlots'
    BY <1>r, <2>1, <2>2, <2>6
  <2> QED BY <2>5, <2>7 DEF TransferInv
<1> QED BY <1>1, <1>2, <1>3, <1>4, <1>5, <1>6, <1>7, <1>8 DEF Kernel

\* A step that changes nothing keeps the transfers.
LEMMA StutterTransfer == ASSUME TransferInv, UNCHANGED vars PROVE TransferInv'
<1>1. machine' = machine
  BY DEF vars
<1>2. Ports' = Ports /\ Slots' = Slots
  BY <1>1, SameMachine
<1> QED BY <1>2 DEF vars, TransferInv, RealSlots, OwnBuffer, ConfigLater, Early, ScratchpadKept,
                    InFs, InConf

\* Every queued or answered transfer is one its own port asked for.
THEOREM TransfersHold == Spec => []TransferInv
<1>1. Known /\ TurnInv /\ SlotInv /\ CommandInv /\ TransferInv /\ [Next]_vars => TransferInv'
  BY KnownStep, ControllerTransfer, KernelTransfer, StutterTransfer DEF Next
<1>2. Spec => []Known
  BY KnownHolds DEF Known
<1> QED BY InitTransfer, <1>1, <1>2, TurnHolds, SlotsHold, CommandsHold, PTL DEF Spec

\* A device's descriptors are written to the buffer of its own port, and a
\* device descriptor that is awaited is not overwritten, as long as
\* handle_enable_slot has not taken slot 0, the report that slots have run
\* out, for a slot.
THEOREM TransfersKeepToOwnBuffer == Spec => [](ScratchpadKept => TransfersToOwnBuffer)
<1>1. TransferInv => (ScratchpadKept => TransfersToOwnBuffer)
  BY DEF TransferInv, OwnBuffer, ConfigLater, Early, TransfersToOwnBuffer, InConf
<1> QED BY TransfersHold, <1>1, PTL

----------------------------------------------------------------------------
(* How many commands are on their way, and how many slots are enabled.     *)

\* The events that complete a command c; the entries of the command ring that
\* are c; and how many there are of both.
Completions(c) == {i \in DOMAIN eventq : Done(i, c)}
Entries(c) == {i \in DOMAIN cmd_ring : Asked(i, c)}
Count(c) == Cardinality(Completions(c)) + Cardinality(Entries(c))

\* The command ring behind the event ring: the commands in the order in which
\* the kernel sees their completions.
Places == 1 .. Len(eventq) + Len(cmd_ring)
At(k, c) == IF k <= Len(eventq) THEN Done(k, c) ELSE Asked(k - Len(eventq), c)

\* Ports that have asked for a slot, that have had a turn, that are done.
Begun == {p \in Ports : state[p] # "RESET"}
Turned == {p \in Ports : state[p] \notin {"RESET", "WAIT_ENABLE_SLOT"}}
Ended == {p \in Ports : state[p] = "END_OF_INITIALIZE"}

\* A machine no device of which is pulled out, with slots enough.
Roomy == Replug = {} /\ NumSlots >= 2 * NumPorts - 1

\* Each port asks for one slot, and for one more when its turn is passed on to
\* it; the first one has its turn at once.
SlotsAsked ==
  nslots + Cardinality(Entries("EnableSlot"))
    <= IF Begun = {} THEN 0 ELSE Cardinality(Begun) + Cardinality(Turned) - 1

\* Every Enable Slot Command succeeds.
SlotsGiven ==
  /\ ScratchpadKept
  /\ \A i \in DOMAIN eventq : Done(i, "EnableSlot") => eventq[i].slot # 0

\* Enable Slot Commands: one for each port, and one less once one is used.
EnablesFit ==
  /\ AwaitsEnable => Count("EnableSlot") <= Cardinality(Begun)
  /\ AwaitsAddress => Count("EnableSlot") + 1 <= Cardinality(Begun)

\* A keyboard with one configuration is configured once.
ConfiguresFit ==
  NumConfigs <= 1 =>
    /\ Count("ConfigureEndpoint") <= Cardinality(Ended)
    /\ InConf => state[job.port] = "GET_DESCRIPTOR"

\* There is one Evaluate Context Command at most.
OneEvaluate ==
  \A i \in Places : At(i, "EvaluateContext") =>
    Begun # {} /\ \A j \in Places : At(j, "EvaluateContext") => i = j

\* It is behind the Address Device Command of the same port, with no Enable
\* Slot Command in between, so that it is gone before the next slot is used.
EvaluateFirst ==
  \A i, k \in Places : i < k /\ At(i, "EnableSlot") => ~At(k, "EvaluateContext")
EvaluateNext ==
  \A i, j, k \in Places :
    i < j /\ j < k /\ At(i, "AddressDevice") /\ At(j, "EnableSlot") => ~At(k, "EvaluateContext")

EvaluateInOrder ==
  /\ OneEvaluate
  /\ ~AwaitsAddress => EvaluateFirst
  /\ AwaitsAddress => EvaluateNext
  /\ InFs => /\ \A k \in Places : ~At(k, "EvaluateContext")
             /\ \A i, j \in Places : i < j /\ At(i, "AddressDevice") => ~At(j, "EnableSlot")

Limits ==
  /\ SlotsAsked
  /\ pc # "input" => EnablesFit /\ ConfiguresFit /\ EvaluateInOrder

LimitInv == Roomy => (\A p \in Ports : ~portsc[p].pulled) /\ SlotsGiven /\ Limits

\* A set of positions moved down by one, without the first.
LEMMA Shifted ==
  ASSUME NEW S, NEW T, IsFiniteSet(S), S \subseteq Nat \ {0}, T \subseteq Nat \ {0},
         \A i \in T : i + 1 \in S, \A i \in S : i # 1 => i - 1 \in T
  PROVE  /\ IsFiniteSet(T) /\ Cardinality(T) \in Nat /\ Cardinality(S) \in Nat
         /\ 1 \in S => Cardinality(S) = Cardinality(T) + 1
         /\ 1 \notin S => Cardinality(S) = Cardinality(T)
<1> DEFINE U == S \ {1}
<1>1. IsFiniteSet(U) /\ Cardinality(U) = IF 1 \in S THEN Cardinality(S) - 1 ELSE Cardinality(S)
  BY FS_RemoveElement
<1>2. ExistsBijection(U, T)
  <2> DEFINE f == [i \in U |-> i - 1]
  <2>1. f \in [U -> T]
    OBVIOUS
  <2>2. \A i, j \in U : f[i] = f[j] => i = j
    OBVIOUS
  <2>3. \A k \in T : \E i \in U : f[i] = k
    <3> SUFFICES ASSUME NEW k \in T PROVE k + 1 \in U /\ f[k + 1] = k
      OBVIOUS
    <3>1. k + 1 \in U
      OBVIOUS
    <3> QED BY <3>1
  <2> HIDE DEF f, U
  <2>4. f \in Bijection(U, T)
    BY <2>1, <2>2, <2>3 DEF Bijection, Injection, Surjection, IsInjective
  <2> QED BY <2>4 DEF ExistsBijection
<1>3. IsFiniteSet(T) /\ Cardinality(T) = Cardinality(U)
  BY <1>1, <1>2, FS_Bijection
<1>4. Cardinality(T) \in Nat /\ Cardinality(S) \in Nat
  BY <1>3, FS_CardinalityType
<1> QED BY <1>1, <1>3, <1>4

\* The completions and entries of a command are finitely many.
LEMMA CountsFinite ==
  ASSUME QueueType, NEW c
  PROVE  /\ IsFiniteSet(Completions(c)) /\ Cardinality(Completions(c)) \in Nat
         /\ IsFiniteSet(Entries(c)) /\ Cardinality(Entries(c)) \in Nat
         /\ Count(c) \in Nat
         /\ Completions(c) \subseteq Nat \ {0} /\ Entries(c) \subseteq Nat \ {0}
<1>1. DOMAIN eventq = 1 .. Len(eventq) /\ Len(eventq) \in Nat
      /\ DOMAIN cmd_ring = 1 .. Len(cmd_ring) /\ Len(cmd_ring) \in Nat
  BY DEF QueueType
<1>2. IsFiniteSet(1 .. Len(eventq)) /\ IsFiniteSet(1 .. Len(cmd_ring))
  BY <1>1, FS_Interval
<1>3. Completions(c) \in SUBSET (1 .. Len(eventq)) /\ Entries(c) \in SUBSET (1 .. Len(cmd_ring))
  BY <1>1 DEF Completions, Entries
<1>4. IsFiniteSet(Completions(c)) /\ IsFiniteSet(Entries(c))
  BY <1>2, <1>3, FS_Subset
<1>5. Cardinality(Completions(c)) \in Nat /\ Cardinality(Entries(c)) \in Nat
  BY <1>4, FS_CardinalityType
<1>6. Completions(c) \subseteq Nat \ {0} /\ Entries(c) \subseteq Nat \ {0}
  BY <1>1, <1>3
<1> QED BY <1>4, <1>5, <1>6 DEF Count

\* One event more, one event less, one entry more, one entry less.
LEMMA CountPost ==
  ASSUME QueueType, NEW e \in Events, eventq' = Append(eventq, e), NEW c
  PROVE  /\ e.type = "Command" /\ e.cmd = c =>
              Cardinality(Completions(c)') = Cardinality(Completions(c)) + 1
         /\ ~(e.type = "Command" /\ e.cmd = c) => Completions(c)' = Completions(c)
<1>1. IsFiniteSet(Completions(c))
  BY CountsFinite
<1>2. /\ Len(eventq) + 1 \in DOMAIN eventq' /\ eventq'[Len(eventq) + 1] = e
      /\ \A i \in DOMAIN eventq : i \in DOMAIN eventq' /\ eventq'[i] = eventq[i]
      /\ \A i \in DOMAIN eventq' : i \in DOMAIN eventq \/ i = Len(eventq) + 1
      /\ Len(eventq) + 1 \notin DOMAIN eventq
  BY PostEvent
<1>3. ASSUME e.type = "Command" /\ e.cmd = c
      PROVE  Completions(c)' = Completions(c) \cup {Len(eventq) + 1}
  BY <1>2, <1>3 DEF Completions, Done
<1>4. ASSUME ~(e.type = "Command" /\ e.cmd = c)
      PROVE  Completions(c)' = Completions(c)
  BY <1>2, <1>4 DEF Completions, Done
<1>5. Len(eventq) + 1 \notin Completions(c)
  BY <1>2 DEF Completions
<1>6. Cardinality(Completions(c) \cup {Len(eventq) + 1}) = Cardinality(Completions(c)) + 1
  BY <1>1, <1>5, FS_AddElement
<1> QED BY <1>3, <1>4, <1>6

LEMMA CountTake ==
  ASSUME QueueType, eventq # <<>>, eventq' = Tail(eventq), NEW c
  PROVE  /\ Done(1, c) => Cardinality(Completions(c)) = Cardinality(Completions(c)') + 1
         /\ ~Done(1, c) => Cardinality(Completions(c)) = Cardinality(Completions(c)')
<1>1. /\ 1 \in DOMAIN eventq
      /\ \A i \in DOMAIN eventq' : i + 1 \in DOMAIN eventq /\ eventq'[i] = eventq[i + 1]
      /\ \A i \in DOMAIN eventq : i # 1 => i - 1 \in DOMAIN eventq' /\ eventq'[i - 1] = eventq[i]
      /\ DOMAIN eventq' \subseteq Nat \ {0}
  BY TailIndex DEF QueueType
<1>2. /\ \A i \in Completions(c)' : i + 1 \in Completions(c)
      /\ \A i \in Completions(c) : i # 1 => i - 1 \in Completions(c)'
      /\ Completions(c)' \subseteq Nat \ {0}
      /\ 1 \in Completions(c) <=> Done(1, c)
  BY <1>1 DEF Completions, Done
<1>3. IsFiniteSet(Completions(c)) /\ Completions(c) \subseteq Nat \ {0}
  BY CountsFinite
<1> QED BY <1>2, <1>3, Shifted

LEMMA CountWrite ==
  ASSUME QueueType, NEW b \in Commands, NEW s \in Slots, cmd_ring' = Append(cmd_ring, Cmd(b, s)),
         NEW c
  PROVE  /\ c = b => Cardinality(Entries(c)') = Cardinality(Entries(c)) + 1
         /\ c # b => Entries(c)' = Entries(c)
<1>1. IsFiniteSet(Entries(c))
  BY CountsFinite
<1>2. /\ Len(cmd_ring) + 1 \in DOMAIN cmd_ring' /\ Len(cmd_ring) + 1 \notin DOMAIN cmd_ring
      /\ cmd_ring'[Len(cmd_ring) + 1].cmd = b
      /\ \A i \in DOMAIN cmd_ring : i \in DOMAIN cmd_ring' /\ cmd_ring'[i] = cmd_ring[i]
      /\ \A i \in DOMAIN cmd_ring' : i \in DOMAIN cmd_ring \/ i = Len(cmd_ring) + 1
  BY WriteCommand
<1>3. ASSUME c = b PROVE Entries(c)' = Entries(c) \cup {Len(cmd_ring) + 1}
  BY <1>2, <1>3 DEF Entries, Asked
<1>4. ASSUME c # b PROVE Entries(c)' = Entries(c)
  BY <1>2, <1>4 DEF Entries, Asked
<1>5. Len(cmd_ring) + 1 \notin Entries(c)
  BY <1>2 DEF Entries
<1>6. Cardinality(Entries(c) \cup {Len(cmd_ring) + 1}) = Cardinality(Entries(c)) + 1
  BY <1>1, <1>5, FS_AddElement
<1> QED BY <1>3, <1>4, <1>6

LEMMA CountFetch ==
  ASSUME QueueType, cmd_ring # <<>>, cmd_ring' = Tail(cmd_ring), NEW c
  PROVE  /\ Asked(1, c) => Cardinality(Entries(c)) = Cardinality(Entries(c)') + 1
         /\ ~Asked(1, c) => Cardinality(Entries(c)) = Cardinality(Entries(c)')
<1>1. /\ 1 \in DOMAIN cmd_ring
      /\ \A i \in DOMAIN cmd_ring' : i + 1 \in DOMAIN cmd_ring /\ cmd_ring'[i] = cmd_ring[i + 1]
      /\ \A i \in DOMAIN cmd_ring :
           i # 1 => i - 1 \in DOMAIN cmd_ring' /\ cmd_ring'[i - 1] = cmd_ring[i]
      /\ DOMAIN cmd_ring' \subseteq Nat \ {0}
  BY FetchCommand
<1>2. /\ \A i \in Entries(c)' : i + 1 \in Entries(c)
      /\ \A i \in Entries(c) : i # 1 => i - 1 \in Entries(c)'
      /\ Entries(c)' \subseteq Nat \ {0}
      /\ 1 \in Entries(c) <=> Asked(1, c)
  BY <1>1 DEF Entries, Asked
<1>3. IsFiniteSet(Entries(c)) /\ Entries(c) \subseteq Nat \ {0}
  BY CountsFinite
<1> QED BY <1>2, <1>3, Shifted

\* The sets of ports.
LEMMA PortSets ==
  ASSUME StatusType
  PROVE  /\ IsFiniteSet(Begun) /\ IsFiniteSet(Turned) /\ IsFiniteSet(Ended)
         /\ Cardinality(Begun) \in Nat /\ Cardinality(Turned) \in Nat /\ Cardinality(Ended) \in Nat
         /\ Cardinality(Begun) <= NumPorts
         /\ Cardinality(Turned) <= Cardinality(Begun)
         /\ Cardinality(Ended) <= Cardinality(Begun)
         /\ Begun = {} => Cardinality(Begun) = 0
         /\ Begun # {} => Cardinality(Begun) >= 1
<1>1. NumPorts \in Nat
  BY Numbers DEF StatusType
<1>2. IsFiniteSet(Ports) /\ Cardinality(Ports) = NumPorts
  BY <1>1, FS_Interval DEF Ports
<1>3. Begun \in SUBSET Ports /\ Turned \in SUBSET Begun /\ Ended \in SUBSET Begun
  BY DEF Begun, Turned, Ended
<1>4. IsFiniteSet(Begun) /\ Cardinality(Begun) <= NumPorts
  BY <1>2, <1>3, FS_Subset
<1>5. /\ IsFiniteSet(Turned) /\ Cardinality(Turned) <= Cardinality(Begun)
      /\ IsFiniteSet(Ended) /\ Cardinality(Ended) <= Cardinality(Begun)
  BY <1>3, <1>4, FS_Subset
<1>6. Cardinality(Begun) \in Nat /\ Cardinality(Turned) \in Nat /\ Cardinality(Ended) \in Nat
  BY <1>4, <1>5, FS_CardinalityType
<1>7. Cardinality(Begun) = 0 <=> Begun = {}
  BY <1>4, FS_EmptySet
<1> QED BY <1>4, <1>5, <1>6, <1>7

\* The place of a completion and of an entry.
LEMMA PlaceOf ==
  ASSUME QueueType, NEW c
  PROVE  /\ Len(eventq) \in Nat /\ Len(cmd_ring) \in Nat
         /\ \A i \in Completions(c) : i \in Places /\ At(i, c) /\ i <= Len(eventq)
         /\ \A i \in Entries(c) : Len(eventq) + i \in Places /\ At(Len(eventq) + i, c)
         /\ \A k \in Places : At(k, c) =>
              k \in Completions(c) \/ (k > Len(eventq) /\ k - Len(eventq) \in Entries(c))
<1>1. DOMAIN eventq = 1 .. Len(eventq) /\ Len(eventq) \in Nat
      /\ DOMAIN cmd_ring = 1 .. Len(cmd_ring) /\ Len(cmd_ring) \in Nat
  BY DEF QueueType
<1>2. \A i \in Completions(c) : i \in Places /\ At(i, c) /\ i <= Len(eventq)
  BY <1>1 DEF Completions, Places, At
<1>3. ASSUME NEW i \in Entries(c) PROVE Len(eventq) + i \in Places /\ At(Len(eventq) + i, c)
  <2>1. i \in 1 .. Len(cmd_ring) /\ Asked(i, c)
    BY <1>1 DEF Entries
  <2>2. (Len(eventq) + i) - Len(eventq) = i /\ ~(Len(eventq) + i <= Len(eventq))
    BY <1>1, <2>1
  <2> QED BY <1>1, <2>1, <2>2 DEF Places, At
<1>4. ASSUME NEW k \in Places, At(k, c)
      PROVE  k \in Completions(c) \/ (k > Len(eventq) /\ k - Len(eventq) \in Entries(c))
  BY <1>1, <1>4 DEF Completions, Entries, Places, At
<1> QED BY <1>1, <1>2, <1>3, <1>4

\* A command that is in one place at most.
LEMMA OnePlace ==
  ASSUME QueueType, NEW c, \A i, j \in Places : At(i, c) /\ At(j, c) => i = j
  PROVE  Count(c) <= 1
<1>1. /\ \A i \in Completions(c) : i \in Places /\ At(i, c) /\ i <= Len(eventq)
      /\ \A i \in Entries(c) : Len(eventq) + i \in Places /\ At(Len(eventq) + i, c)
      /\ Len(eventq) \in Nat
  BY PlaceOf
<1>2. /\ IsFiniteSet(Completions(c)) /\ Cardinality(Completions(c)) \in Nat
      /\ IsFiniteSet(Entries(c)) /\ Cardinality(Entries(c)) \in Nat
      /\ Completions(c) \subseteq Nat \ {0} /\ Entries(c) \subseteq Nat \ {0}
  BY CountsFinite
<1>3. ASSUME NEW i \in Completions(c), NEW j \in Completions(c) PROVE i = j
  BY <1>1
<1>4. ASSUME NEW i \in Entries(c), NEW j \in Entries(c) PROVE i = j
  <2>1. Len(eventq) + i = Len(eventq) + j
    BY <1>1
  <2> QED BY <1>1, <1>2, <2>1
<1>5. ASSUME NEW i \in Completions(c), NEW j \in Entries(c) PROVE FALSE
  <2>1. i = Len(eventq) + j
    BY <1>1
  <2> QED BY <1>1, <1>2, <2>1
<1>6. Cardinality(Completions(c)) <= 1
  <2>1. CASE Completions(c) = {}
    BY <2>1, FS_EmptySet
  <2>2. CASE Completions(c) # {}
    <3>1. PICK i \in Completions(c) : TRUE
      BY <2>2
    <3>2. Completions(c) = {i}
      BY <1>3, <3>1
    <3> QED BY <3>2, FS_Singleton
  <2> QED BY <2>1, <2>2
<1>7. Cardinality(Entries(c)) <= 1
  <2>1. CASE Entries(c) = {}
    BY <2>1, FS_EmptySet
  <2>2. CASE Entries(c) # {}
    <3>1. PICK i \in Entries(c) : TRUE
      BY <2>2
    <3>2. Entries(c) = {i}
      BY <1>4, <3>1
    <3> QED BY <3>2, FS_Singleton
  <2> QED BY <2>1, <2>2
<1>8. Cardinality(Completions(c)) = 0 \/ Cardinality(Entries(c)) = 0
  BY <1>5, FS_EmptySet
<1> QED BY <1>2, <1>6, <1>7, <1>8 DEF Count

\* A command that is nowhere.
LEMMA NoPlace ==
  ASSUME QueueType, NEW c, NoneAsked(c)
  PROVE  Count(c) = 0
<1>1. Completions(c) = {} /\ Entries(c) = {}
  BY DEF NoneAsked, Completions, Entries
<1> QED BY <1>1, FS_EmptySet DEF Count

\* Four sets are together no more than the sum of their sizes.
LEMMA FourSets ==
  ASSUME NEW A, NEW B, NEW C, NEW D,
         IsFiniteSet(A), IsFiniteSet(B), IsFiniteSet(C), IsFiniteSet(D)
  PROVE  /\ IsFiniteSet((A \cup B) \cup (C \cup D))
         /\ Cardinality((A \cup B) \cup (C \cup D))
              <= Cardinality(A) + Cardinality(B) + Cardinality(C) + Cardinality(D)
<1>1. ASSUME NEW X, NEW Y, IsFiniteSet(X), IsFiniteSet(Y)
      PROVE  /\ IsFiniteSet(X \cup Y)
             /\ Cardinality(X \cup Y) \in Nat /\ Cardinality(X) \in Nat /\ Cardinality(Y) \in Nat
             /\ Cardinality(X \cup Y) <= Cardinality(X) + Cardinality(Y)
  <2>1. X \cap Y \in SUBSET X
    OBVIOUS
  <2>2. IsFiniteSet(X \cap Y)
    BY <1>1, <2>1, FS_Subset
  <2>3. /\ IsFiniteSet(X \cup Y)
        /\ Cardinality(X \cup Y) = Cardinality(X) + Cardinality(Y) - Cardinality(X \cap Y)
    BY <1>1, FS_Union
  <2>4. /\ Cardinality(X \cup Y) \in Nat /\ Cardinality(X) \in Nat /\ Cardinality(Y) \in Nat
        /\ Cardinality(X \cap Y) \in Nat
    BY <1>1, <2>2, <2>3, FS_CardinalityType
  <2> QED BY <2>3, <2>4
<1>2. IsFiniteSet(A \cup B) /\ IsFiniteSet(C \cup D)
      /\ Cardinality(A \cup B) \in Nat /\ Cardinality(A) \in Nat /\ Cardinality(B) \in Nat
      /\ Cardinality(C \cup D) \in Nat /\ Cardinality(C) \in Nat /\ Cardinality(D) \in Nat
      /\ Cardinality(A \cup B) <= Cardinality(A) + Cardinality(B)
      /\ Cardinality(C \cup D) <= Cardinality(C) + Cardinality(D)
  BY <1>1
<1>3. /\ IsFiniteSet((A \cup B) \cup (C \cup D))
      /\ Cardinality((A \cup B) \cup (C \cup D)) \in Nat
      /\ Cardinality((A \cup B) \cup (C \cup D)) <= Cardinality(A \cup B) + Cardinality(C \cup D)
  BY <1>1, <1>2
<1> QED BY <1>2, <1>3

\* All commands together are those of the four kinds.
LEMMA OutstandingIs ==
  ASSUME Known
  PROVE  /\ Outstanding \in Nat
         /\ Outstanding <= Count("EnableSlot") + Count("AddressDevice")
                             + Count("EvaluateContext") + Count("ConfigureEndpoint")
<1>q. QueueType
  BY DEF Known, TypeInv
<1> DEFINE Cs == {i \in DOMAIN eventq : eventq[i].type = "Command"}
           Q(c) == Completions(c)
           W(c) == Entries(c)
<1>1. \A i \in DOMAIN eventq : eventq[i].type = "Command" =>
        eventq[i].cmd \in {"EnableSlot", "AddressDevice", "EvaluateContext", "ConfigureEndpoint"}
  <2> SUFFICES ASSUME NEW i \in DOMAIN eventq, eventq[i].type = "Command"
               PROVE  eventq[i].cmd \in Commands
    BY DEF Commands
  <2>1. eventq[i] \in Events
    BY <1>q DEF QueueType
  <2> QED BY <2>1, EventFields
<1>2. Cs = (Q("EnableSlot") \cup Q("AddressDevice"))
             \cup (Q("EvaluateContext") \cup Q("ConfigureEndpoint"))
  BY <1>1 DEF Completions, Done
<1>3. DOMAIN cmd_ring = (W("EnableSlot") \cup W("AddressDevice"))
             \cup (W("EvaluateContext") \cup W("ConfigureEndpoint"))
  <2> DEFINE R == [cmd : Commands, slot : Slots]
  <2>0. cmd_ring \in Seq(R) /\ \A c \in R : c.cmd \in Commands
    BY <1>q DEF QueueType
  <2> HIDE DEF R
  <2>1. \A i \in DOMAIN cmd_ring : cmd_ring[i].cmd \in Commands
    BY <2>0
  <2> QED BY <2>1 DEF Entries, Asked, Commands
<1>4. \A c : /\ IsFiniteSet(Q(c)) /\ Cardinality(Q(c)) \in Nat
             /\ IsFiniteSet(W(c)) /\ Cardinality(W(c)) \in Nat
             /\ Count(c) = Cardinality(Q(c)) + Cardinality(W(c))
  BY <1>q, CountsFinite DEF Count
<1> HIDE DEF Cs, Q, W
<1>5. /\ IsFiniteSet(Cs)
      /\ Cardinality(Cs) <= Cardinality(Q("EnableSlot")) + Cardinality(Q("AddressDevice"))
           + Cardinality(Q("EvaluateContext")) + Cardinality(Q("ConfigureEndpoint"))
  <2>1. /\ IsFiniteSet(Q("EnableSlot")) /\ IsFiniteSet(Q("AddressDevice"))
        /\ IsFiniteSet(Q("EvaluateContext")) /\ IsFiniteSet(Q("ConfigureEndpoint"))
    BY ONLY <1>4
  <2> QED BY ONLY <1>2, <2>1, FourSets, Zenon
<1>6. /\ IsFiniteSet(DOMAIN cmd_ring)
      /\ Cardinality(DOMAIN cmd_ring) <= Cardinality(W("EnableSlot")) + Cardinality(W("AddressDevice"))
           + Cardinality(W("EvaluateContext")) + Cardinality(W("ConfigureEndpoint"))
  <2>1. /\ IsFiniteSet(W("EnableSlot")) /\ IsFiniteSet(W("AddressDevice"))
        /\ IsFiniteSet(W("EvaluateContext")) /\ IsFiniteSet(W("ConfigureEndpoint"))
    BY ONLY <1>4
  <2> DEFINE Ds == DOMAIN cmd_ring
  <2>2. Ds = (W("EnableSlot") \cup W("AddressDevice"))
               \cup (W("EvaluateContext") \cup W("ConfigureEndpoint"))
    BY <1>3
  <2> HIDE DEF Ds
  <2>3. /\ IsFiniteSet(Ds)
        /\ Cardinality(Ds) <= Cardinality(W("EnableSlot")) + Cardinality(W("AddressDevice"))
             + Cardinality(W("EvaluateContext")) + Cardinality(W("ConfigureEndpoint"))
    BY ONLY <2>1, <2>2, FourSets, Zenon
  <2> QED BY <2>3 DEF Ds
<1>7. Len(cmd_ring) = Cardinality(DOMAIN cmd_ring) /\ Len(cmd_ring) \in Nat
  <2>1. DOMAIN cmd_ring = 1 .. Len(cmd_ring) /\ Len(cmd_ring) \in Nat
    BY <1>q DEF QueueType
  <2>2. Cardinality(1 .. Len(cmd_ring)) = IF 1 > Len(cmd_ring) THEN 0 ELSE Len(cmd_ring) - 1 + 1
    BY <2>1, FS_Interval
  <2>3. Cardinality(1 .. Len(cmd_ring)) = Len(cmd_ring)
    BY <2>1, <2>2
  <2> QED BY <2>1, <2>3
<1>8. Cardinality(Cs) \in Nat
  BY <1>5, FS_CardinalityType
<1>9. Outstanding = Len(cmd_ring) + Cardinality(Cs)
  BY DEF Outstanding, Cs
<1>10. PICK n \in Nat, m \in Nat : n = Len(cmd_ring) /\ m = Cardinality(Cs)
  BY <1>7, <1>8
<1>11. PICK q1 \in Nat, q2 \in Nat, q3 \in Nat, q4 \in Nat :
         /\ q1 = Cardinality(Q("EnableSlot")) /\ q2 = Cardinality(Q("AddressDevice"))
         /\ q3 = Cardinality(Q("EvaluateContext")) /\ q4 = Cardinality(Q("ConfigureEndpoint"))
  BY <1>4
<1>12. PICK w1 \in Nat, w2 \in Nat, w3 \in Nat, w4 \in Nat :
         /\ w1 = Cardinality(W("EnableSlot")) /\ w2 = Cardinality(W("AddressDevice"))
         /\ w3 = Cardinality(W("EvaluateContext")) /\ w4 = Cardinality(W("ConfigureEndpoint"))
  BY <1>4
<1>13. m <= q1 + q2 + q3 + q4 /\ n <= w1 + w2 + w3 + w4
  BY <1>5, <1>6, <1>7, <1>10, <1>11, <1>12
<1>14. /\ Count("EnableSlot") = q1 + w1 /\ Count("AddressDevice") = q2 + w2
       /\ Count("EvaluateContext") = q3 + w3 /\ Count("ConfigureEndpoint") = q4 + w4
  BY <1>4, <1>11, <1>12
<1>15. n + m <= (q1 + w1) + (q2 + w2) + (q3 + w3) + (q4 + w4)
  BY ONLY <1>13
<1> QED BY <1>9, <1>10, <1>14, <1>15

\* Address Device Commands: one, while the port whose turn it is waits for it.
LEMMA AddressFits ==
  ASSUME Known, TurnInv, CommandInv, pc # "input", \A p \in Ports : ~portsc[p].pulled
  PROVE  /\ Count("AddressDevice") <= 1
         /\ ~AwaitsAddress => Count("AddressDevice") = 0
<1>q. QueueType
  BY DEF Known, TypeInv
<1>1. CASE ~AwaitsAddress
  <2>1. current_port = None \/ AwaitsEnable
    BY <1>1 DEF Known, TypeInv, StatusType, TurnInv, OneAtATime, AwaitsAddress, AwaitsEnable
  <2> QED BY <1>q, <2>1, NoPlace DEF CommandInv, NothingStray
<1>2. CASE AwaitsAddress
  <2>1. AddressInOrder
    BY DEF CommandInv
  <2>2. /\ Len(eventq) \in Nat /\ Len(cmd_ring) \in Nat /\ Places \subseteq Nat
        /\ \A k \in Places : At(k, "AddressDevice") =>
              \/ k \in Completions("AddressDevice")
              \/ k > Len(eventq) /\ k - Len(eventq) \in Entries("AddressDevice")
    BY <1>q, PlaceOf DEF Places
  <2>3. \A i, j \in Completions("AddressDevice") : i = j
    BY <1>2, <2>1 DEF AddressInOrder, Completions
  <2>4. \A i, j \in Entries("AddressDevice") : i = j
    BY <1>2, <2>1 DEF AddressInOrder, Entries
  <2>5. \A i \in Completions("AddressDevice"), j \in Entries("AddressDevice") : FALSE
    BY <1>2, <2>1 DEF AddressInOrder, Completions, Entries
  <2>6. ASSUME NEW i \in Places, NEW j \in Places, At(i, "AddressDevice"), At(j, "AddressDevice")
        PROVE  i = j
    <3>1. \/ i \in Completions("AddressDevice") /\ j \in Completions("AddressDevice")
          \/ /\ i - Len(eventq) \in Entries("AddressDevice")
             /\ j - Len(eventq) \in Entries("AddressDevice")
      BY <2>2, <2>5, <2>6
    <3>2. ASSUME i - Len(eventq) = j - Len(eventq) PROVE i = j
      BY <2>2, <3>2
    <3> QED BY <2>3, <2>4, <3>1, <3>2
  <2>7. Count("AddressDevice") <= 1
    BY <1>q, <2>6, OnePlace
  <2> QED BY <1>2, <2>7
<1> QED BY <1>1, <1>2, <1>q, CountsFinite

\* What the invariant says of the commands together.
LEMMA FewCommands ==
  ASSUME Known, TurnInv, CommandInv, LimitInv, Roomy
  PROVE  ScratchpadKept /\ (NumConfigs <= 1 => CommandsFit)
<1>q. QueueType /\ StatusType
  BY DEF Known, TypeInv
<1>1. ScratchpadKept
  BY DEF LimitInv, Limits, SlotsGiven
<1>2. ASSUME pc # "input", NumConfigs <= 1 PROVE Outstanding <= 2 * NumPorts
  <2>1. EnablesFit /\ ConfiguresFit /\ EvaluateInOrder /\ \A p \in Ports : ~portsc[p].pulled
    BY <1>2 DEF LimitInv, Limits
  <2>2. PICK e \in Nat, a \in Nat, v \in Nat, c \in Nat :
          /\ e = Count("EnableSlot") /\ a = Count("AddressDevice")
          /\ v = Count("EvaluateContext") /\ c = Count("ConfigureEndpoint")
    BY <1>q, CountsFinite
  <2>3. Outstanding \in Nat /\ Outstanding <= e + a + v + c
    BY <2>2, OutstandingIs
  <2>4. PICK r \in Nat, d \in Nat : r = Cardinality(Begun) /\ d = Cardinality(Ended)
    BY <1>q, PortSets
  <2>5. /\ r <= NumPorts /\ d <= r /\ NumPorts \in Nat
        /\ Begun # {} => r >= 1
    BY <1>q, <2>4, PortSets, Numbers DEF StatusType
  <2>6. c <= d
    BY <1>2, <2>1, <2>2, <2>4 DEF ConfiguresFit
  <2>7. v <= 1 /\ (v > 0 => r >= 1)
    <3>1. v <= 1
      BY <1>q, <2>1, <2>2, OnePlace DEF EvaluateInOrder, OneEvaluate
    <3>2. ASSUME Begun = {} PROVE v = 0
      <4>1. \A k \in Places : ~At(k, "EvaluateContext")
        BY <2>1, <3>2 DEF EvaluateInOrder, OneEvaluate
      <4>2. Completions("EvaluateContext") = {} /\ Entries("EvaluateContext") = {}
        BY <1>q, <4>1, PlaceOf
      <4> QED BY <2>2, <4>2, FS_EmptySet DEF Count
    <3> QED BY <2>5, <3>1, <3>2
  <2>8. a <= 1 /\ (~AwaitsAddress => a = 0)
    BY <1>2, <2>1, <2>2, AddressFits
  <2>9. current_port # None => d <= r - 1 /\ r >= 1
    <3> SUFFICES ASSUME current_port # None PROVE d <= r - 1 /\ r >= 1
      OBVIOUS
    <3>1. current_port \in Ports /\ state[current_port] \in {"ENABLE_SLOT", "ADDRESS_DEVICE"}
      BY <1>q, <2>1 DEF StatusType, TurnInv, OneAtATime
    <3>2. current_port \in Begun /\ current_port \notin Ended
      BY <3>1 DEF Begun, Ended
    <3>3. Ended \in SUBSET (Begun \ {current_port})
      BY <3>2 DEF Begun, Ended
    <3>4. IsFiniteSet(Begun \ {current_port}) /\ Cardinality(Begun \ {current_port}) = r - 1
      BY <1>q, <2>4, <3>2, PortSets, FS_RemoveElement
    <3>5. d <= r - 1
      BY <2>4, <3>3, <3>4, FS_Subset
    <3> QED BY <2>5, <3>2, <3>5
  <2>10. e + a + v + c <= 2 * r
    <3>1. CASE current_port = None
      <4>1. e = 0
        BY <1>2, <1>q, <2>2, <3>1, NoPlace DEF CommandInv, NothingStray
      <4>2. a = 0
        BY <2>8, <3>1 DEF AwaitsAddress
      <4> QED BY <2>5, <2>6, <2>7, <4>1, <4>2
    <3>2. CASE current_port # None /\ AwaitsAddress
      <4>1. e + 1 <= r
        BY <2>1, <2>2, <2>4, <3>2 DEF EnablesFit
      <4> QED BY <2>6, <2>7, <2>8, <2>9, <3>2, <4>1
    <3>3. CASE current_port # None /\ ~AwaitsAddress
      <4>1. AwaitsEnable
        <5>1. current_port \in Ports /\ state[current_port] \in {"ENABLE_SLOT", "ADDRESS_DEVICE"}
          BY <1>q, <2>1, <3>3 DEF StatusType, TurnInv, OneAtATime
        <5> QED BY <3>3, <5>1 DEF AwaitsAddress, AwaitsEnable
      <4>2. e <= r
        BY <2>1, <2>2, <2>4, <4>1 DEF EnablesFit
      <4> QED BY <2>6, <2>7, <2>8, <2>9, <3>3, <4>2
    <3> QED BY <3>1, <3>2, <3>3
  <2> QED BY <2>3, <2>5, <2>10
<1> QED BY <1>1, <1>2 DEF CommandsFit

\* Nothing is asked for yet.
LEMMA InitLimit == Init => LimitInv
<1> SUFFICES ASSUME Init PROVE LimitInv
  OBVIOUS
<1>1. /\ Begun = {} /\ Ended = {} /\ Places = 1 .. 0
      /\ \A c : Completions(c) = {} /\ Entries(c) = {}
      /\ ~AwaitsEnable /\ ~AwaitsAddress /\ ~InFs /\ ~InConf
  BY DEF Init, Begun, Ended, Places, Completions, Entries, AwaitsEnable, AwaitsAddress, InFs, InConf
<1>2. Cardinality({}) = 0
  BY FS_EmptySet
<1>3. SlotsAsked
  <2>1. nslots = 0 /\ Cardinality(Entries("EnableSlot")) = 0
    BY <1>1, <1>2 DEF Init
  <2> QED BY <1>1, <2>1 DEF SlotsAsked
<1>4. SlotsGiven
  BY Numbers DEF Init, SlotsGiven, ScratchpadKept
<1>5. EnablesFit /\ ConfiguresFit /\ EvaluateInOrder
  BY <1>1, <1>2 DEF EnablesFit, ConfiguresFit, EvaluateInOrder, OneEvaluate, EvaluateFirst, Count
<1>6. \A p \in Ports : ~portsc[p].pulled
  BY DEF Init
<1> QED BY <1>3, <1>4, <1>5, <1>6 DEF LimitInv, Limits

\* What does not depend on the queues.
LEMMA SamePorts ==
  ASSUME machine' = machine, state' = state
  PROVE  Begun' = Begun /\ Turned' = Turned /\ Ended' = Ended /\ Roomy' = Roomy
  BY SameMachine DEF Begun, Turned, Ended, Roomy

\* Commands that only move up keep their order.
LEMMA LineKept ==
  ASSUME EvaluateInOrder, NEW h, Begun \subseteq Begun',
         AwaitsAddress' = AwaitsAddress, InFs' => InFs,
         Places' \subseteq Nat, Places \subseteq Nat,
         \A k \in Places', c \in Commands : At(k, c)' => h[k] \in Places /\ At(h[k], c),
         \A k, l \in Places', b, c \in Commands : At(k, b)' /\ At(l, c)' /\ k < l => h[k] < h[l]
  PROVE  EvaluateInOrder'
<1>c. {"EnableSlot", "AddressDevice", "EvaluateContext"} \subseteq Commands
  BY DEF Commands
<1>1. ASSUME NEW i \in Places', At(i, "EvaluateContext")'
      PROVE  Begun' # {} /\ \A j \in Places' : At(j, "EvaluateContext")' => i = j
  <2>1. h[i] \in Places /\ At(h[i], "EvaluateContext")
    BY <1>c, <1>1
  <2>2. Begun' # {}
    BY <2>1 DEF EvaluateInOrder, OneEvaluate, EvaluateFirst, EvaluateNext
  <2>3. ASSUME NEW j \in Places', At(j, "EvaluateContext")' PROVE i = j
    <3>1. h[j] \in Places /\ At(h[j], "EvaluateContext")
      BY <1>c, <2>3
    <3>2. h[i] = h[j]
      BY <2>1, <3>1 DEF EvaluateInOrder, OneEvaluate, EvaluateFirst, EvaluateNext
    <3>3. h[i] \in Nat /\ h[j] \in Nat
      BY <2>1, <3>1
    <3>4. ~(h[i] < h[j]) /\ ~(h[j] < h[i])
      BY <3>2, <3>3
    <3>5. ~(i < j)
      BY <1>c, <1>1, <2>3, <3>4
    <3>6. ~(j < i)
      BY <1>c, <1>1, <2>3, <3>4
    <3> QED BY <3>5, <3>6
  <2> QED BY <2>2, <2>3
<1>2. ASSUME ~AwaitsAddress', NEW i \in Places', NEW k \in Places', i < k, At(i, "EnableSlot")',
             At(k, "EvaluateContext")'
      PROVE  FALSE
  <2>1. /\ h[i] \in Places /\ At(h[i], "EnableSlot") /\ h[k] \in Places /\ At(h[k], "EvaluateContext")
        /\ h[i] < h[k]
    BY <1>c, <1>2
  <2> QED BY <1>2, <2>1 DEF EvaluateInOrder, OneEvaluate, EvaluateFirst, EvaluateNext
<1>3. ASSUME AwaitsAddress', NEW i \in Places', NEW j \in Places', NEW k \in Places', i < j, j < k,
             At(i, "AddressDevice")', At(j, "EnableSlot")', At(k, "EvaluateContext")'
      PROVE  FALSE
  <2>1. /\ h[i] \in Places /\ At(h[i], "AddressDevice") /\ h[j] \in Places /\ At(h[j], "EnableSlot")
        /\ h[k] \in Places /\ At(h[k], "EvaluateContext") /\ h[i] < h[j] /\ h[j] < h[k]
    BY <1>c, <1>3
  <2> QED BY <1>3, <2>1 DEF EvaluateInOrder, OneEvaluate, EvaluateFirst, EvaluateNext
<1>4. ASSUME InFs', NEW k \in Places', At(k, "EvaluateContext")' PROVE FALSE
  <2>1. h[k] \in Places /\ At(h[k], "EvaluateContext")
    BY <1>c, <1>4
  <2> QED BY <1>4, <2>1 DEF EvaluateInOrder, OneEvaluate, EvaluateFirst, EvaluateNext
<1>5. ASSUME InFs', NEW i \in Places', NEW j \in Places', i < j, At(i, "AddressDevice")',
             At(j, "EnableSlot")'
      PROVE  FALSE
  <2>1. /\ h[i] \in Places /\ At(h[i], "AddressDevice") /\ h[j] \in Places /\ At(h[j], "EnableSlot")
        /\ h[i] < h[j]
    BY <1>c, <1>5
  <2> QED BY <1>5, <2>1 DEF EvaluateInOrder, OneEvaluate, EvaluateFirst, EvaluateNext
<1> QED BY <1>1, <1>2, <1>3, <1>4, <1>5 DEF EvaluateInOrder, OneEvaluate, EvaluateFirst, EvaluateNext

\* The controller moves commands from the command ring to the event ring and
\* posts other events in between.
LEMMA ControllerLine ==
  ASSUME Known, Known', Controller
  PROVE  \E h : /\ \A k \in Places', c \in Commands : At(k, c)' => h[k] \in Places /\ At(h[k], c)
                /\ \A k, l \in Places', b, c \in Commands :
                     At(k, b)' /\ At(l, c)' /\ k < l => h[k] < h[l]
<1>q. QueueType /\ QueueType'
  BY DEF Known, TypeInv
<1>n. Len(eventq) \in Nat /\ Len(cmd_ring) \in Nat /\ DOMAIN cmd_ring = 1 .. Len(cmd_ring)
      /\ DOMAIN eventq = 1 .. Len(eventq)
  BY <1>q DEF QueueType
<1>1. CASE UNCHANGED <<eventq, cmd_ring, nslots>>
  <2> DEFINE h == [k \in Places |-> k]
  <2>1. Places' = Places /\ \A k, c : At(k, c)' <=> At(k, c)
    BY <1>1 DEF Places, At, Done, Asked
  <2>2. \A k \in Places' : h[k] = k
    BY <2>1
  <2> HIDE DEF h
  <2> WITNESS h
  <2> QED BY <2>1, <2>2
<1>2. CASE \E e \in Events : eventq' = Append(eventq, e) /\ Posts(e)
  <2>1. PICK e \in Events : eventq' = Append(eventq, e) /\ Posts(e)
    BY <1>2
  <2>2. /\ eventq'[Len(eventq) + 1] = e
        /\ \A i \in DOMAIN eventq : eventq'[i] = eventq[i]
        /\ Len(eventq') = Len(eventq) + 1
    BY <1>q, <2>1, PostEvent DEF QueueType
  <2>3. CASE e.type = "Command"
    <3>1. cmd_ring # <<>> /\ cmd_ring' = Tail(cmd_ring) /\ e.cmd = Head(cmd_ring).cmd
      BY <2>1, <2>3 DEF Posts
    <3>2. /\ Head(cmd_ring) = cmd_ring[1] /\ Len(cmd_ring') = Len(cmd_ring) - 1
          /\ Len(cmd_ring) >= 1
          /\ \A i \in DOMAIN cmd_ring' : cmd_ring'[i] = cmd_ring[i + 1]
          /\ DOMAIN cmd_ring' = 1 .. Len(cmd_ring')
      BY <1>q, <3>1, FetchCommand DEF QueueType
    <3>3. Places' = Places
      BY <1>n, <2>2, <3>2 DEF Places
    <3>4. ASSUME NEW k \in Places, NEW c, At(k, c)' PROVE At(k, c)
      <4>1. CASE k <= Len(eventq)
        <5>1. k \in DOMAIN eventq /\ k <= Len(eventq')
          BY <1>n, <2>2, <4>1 DEF Places
        <5> QED BY <2>2, <3>4, <4>1, <5>1 DEF At, Done
      <4>2. CASE k = Len(eventq) + 1
        <5>1. e.cmd = c
          BY <1>n, <2>2, <3>4, <4>2 DEF At, Done
        <5>2. ~(k <= Len(eventq)) /\ k - Len(eventq) = 1
          BY <1>n, <4>2
        <5> QED BY <3>1, <3>2, <5>1, <5>2 DEF At, Asked
      <4>3. CASE k > Len(eventq) + 1
        <5>1. /\ ~(k <= Len(eventq')) /\ ~(k <= Len(eventq))
              /\ k - Len(eventq') \in DOMAIN cmd_ring'
              /\ (k - Len(eventq')) + 1 = k - Len(eventq)
          BY <1>n, <2>2, <3>2, <4>3 DEF Places
        <5>2. cmd_ring'[k - Len(eventq')] = cmd_ring[k - Len(eventq)]
          BY <3>2, <5>1
        <5> QED BY <3>4, <5>1, <5>2 DEF At, Asked
      <4> QED BY <1>n, <4>1, <4>2, <4>3 DEF Places
    <3> DEFINE h == [k \in Places |-> k]
    <3>5. \A k \in Places' : h[k] = k
      BY <3>3
    <3> HIDE DEF h
    <3> WITNESS h
    <3> QED BY <3>3, <3>4, <3>5
  <2>4. CASE e.type # "Command"
    <3>1. cmd_ring' = cmd_ring
      BY <2>1, <2>4 DEF Posts
    <3>2. Places' = 1 .. Len(eventq) + Len(cmd_ring) + 1
      BY <1>n, <2>2, <3>1 DEF Places
    <3>3. ASSUME NEW k \in Places', NEW c, At(k, c)'
          PROVE  /\ k # Len(eventq) + 1
                 /\ k <= Len(eventq) => k \in Places /\ At(k, c)
                 /\ k > Len(eventq) => k - 1 \in Places /\ At(k - 1, c)
      <4>1. k # Len(eventq) + 1
        BY <1>n, <2>2, <2>4, <3>3 DEF At, Done
      <4>2. ASSUME k <= Len(eventq) PROVE k \in Places /\ At(k, c)
        <5>1. k \in DOMAIN eventq /\ k <= Len(eventq') /\ k \in Places
          BY <1>n, <2>2, <3>2, <4>2 DEF Places
        <5> QED BY <2>2, <3>3, <4>2, <5>1 DEF At, Done
      <4>3. ASSUME k > Len(eventq) PROVE k - 1 \in Places /\ At(k - 1, c)
        <5>1. /\ ~(k <= Len(eventq')) /\ ~(k - 1 <= Len(eventq))
              /\ (k - 1) - Len(eventq) = k - Len(eventq') /\ k - 1 \in Places
          BY <1>n, <2>2, <3>2, <4>1, <4>3 DEF Places
        <5> QED BY <3>1, <3>3, <5>1 DEF At, Asked
      <4> QED BY <4>1, <4>2, <4>3
    <3> DEFINE h == [k \in Places' |-> IF k <= Len(eventq) THEN k ELSE k - 1]
    <3>4. \A k \in Places' : (k <= Len(eventq) => h[k] = k) /\ (k > Len(eventq) => h[k] = k - 1)
      BY <1>n, <3>2
    <3> HIDE DEF h
    <3>5. ASSUME NEW k \in Places', NEW l \in Places', NEW b \in Commands, NEW c \in Commands,
                 At(k, b)', At(l, c)', k < l
          PROVE  h[k] < h[l]
      <4>1. k # Len(eventq) + 1 /\ l # Len(eventq) + 1
        BY <3>3, <3>5
      <4>2. k \in Nat /\ l \in Nat
        BY <3>2, <1>n
      <4> QED BY <1>n, <3>4, <3>5, <4>1, <4>2
    <3>6. ASSUME NEW k \in Places', NEW c \in Commands, At(k, c)' PROVE h[k] \in Places /\ At(h[k], c)
      <4>1. k \in Nat
        BY <3>2, <1>n
      <4> QED BY <1>n, <3>3, <3>4, <3>6, <4>1
    <3> WITNESS h
    <3> QED BY <3>5, <3>6
  <2> QED BY <2>3, <2>4
<1> QED BY <1>1, <1>2, ControllerQueues DEF Known

\* They are finitely many after a step, too.
LEMMA CountsFiniteNext ==
  ASSUME QueueType', NEW c
  PROVE  Cardinality(Completions(c)') \in Nat /\ Cardinality(Entries(c)') \in Nat
<1>1. (Cardinality(Completions(c)) \in Nat /\ Cardinality(Entries(c)) \in Nat)'
  BY CountsFinite, PTL
<1> QED BY <1>1

\* The counts after a step of the controller.
LEMMA ControllerCounts ==
  ASSUME Known, Known', Controller
  PROVE  /\ \A c : Count(c)' = Count(c)
         /\ nslots' + Cardinality(Entries("EnableSlot")') <= nslots + Cardinality(Entries("EnableSlot"))
         /\ \A i \in DOMAIN eventq' : Done(i, "EnableSlot")' =>
              \/ i \in DOMAIN eventq /\ eventq'[i] = eventq[i]
              \/ /\ Cardinality(Entries("EnableSlot")) >= 1
                 /\ nslots < NumSlots => eventq'[i].slot = nslots + 1
<1>q. QueueType /\ QueueType' /\ StatusType
  BY DEF Known, TypeInv
<1>s. nslots \in Nat /\ NumSlots \in Nat
  BY <1>q, Numbers DEF Known, TypeInv, ControllerType, StatusType
<1>f. \A c : /\ Cardinality(Completions(c)) \in Nat /\ Cardinality(Completions(c)') \in Nat
             /\ Cardinality(Entries(c)) \in Nat /\ Cardinality(Entries(c)') \in Nat
  <2>1. \A c : Cardinality(Completions(c)) \in Nat /\ Cardinality(Entries(c)) \in Nat
    BY <1>q, CountsFinite
  <2>2. \A c : Cardinality(Completions(c)') \in Nat /\ Cardinality(Entries(c)') \in Nat
    BY <1>q, CountsFiniteNext
  <2> QED BY <2>1, <2>2
<1>1. CASE UNCHANGED <<eventq, cmd_ring, nslots>>
  <2>1. \A c : Completions(c)' = Completions(c) /\ Entries(c)' = Entries(c)
    BY <1>1 DEF Completions, Entries, Done, Asked
  <2>2. \A c : Count(c)' = Count(c)
    BY <2>1 DEF Count
  <2>3. nslots' + Cardinality(Entries("EnableSlot")') <= nslots + Cardinality(Entries("EnableSlot"))
    BY <1>1, <1>f, <1>s, <2>1
  <2> QED BY <1>1, <2>2, <2>3
<1>2. CASE \E e \in Events : eventq' = Append(eventq, e) /\ Posts(e)
  <2>1. PICK e \in Events : eventq' = Append(eventq, e) /\ Posts(e)
    BY <1>2
  <2>2. /\ \A i \in DOMAIN eventq : eventq'[i] = eventq[i]
        /\ \A i \in DOMAIN eventq' : i \in DOMAIN eventq \/ i = Len(eventq) + 1
        /\ eventq'[Len(eventq) + 1] = e
    BY <1>q, <2>1, PostEvent
  <2>3. CASE e.type = "Command"
    <3>1. cmd_ring # <<>> /\ cmd_ring' = Tail(cmd_ring) /\ e.cmd = Head(cmd_ring).cmd
      BY <2>1, <2>3 DEF Posts
    <3>2. \A c : Asked(1, c) <=> e.cmd = c
      BY <1>q, <3>1, FetchCommand DEF Asked
    <3>3. ASSUME NEW c PROVE /\ Count(c)' = Count(c)
                             /\ e.cmd = c => Cardinality(Entries(c)) = Cardinality(Entries(c)') + 1
                             /\ e.cmd # c => Cardinality(Entries(c)) = Cardinality(Entries(c)')
      <4>1. /\ e.cmd = c => Cardinality(Completions(c)') = Cardinality(Completions(c)) + 1
            /\ e.cmd # c => Completions(c)' = Completions(c)
        BY <1>q, <2>1, <2>3, CountPost
      <4>2. /\ e.cmd = c => Cardinality(Entries(c)) = Cardinality(Entries(c)') + 1
            /\ e.cmd # c => Cardinality(Entries(c)) = Cardinality(Entries(c)')
        BY <1>q, <3>1, <3>2, CountFetch
      <4>3. Count(c)' = Cardinality(Completions(c)') + Cardinality(Entries(c)')
        BY DEF Count
      <4>4. Count(c)' = Count(c)
        BY <1>f, <4>1, <4>2, <4>3 DEF Count
      <4> QED BY <4>2, <4>4
    <3>4. CASE e.cmd = "EnableSlot"
      <4>1. \/ nslots < NumSlots /\ e.slot = nslots + 1 /\ nslots' = nslots + 1
            \/ ~(nslots < NumSlots) /\ e.slot = 0 /\ nslots' = nslots
        BY <2>1, <2>3, <3>4 DEF Posts
      <4>2. Cardinality(Entries("EnableSlot")) = Cardinality(Entries("EnableSlot")') + 1
        BY <3>3, <3>4
      <4>3. nslots' + Cardinality(Entries("EnableSlot")') <= nslots + Cardinality(Entries("EnableSlot"))
        BY <1>f, <1>s, <4>1, <4>2
      <4>4. Cardinality(Entries("EnableSlot")) >= 1
        BY <1>f, <4>2
      <4> QED BY <2>2, <3>3, <4>1, <4>3, <4>4
    <3>5. CASE e.cmd # "EnableSlot"
      <4>1. nslots' = nslots
        BY <2>1, <2>3, <3>5 DEF Posts
      <4>2. nslots' + Cardinality(Entries("EnableSlot")') <= nslots + Cardinality(Entries("EnableSlot"))
        BY <1>f, <1>s, <3>3, <3>5, <4>1
      <4>3. \A i \in DOMAIN eventq' : Done(i, "EnableSlot")' => i \in DOMAIN eventq
        BY <2>2, <3>5 DEF Done
      <4> QED BY <2>2, <3>3, <4>2, <4>3
    <3> QED BY <3>4, <3>5
  <2>4. CASE e.type # "Command"
    <3>1. cmd_ring' = cmd_ring /\ nslots' = nslots
      BY <2>1, <2>4 DEF Posts
    <3>2. ASSUME NEW c PROVE Completions(c)' = Completions(c) /\ Entries(c)' = Entries(c)
      <4>1. Completions(c)' = Completions(c)
        BY <1>q, <2>1, <2>4, CountPost
      <4> QED BY <3>1, <4>1 DEF Entries, Asked
    <3>3. \A c : Count(c)' = Count(c)
      BY <3>2 DEF Count
    <3>4. nslots' + Cardinality(Entries("EnableSlot")') <= nslots + Cardinality(Entries("EnableSlot"))
      BY <1>f, <1>s, <3>1, <3>2
    <3>5. \A i \in DOMAIN eventq' : Done(i, "EnableSlot")' => i \in DOMAIN eventq
      BY <2>2, <2>4 DEF Done
    <3> QED BY <2>2, <3>3, <3>4, <3>5
  <2> QED BY <2>3, <2>4
<1> QED BY <1>1, <1>2, ControllerQueues DEF Known

\* The controller executes commands in order, and its slots do not run out.
LEMMA ControllerLimit ==
  ASSUME Known, Known', TurnInv, LimitInv, Controller
  PROVE  LimitInv'
<1>q. StatusType /\ QueueType /\ QueueType' /\ ControllerType
  BY DEF Known, TypeInv
<1>u. UNCHANGED <<state, current_port, device_contexts, pc, job, machine>>
  BY ControllerLeaves
<1>m. /\ Begun' = Begun /\ Turned' = Turned /\ Ended' = Ended /\ Roomy' = Roomy
      /\ Ports' = Ports /\ NumSlots' = NumSlots
  BY <1>u, SamePorts, SameMachine
<1> SUFFICES ASSUME Roomy
             PROVE  /\ \A p \in Ports : ~portsc'[p].pulled
                    /\ SlotsAsked' /\ SlotsGiven'
                    /\ pc # "input" => EnablesFit' /\ ConfiguresFit' /\ EvaluateInOrder'
  BY <1>m, <1>u DEF LimitInv, Limits
<1>i. /\ \A p \in Ports : ~portsc[p].pulled
      /\ SlotsAsked /\ SlotsGiven
      /\ pc # "input" => EnablesFit /\ ConfiguresFit /\ EvaluateInOrder
  BY DEF LimitInv, Limits
<1>n. /\ nslots \in Nat /\ nslots' \in Nat /\ NumSlots \in Nat /\ NumPorts \in Nat
      /\ Cardinality(Entries("EnableSlot")) \in Nat /\ Cardinality(Entries("EnableSlot")') \in Nat
      /\ Cardinality(Begun) \in Nat /\ Cardinality(Turned) \in Nat
      /\ Cardinality(Begun) <= NumPorts /\ Cardinality(Turned) <= Cardinality(Begun)
  <2>1. nslots \in Nat /\ NumSlots \in Nat /\ NumPorts \in Nat
    BY <1>q, Numbers DEF ControllerType, StatusType
  <2>2. nslots' \in Nat
    <3>1. nslots' \in Slots' /\ Slots' = Slots
      BY <1>u, SameMachine DEF Known, TypeInv, ControllerType
    <3> QED BY <1>q, <3>1, Numbers DEF StatusType
  <2>3. Cardinality(Entries("EnableSlot")) \in Nat
    BY <1>q, CountsFinite
  <2>4. Cardinality(Entries("EnableSlot")') \in Nat
    BY <1>q, CountsFiniteNext
  <2> QED BY <1>q, <2>1, <2>2, <2>3, <2>4, PortSets
<1>a. AwaitsEnable' = AwaitsEnable /\ AwaitsAddress' = AwaitsAddress /\ InFs' = InFs /\ InConf' = InConf
  BY <1>u DEF AwaitsEnable, AwaitsAddress, InFs, InConf
<1>1. \A p \in Ports : ~portsc'[p].pulled
  <2>1. ASSUME NEW p \in Ports, Attach(p) PROVE \A r \in Ports : ~portsc'[r].pulled
    BY <1>i, <1>q, <2>1 DEF Attach, ControllerType, PortRegister
  <2>2. ASSUME NEW p \in Ports, Detach(p) PROVE FALSE
    BY <2>2 DEF Detach, Roomy
  <2>3. ASSUME NEW p \in Ports, ResetDone(p) PROVE \A r \in Ports : ~portsc'[r].pulled
    BY <1>i, <1>q, <2>3 DEF ResetDone, ControllerType, PortRegister
  <2>4. ASSUME portsc' = portsc PROVE \A r \in Ports : ~portsc'[r].pulled
    BY <1>i, <2>4
  <2>5. \/ portsc' = portsc
        \/ \E p \in Ports : Attach(p) \/ Detach(p) \/ ResetDone(p)
    BY DEF Controller, ExecEnableSlot, ExecAddressDevice, ExecOther, ExecTransfer, FailTransfer, ctrlVars
  <2> QED BY <2>1, <2>2, <2>3, <2>4, <2>5
<1>2. SlotsAsked'
  <2>1. nslots' + Cardinality(Entries("EnableSlot")') <= nslots + Cardinality(Entries("EnableSlot"))
    BY ControllerCounts
  <2>2. nslots + Cardinality(Entries("EnableSlot"))
          <= IF Begun = {} THEN 0 ELSE Cardinality(Begun) + Cardinality(Turned) - 1
    BY <1>i DEF SlotsAsked
  <2>3. nslots' + Cardinality(Entries("EnableSlot")')
          <= IF Begun = {} THEN 0 ELSE Cardinality(Begun) + Cardinality(Turned) - 1
    BY <1>n, <2>1, <2>2
  <2> QED BY <1>m, <2>3 DEF SlotsAsked
<1>3. SlotsGiven'
  <2>1. ScratchpadKept'
    BY <1>i, <1>u DEF SlotsGiven, ScratchpadKept
  <2>2. ASSUME NEW i \in DOMAIN eventq', Done(i, "EnableSlot")' PROVE eventq'[i].slot # 0
    <3>1. CASE i \in DOMAIN eventq /\ eventq'[i] = eventq[i]
      BY <1>i, <2>2, <3>1 DEF SlotsGiven, Done
    <3>2. CASE /\ Cardinality(Entries("EnableSlot")) >= 1
               /\ nslots < NumSlots => eventq'[i].slot = nslots + 1
      <4>1. nslots + Cardinality(Entries("EnableSlot"))
              <= IF Begun = {} THEN 0 ELSE Cardinality(Begun) + Cardinality(Turned) - 1
        BY <1>i DEF SlotsAsked
      <4>2. NumSlots >= 2 * NumPorts - 1
        BY DEF Roomy
      <4>3. nslots < NumSlots
        BY <1>n, <3>2, <4>1, <4>2
      <4> QED BY <1>n, <3>2, <4>3
    <3> QED BY <2>2, <3>1, <3>2, ControllerCounts
  <2> QED BY <2>1, <2>2 DEF SlotsGiven
<1>4. ASSUME pc # "input" PROVE EnablesFit' /\ ConfiguresFit' /\ EvaluateInOrder'
  <2>1. Count("EnableSlot")' = Count("EnableSlot") /\ Count("ConfigureEndpoint")' = Count("ConfigureEndpoint")
    BY ControllerCounts
  <2>2. EnablesFit'
    BY <1>4, <1>a, <1>i, <1>m, <2>1 DEF EnablesFit
  <2>3. ConfiguresFit'
    BY <1>4, <1>a, <1>i, <1>m, <1>u, <2>1 DEF ConfiguresFit
  <2>4. PICK h : /\ \A k \in Places', c \in Commands : At(k, c)' => h[k] \in Places /\ At(h[k], c)
                 /\ \A k, l \in Places', b, c \in Commands :
                      At(k, b)' /\ At(l, c)' /\ k < l => h[k] < h[l]
    BY ControllerLine
  <2>5. Places \subseteq Nat /\ Places' \subseteq Nat
    BY <1>q DEF Places, QueueType
  <2>6. EvaluateInOrder'
    BY <1>4, <1>a, <1>i, <1>m, <2>4, <2>5, LineKept
  <2> QED BY <2>2, <2>3, <2>6
<1> QED BY <1>1, <1>2, <1>3, <1>4

\* Places after the kernel has taken d events and has or has not written b.
LEMMA KernelLine ==
  ASSUME QueueType, QueueType', NEW d \in {0, 1}, NEW b \in Commands, NEW s \in Slots,
         d = 0 => eventq' = eventq,
         d = 1 => eventq # <<>> /\ eventq' = Tail(eventq),
         cmd_ring' = cmd_ring \/ cmd_ring' = Append(cmd_ring, Cmd(b, s))
  PROVE  /\ Places \subseteq Nat \ {0} /\ Places' \subseteq Nat \ {0}
         /\ Len(eventq) + Len(cmd_ring) \in Nat
         /\ \A k \in Places : k <= Len(eventq) + Len(cmd_ring)
         /\ \A k \in Places' : k + d <= Len(eventq) + Len(cmd_ring) + 1
         /\ \A k \in Places' : \A c : At(k, c)' =>
              \/ k + d \in Places /\ At(k + d, c)
              \/ c = b /\ k + d = Len(eventq) + Len(cmd_ring) + 1 /\ cmd_ring' # cmd_ring
<1>n. /\ Len(eventq) \in Nat /\ Len(cmd_ring) \in Nat
      /\ DOMAIN cmd_ring = 1 .. Len(cmd_ring) /\ DOMAIN eventq = 1 .. Len(eventq)
      /\ Len(eventq') \in Nat /\ Len(cmd_ring') \in Nat
      /\ DOMAIN cmd_ring' = 1 .. Len(cmd_ring') /\ DOMAIN eventq' = 1 .. Len(eventq')
  BY DEF QueueType
<1>1. /\ Len(eventq') = Len(eventq) - d
      /\ \A i \in DOMAIN eventq' : i + d \in DOMAIN eventq /\ eventq'[i] = eventq[i + d]
  <2>1. CASE d = 0
    <3>1. eventq' = eventq
      BY <2>1
    <3> QED BY ONLY <1>n, <2>1, <3>1
  <2>2. CASE d = 1
    <3>1. Len(eventq') = Len(eventq) - 1
      BY <2>2 DEF QueueType
    <3> QED BY <2>2, <3>1, TailIndex DEF QueueType
  <2> QED BY <2>1, <2>2
<1>2. /\ cmd_ring' = cmd_ring \/ Len(cmd_ring') = Len(cmd_ring) + 1
      /\ \A i \in DOMAIN cmd_ring' :
           \/ i \in DOMAIN cmd_ring /\ cmd_ring'[i] = cmd_ring[i]
           \/ i = Len(cmd_ring) + 1 /\ cmd_ring'[i].cmd = b /\ cmd_ring' # cmd_ring
  <2>1. CASE cmd_ring' = cmd_ring
    BY <2>1
  <2>2. CASE cmd_ring' = Append(cmd_ring, Cmd(b, s))
    <3>1. Len(cmd_ring') = Len(cmd_ring) + 1
      BY <2>2 DEF QueueType
    <3>2. cmd_ring' # cmd_ring
      BY ONLY <1>n, <3>1
    <3> QED BY <2>2, <3>1, <3>2, WriteCommand
  <2> QED BY <2>1, <2>2
<1>3. /\ Places \subseteq Nat \ {0} /\ Places' \subseteq Nat \ {0}
      /\ Len(eventq) + Len(cmd_ring) \in Nat
      /\ \A k \in Places : k <= Len(eventq) + Len(cmd_ring)
  BY ONLY <1>n DEF Places
<1>4. \A k \in Places' : k + d <= Len(eventq) + Len(cmd_ring) + 1
  <2>1. Len(cmd_ring') <= Len(cmd_ring) + 1
    <3>1. CASE cmd_ring' = cmd_ring
      <4>1. Len(cmd_ring') = Len(cmd_ring)
        BY <3>1
      <4> QED BY ONLY <1>n, <4>1
    <3>2. CASE Len(cmd_ring') = Len(cmd_ring) + 1
      BY ONLY <1>n, <3>2
    <3> QED BY <1>2, <3>1, <3>2
  <2>2. Places' = 1 .. Len(eventq') + Len(cmd_ring')
    BY DEF Places
  <2> QED BY ONLY <1>n, <1>1, <2>1, <2>2, d \in {0, 1}
<1>5. ASSUME NEW k \in Places', NEW c, At(k, c)'
      PROVE  \/ k + d \in Places /\ At(k + d, c)
             \/ c = b /\ k + d = Len(eventq) + Len(cmd_ring) + 1 /\ cmd_ring' # cmd_ring
  <2>1. CASE k <= Len(eventq')
    <3>1. k \in DOMAIN eventq' /\ k + d <= Len(eventq) /\ k + d \in Places
      BY ONLY <1>n, <1>1, <2>1, d \in {0, 1}, k \in Places' DEF Places
    <3> QED BY <1>1, <1>5, <2>1, <3>1 DEF At, Done
  <2>2. CASE k > Len(eventq')
    <3>1. /\ k - Len(eventq') \in DOMAIN cmd_ring' /\ k - Len(eventq') = (k + d) - Len(eventq)
          /\ ~(k + d <= Len(eventq)) /\ ~(k <= Len(eventq')) /\ k + d \in Nat
      BY ONLY <1>n, <1>1, <2>2, d \in {0, 1}, k \in Places' DEF Places
    <3>2. cmd_ring'[k - Len(eventq')].cmd = c
      BY <1>5, <3>1 DEF At, Asked
    <3>3. CASE /\ k - Len(eventq') \in DOMAIN cmd_ring
               /\ cmd_ring'[k - Len(eventq')] = cmd_ring[k - Len(eventq')]
      <4>1. k + d \in Places
        BY ONLY <1>n, <3>1, <3>3, d \in {0, 1}, k \in Places' DEF Places
      <4> QED BY <3>1, <3>2, <3>3, <4>1 DEF At, Asked
    <3>4. CASE /\ k - Len(eventq') = Len(cmd_ring) + 1 /\ cmd_ring'[k - Len(eventq')].cmd = b
               /\ cmd_ring' # cmd_ring
      <4>1. c = b
        BY ONLY <3>2, <3>4
      <4>2. k + d = Len(eventq) + Len(cmd_ring) + 1
        <5>1. k \in Nat /\ d \in Nat
          BY <1>3
        <5>2. (k + d) - Len(eventq) = Len(cmd_ring) + 1
          BY ONLY <3>1, <3>4
        <5> QED BY ONLY <1>n, <5>1, <5>2
      <4> QED BY ONLY <3>4, <4>1, <4>2
    <3> QED BY <1>2, <3>1, <3>3, <3>4
  <2> QED BY ONLY <1>n, <2>1, <2>2, k \in Places' DEF Places
<1> QED BY <1>3, <1>4, <1>5

\* A command other than Evaluate Context, written at the end, keeps the order.
LEMMA LineGrown ==
  ASSUME QueueType, QueueType', NEW d \in {0, 1}, NEW b \in Commands, NEW s \in Slots,
         d = 0 => eventq' = eventq,
         d = 1 => eventq # <<>> /\ eventq' = Tail(eventq),
         cmd_ring' = cmd_ring \/ cmd_ring' = Append(cmd_ring, Cmd(b, s)),
         b # "EvaluateContext" \/ cmd_ring' = cmd_ring, Begun \subseteq Begun'
  PROVE  /\ OneEvaluate => OneEvaluate'
         /\ EvaluateFirst => EvaluateFirst'
         /\ EvaluateNext => EvaluateNext'
<1>1. /\ Places \subseteq Nat \ {0} /\ Places' \subseteq Nat \ {0}
      /\ Len(eventq) + Len(cmd_ring) \in Nat
      /\ \A k \in Places : k <= Len(eventq) + Len(cmd_ring)
      /\ \A k \in Places' : k + d <= Len(eventq) + Len(cmd_ring) + 1
      /\ \A k \in Places' : \A c : At(k, c)' =>
           \/ k + d \in Places /\ At(k + d, c)
           \/ c = b /\ k + d = Len(eventq) + Len(cmd_ring) + 1 /\ cmd_ring' # cmd_ring
  BY KernelLine
<1>2. ASSUME NEW k \in Places', At(k, "EvaluateContext")'
      PROVE  k + d \in Places /\ At(k + d, "EvaluateContext")
  BY <1>1, <1>2
<1>3. ASSUME NEW k \in Places', At(k, "EvaluateContext")', NEW i \in Places', i < k, NEW c, At(i, c)'
      PROVE  i + d \in Places /\ At(i + d, c)
  <2>1. k + d \in Places
    BY <1>2, <1>3
  <2>2. i + d # Len(eventq) + Len(cmd_ring) + 1
    BY <1>1, <1>3, <2>1
  <2> QED BY <1>1, <1>3, <2>2
<1>4. ASSUME OneEvaluate PROVE OneEvaluate'
  <2>1. ASSUME NEW i \in Places', At(i, "EvaluateContext")',
               NEW j \in Places', At(j, "EvaluateContext")'
        PROVE  i = j
    <3>1. i + d = j + d
      BY <1>2, <1>4, <2>1 DEF OneEvaluate
    <3> QED BY <1>1, <3>1
  <2>2. ASSUME NEW i \in Places', At(i, "EvaluateContext")' PROVE Begun' # {}
    BY <1>2, <1>4, <2>2 DEF OneEvaluate
  <2> QED BY <2>1, <2>2 DEF OneEvaluate
<1>5. ASSUME EvaluateFirst PROVE EvaluateFirst'
  <2> SUFFICES ASSUME NEW i \in Places', NEW k \in Places', i < k, At(i, "EnableSlot")',
                      At(k, "EvaluateContext")'
               PROVE  FALSE
    BY DEF EvaluateFirst
  <2>1. i + d < k + d
    BY <1>1
  <2> QED BY <1>2, <1>3, <1>5, <2>1 DEF EvaluateFirst
<1>6. ASSUME EvaluateNext PROVE EvaluateNext'
  <2> SUFFICES ASSUME NEW i \in Places', NEW j \in Places', NEW k \in Places', i < j, j < k,
                      At(i, "AddressDevice")', At(j, "EnableSlot")', At(k, "EvaluateContext")'
               PROVE  FALSE
    BY DEF EvaluateNext
  <2>1. i + d < j + d /\ j + d < k + d /\ i < k
    BY <1>1
  <2>2. /\ i + d \in Places /\ At(i + d, "AddressDevice") /\ j + d \in Places /\ At(j + d, "EnableSlot")
        /\ k + d \in Places /\ At(k + d, "EvaluateContext")
    BY <1>2, <1>3, <2>1
  <2> QED BY <1>6, <2>1, <2>2 DEF EvaluateNext
<1> QED BY <1>4, <1>5, <1>6

\* The counts after the kernel has taken d events and has or has not written b.
LEMMA KernelCounts ==
  ASSUME QueueType, QueueType', NEW d \in {0, 1}, NEW b \in Commands, NEW s \in Slots,
         d = 0 => eventq' = eventq,
         d = 1 => eventq # <<>> /\ eventq' = Tail(eventq),
         cmd_ring' = cmd_ring \/ cmd_ring' = Append(cmd_ring, Cmd(b, s)), NEW c
  PROVE  /\ Count(c) \in Nat /\ Count(c)' \in Nat
         /\ Cardinality(Entries(c)) \in Nat /\ Cardinality(Entries(c)') \in Nat
         /\ Cardinality(Entries(c)') <= Cardinality(Entries(c)) + 1
         /\ Count(c)' <= Count(c) + 1
         /\ c # b \/ cmd_ring' = cmd_ring =>
              Entries(c)' = Entries(c) /\ Count(c)' <= Count(c)
         /\ d = 1 /\ Done(1, c) => Count(c)' <= Count(c)
         /\ (d = 1 /\ Done(1, c)) /\ (c # b \/ cmd_ring' = cmd_ring) => Count(c)' + 1 = Count(c)
<1>1. PICK n \in Nat, m \in Nat, n1 \in Nat, m1 \in Nat :
        /\ n = Cardinality(Completions(c)) /\ m = Cardinality(Entries(c))
        /\ n1 = Cardinality(Completions(c)') /\ m1 = Cardinality(Entries(c)')
  BY CountsFinite, CountsFiniteNext
<1>2. Count(c) = n + m /\ Count(c)' = n1 + m1
  BY <1>1 DEF Count
<1>3. n1 <= n /\ (d = 1 /\ Done(1, c) => n = n1 + 1)
  <2>1. CASE d = 0
    <3>1. Completions(c)' = Completions(c)
      BY <2>1 DEF Completions, Done
    <3> QED BY <1>1, <2>1, <3>1
  <2>2. CASE d = 1
    <3>1. (Done(1, c) => n = n1 + 1) /\ (~Done(1, c) => n = n1)
      BY <1>1, <2>2, CountTake
    <3> QED BY <2>2, <3>1
  <2> QED BY <2>1, <2>2
<1>4. m1 <= m + 1 /\ (c # b \/ cmd_ring' = cmd_ring => Entries(c)' = Entries(c) /\ m1 = m)
  <2>1. CASE cmd_ring' = cmd_ring
    <3>1. Entries(c)' = Entries(c)
      BY <2>1 DEF Entries, Asked
    <3> QED BY <1>1, <3>1
  <2>2. CASE cmd_ring' = Append(cmd_ring, Cmd(b, s)) /\ cmd_ring' # cmd_ring
    <3>1. (c = b => m1 = m + 1) /\ (c # b => Entries(c)' = Entries(c))
      BY <1>1, <2>2, CountWrite
    <3> QED BY <1>1, <2>2, <3>1
  <2> QED BY <2>1, <2>2
<1> QED BY ONLY <1>1, <1>2, <1>3, <1>4

\* The slots asked for after a step of the kernel.
LEMMA AskedNext ==
  ASSUME StatusType, QueueType, QueueType', nslots \in Nat, nslots' = nslots, SlotsAsked,
         NEW d \in {0, 1}, NEW b \in Commands, NEW s \in Slots,
         d = 0 => eventq' = eventq,
         d = 1 => eventq # <<>> /\ eventq' = Tail(eventq),
         cmd_ring' = cmd_ring \/ cmd_ring' = Append(cmd_ring, Cmd(b, s)),
         Cardinality(Begun') \in Nat, Cardinality(Turned') \in Nat,
         \/ /\ b # "EnableSlot" \/ cmd_ring' = cmd_ring
            /\ Begun' = Begun /\ Turned' = Turned
         \/ /\ Begun # {} /\ Begun' # {}
            /\ Cardinality(Begun') + Cardinality(Turned') = Cardinality(Begun) + Cardinality(Turned) + 1
         \/ /\ Begun' # {}
            /\ Cardinality(Begun') + Cardinality(Turned') = Cardinality(Begun) + Cardinality(Turned) + 2
  PROVE  SlotsAsked'
<1>1. PICK e \in Nat, e1 \in Nat, r \in Nat, t \in Nat, r1 \in Nat, t1 \in Nat, n \in Nat :
        /\ e = Cardinality(Entries("EnableSlot")) /\ e1 = Cardinality(Entries("EnableSlot")')
        /\ r = Cardinality(Begun) /\ t = Cardinality(Turned)
        /\ r1 = Cardinality(Begun') /\ t1 = Cardinality(Turned') /\ n = nslots
  BY PortSets, CountsFinite, CountsFiniteNext
<1>2. n + e <= IF Begun = {} THEN 0 ELSE r + t - 1
  BY <1>1 DEF SlotsAsked
<1>3. /\ e1 <= e + 1
      /\ b # "EnableSlot" \/ cmd_ring' = cmd_ring => e1 = e
  <2>1. /\ Cardinality(Entries("EnableSlot")') <= Cardinality(Entries("EnableSlot")) + 1
        /\ b # "EnableSlot" \/ cmd_ring' = cmd_ring =>
              Entries("EnableSlot")' = Entries("EnableSlot")
    BY KernelCounts
  <2> QED BY ONLY <1>1, <2>1
<1>4. n + e1 <= IF Begun' = {} THEN 0 ELSE r1 + t1 - 1
  <2>1. CASE /\ b # "EnableSlot" \/ cmd_ring' = cmd_ring
             /\ Begun' = Begun /\ Turned' = Turned
    <3>1. r1 = r /\ t1 = t /\ e1 = e
      BY ONLY <1>1, <1>3, <2>1
    <3> QED BY ONLY <1>2, <2>1, <3>1
  <2>2. CASE Begun # {} /\ Begun' # {} /\ r1 + t1 = r + t + 1
    BY ONLY <1>2, <1>3, <2>2, e \in Nat, e1 \in Nat, r \in Nat, t \in Nat, r1 \in Nat, t1 \in Nat, n \in Nat
  <2>3. CASE Begun' # {} /\ r1 + t1 = r + t + 2
    BY ONLY <1>2, <1>3, <2>3, e \in Nat, e1 \in Nat, r \in Nat, t \in Nat, r1 \in Nat, t1 \in Nat, n \in Nat
  <2> QED BY <1>1, <2>1, <2>2, <2>3
<1> QED BY <1>1, <1>4 DEF SlotsAsked

\* A step that leaves the turn where it is and writes no Evaluate Context
\* Command keeps the order.
LEMMA OrderStays ==
  ASSUME QueueType, QueueType', NEW d \in {0, 1}, NEW b \in Commands, NEW s \in Slots,
         d = 0 => eventq' = eventq,
         d = 1 => eventq # <<>> /\ eventq' = Tail(eventq),
         cmd_ring' = cmd_ring \/ cmd_ring' = Append(cmd_ring, Cmd(b, s)),
         b # "EvaluateContext" \/ cmd_ring' = cmd_ring, Begun \subseteq Begun',
         EvaluateInOrder, AwaitsAddress' <=> AwaitsAddress, InFs' => InFs /\ cmd_ring' = cmd_ring
  PROVE  EvaluateInOrder'
<1>1. /\ OneEvaluate => OneEvaluate'
      /\ EvaluateFirst => EvaluateFirst'
      /\ EvaluateNext => EvaluateNext'
  BY LineGrown
<1>2. /\ Places \subseteq Nat \ {0} /\ Places' \subseteq Nat \ {0}
      /\ \A k \in Places' : \A c : At(k, c)' =>
           \/ k + d \in Places /\ At(k + d, c)
           \/ c = b /\ k + d = Len(eventq) + Len(cmd_ring) + 1 /\ cmd_ring' # cmd_ring
  BY KernelLine
<1>3. ASSUME InFs'
      PROVE  /\ \A k \in Places' : ~At(k, "EvaluateContext")'
             /\ \A i, j \in Places' : i < j /\ At(i, "AddressDevice")' => ~At(j, "EnableSlot")'
  <2>1. \A k \in Places' : \A c : At(k, c)' => k + d \in Places /\ At(k + d, c)
    BY <1>2, <1>3
  <2>2. /\ \A k \in Places : ~At(k, "EvaluateContext")
        /\ \A i, j \in Places : i < j /\ At(i, "AddressDevice") => ~At(j, "EnableSlot")
    BY <1>3 DEF EvaluateInOrder
  <2>3. \A i, j \in Places' : i < j => i + d < j + d
    BY <1>2
  <2> QED BY <2>1, <2>2, <2>3
<1> QED BY <1>1, <1>3 DEF EvaluateInOrder

\* Steps that change no port's state and write no command.
LEMMA QuietLimit ==
  ASSUME Known, Known', Limits, machine' = machine,
         UNCHANGED <<state, current_port, cmd_ring, nslots>>,
         eventq' = eventq \/ (eventq # <<>> /\ eventq' = Tail(eventq)),
         pc' # "input" => pc # "input" /\ (InFs' <=> InFs),
         NumConfigs <= 1 /\ InConf' => state[job'.port] = "GET_DESCRIPTOR"
  PROVE  Limits'
<1>q. StatusType /\ QueueType /\ QueueType' /\ nslots \in Nat /\ 0 \in Slots
  BY Numbers DEF Known, TypeInv, ControllerType, StatusType
<1>m. Begun' = Begun /\ Turned' = Turned /\ Ended' = Ended
  BY SamePorts
<1>b. "EnableSlot" \in Commands
  BY DEF Commands
<1>d. PICK d \in {0, 1} : /\ d = 0 => eventq' = eventq
                          /\ d = 1 => eventq # <<>> /\ eventq' = Tail(eventq)
  <2>1. CASE eventq' = eventq
    <3> WITNESS 0 \in {0, 1}
    <3> QED BY <2>1
  <2>2. CASE eventq # <<>> /\ eventq' = Tail(eventq)
    <3> WITNESS 1 \in {0, 1}
    <3> QED BY <2>2
  <2> QED BY <2>1, <2>2
<1>1. SlotsAsked'
  <2>0. SlotsAsked
    BY DEF Limits
  <2>1. Cardinality(Begun') \in Nat /\ Cardinality(Turned') \in Nat
    BY ONLY <1>m, <1>q, PortSets
  <2> QED BY <1>q, <1>m, <1>b, <1>d, <2>0, <2>1, AskedNext
<1>2. ASSUME pc' # "input" PROVE EnablesFit' /\ ConfiguresFit' /\ EvaluateInOrder'
  <2>1. EnablesFit /\ ConfiguresFit /\ EvaluateInOrder /\ (InFs' <=> InFs)
    BY <1>2 DEF Limits
  <2>2. \A c : Count(c) \in Nat /\ Count(c)' \in Nat /\ Count(c)' <= Count(c)
    BY <1>q, <1>b, <1>d, KernelCounts
  <2>3. (AwaitsEnable' <=> AwaitsEnable) /\ (AwaitsAddress' <=> AwaitsAddress)
    BY <2>1 DEF AwaitsEnable, AwaitsAddress
  <2>4. Cardinality(Begun) \in Nat /\ Cardinality(Ended) \in Nat
    BY <1>q, PortSets
  <2>5. EnablesFit'
    BY <1>m, <2>1, <2>2, <2>3, <2>4 DEF EnablesFit
  <2>6. ConfiguresFit'
    BY <1>m, <2>1, <2>2, <2>4 DEF ConfiguresFit
  <2>7. EvaluateInOrder'
    BY <1>q, <1>m, <1>b, <1>d, <2>1, <2>3, OrderStays
  <2> QED BY <2>5, <2>6, <2>7
<1> QED BY <1>1, <1>2 DEF Limits

\* A port that is enabled asks for a slot and, if nobody has a turn, has one.
LEMMA PortEnabledLimit ==
  ASSUME Known, Known', TurnInv, CommandInv, Limits, \A p \in Ports : ~portsc[p].pulled,
         OnPortEnabled
  PROVE  Limits'
<1>m. machine' = machine
  BY DEF OnPortEnabled
<1>q. /\ StatusType /\ QueueType /\ QueueType' /\ nslots \in Nat /\ 0 \in Slots
      /\ Ports' = Ports /\ None \notin Ports
  BY <1>m, SameMachine, Numbers DEF Known, TypeInv, ControllerType, StatusType
<1>b. "EnableSlot" \in Commands /\ "EnableSlot" # "ConfigureEndpoint" /\ "EnableSlot" # "EvaluateContext"
  BY DEF Commands
<1>h. pc = "loop" /\ eventq # <<>> /\ eventq' = Tail(eventq) /\ Head(eventq) = eventq[1]
      /\ 1 \in DOMAIN eventq /\ Head(eventq).type = "PortStatusChange" /\ Head(eventq).port \in Ports
  BY <1>q, TakeFacts DEF OnPortEnabled
<1>1. PICK p \in Ports : p = Head(eventq).port
  BY <1>h
<1>2. /\ cmd_ring' = Append(cmd_ring, Cmd("EnableSlot", 0))
      /\ current_port' = TurnWhenEnabled(p)
      /\ state' = [state EXCEPT ![p] = StateWhenEnabled]
      /\ nslots' = nslots /\ pc' = "loop"
  BY <1>1, <1>h DEF OnPortEnabled, ctrlVars
<1>3. state[p] = "RESET"
  <2>1. PortOrder(p)
    BY DEF TurnInv, PortsInOrder
  <2>2. Reports(1, p)
    BY <1>h, <1>1 DEF Reports
  <2> QED BY <1>h, <2>1, <2>2 DEF PortOrder
<1>4. /\ state \in [Ports -> DeviceStates] /\ current_port \in Ports \cup {None}
      /\ current_port # None => state[current_port] \in {"ENABLE_SLOT", "ADDRESS_DEVICE"}
  BY <1>q DEF StatusType, TurnInv, OneAtATime
<1>5. state' = [state EXCEPT ![p] = IF current_port = None THEN "ENABLE_SLOT" ELSE "WAIT_ENABLE_SLOT"]
  BY <1>2 DEF StateWhenEnabled
<1>6. /\ Begun' = Begun \cup {p} /\ p \notin Begun /\ Ended' = Ended
      /\ p \notin Turned
      /\ Turned' = IF current_port = None THEN Turned \cup {p} ELSE Turned
  BY <1>3, <1>4, <1>5, <1>q DEF Begun, Turned, Ended
<1>f. /\ IsFiniteSet(Begun) /\ IsFiniteSet(Turned)
      /\ Cardinality(Begun) \in Nat /\ Cardinality(Turned) \in Nat /\ Cardinality(Ended) \in Nat
  BY <1>q, PortSets
<1>7. /\ Cardinality(Begun') = Cardinality(Begun) + 1
      /\ Cardinality(Turned') = IF current_port = None THEN Cardinality(Turned) + 1 ELSE Cardinality(Turned)
  BY <1>6, <1>f, FS_AddElement
<1>8. SlotsAsked'
  <2>1. /\ SlotsAsked /\ Begun' # {}
        /\ Cardinality(Begun') \in Nat /\ Cardinality(Turned') \in Nat
        /\ current_port # None => Begun # {}
    BY <1>4, <1>6, <1>7, <1>f DEF Limits, Begun
  <2>2. \/ /\ Begun # {}
           /\ Cardinality(Begun') + Cardinality(Turned') = Cardinality(Begun) + Cardinality(Turned) + 1
        \/ Cardinality(Begun') + Cardinality(Turned') = Cardinality(Begun) + Cardinality(Turned) + 2
    BY <1>7, <1>f, <2>1
  <2>3. 1 \in {0, 1} /\ (1 = 0 => eventq' = eventq)
    OBVIOUS
  <2> QED BY <1>2, <1>q, <1>h, <1>b, <2>1, <2>2, <2>3, AskedNext
<1>i. EnablesFit /\ ConfiguresFit /\ EvaluateInOrder
  BY <1>h DEF Limits
<1>w. ~InFs /\ ~InFs' /\ ~InConf'
  BY <1>h, <1>2 DEF InFs, InConf
<1>c. /\ Count("EnableSlot") \in Nat /\ Count("EnableSlot")' \in Nat
      /\ Count("EnableSlot")' <= Count("EnableSlot") + 1
      /\ Count("ConfigureEndpoint") \in Nat /\ Count("ConfigureEndpoint")' \in Nat
      /\ Count("ConfigureEndpoint")' <= Count("ConfigureEndpoint")
  <2>1. 1 \in {0, 1} /\ (1 = 0 => eventq' = eventq)
    OBVIOUS
  <2> QED BY <1>2, <1>q, <1>h, <1>b, <2>1, KernelCounts
<1>a. /\ current_port = None => AwaitsEnable' /\ ~AwaitsAddress' /\ ~AwaitsAddress
      /\ current_port # None => (AwaitsEnable' <=> AwaitsEnable) /\ (AwaitsAddress' <=> AwaitsAddress)
  BY <1>2, <1>3, <1>4, <1>5, <1>q, <1>w DEF AwaitsEnable, AwaitsAddress, TurnWhenEnabled
<1>9. EnablesFit'
  <2>1. CASE current_port = None
    <3>1. Count("EnableSlot") = 0
      BY <1>h, <1>q, <2>1, NoPlace DEF CommandInv, NothingStray
    <3> QED BY <1>7, <1>a, <1>c, <1>f, <2>1, <3>1 DEF EnablesFit
  <2>2. CASE current_port # None
    BY <1>7, <1>a, <1>c, <1>f, <1>i, <2>2 DEF EnablesFit
  <2> QED BY <2>1, <2>2
<1>10. ConfiguresFit'
  BY <1>6, <1>c, <1>f, <1>i, <1>w DEF ConfiguresFit
<1>11. EvaluateInOrder'
  <2>1. 1 \in {0, 1} /\ (1 = 0 => eventq' = eventq) /\ Begun \subseteq Begun'
        /\ (AwaitsAddress' <=> AwaitsAddress)
    BY <1>6, <1>a
  <2> QED BY <1>2, <1>q, <1>h, <1>b, <1>i, <1>w, <2>1, OrderStays
<1> QED BY <1>8, <1>9, <1>10, <1>11 DEF Limits

\* The port whose turn it is is given a slot; an Evaluate Context Command
\* would have been handled before.
LEMMA EnableSlotLimit ==
  ASSUME Known, Known', TurnInv, CommandInv, Limits, \A p \in Ports : ~portsc[p].pulled,
         OnEnableSlot
  PROVE  Limits'
<1>m. machine' = machine
  BY DEF OnEnableSlot
<1>q. /\ StatusType /\ QueueType /\ QueueType' /\ nslots \in Nat
      /\ Ports' = Ports /\ None \notin Ports
  BY <1>m, SameMachine, Numbers DEF Known, TypeInv, ControllerType, StatusType
<1>b. "AddressDevice" \in Commands /\ "AddressDevice" # "EnableSlot"
      /\ "AddressDevice" # "ConfigureEndpoint" /\ "AddressDevice" # "EvaluateContext"
  BY DEF Commands
<1>h. pc = "loop" /\ eventq # <<>> /\ eventq' = Tail(eventq) /\ Head(eventq) = eventq[1]
      /\ 1 \in DOMAIN eventq /\ Head(eventq).type = "Command" /\ Head(eventq).slot \in Slots
  BY <1>q, TakeFacts DEF OnEnableSlot
<1>1. PICK s \in Slots : s = Head(eventq).slot
  BY <1>h
<1>2. /\ cmd_ring' = Append(cmd_ring, Cmd("AddressDevice", s))
      /\ current_port' = current_port /\ nslots' = nslots
      /\ current_port # None /\ state[current_port] = "ENABLE_SLOT"
      /\ \/ pc' = "fs_req" /\ state' = state
         \/ pc' = pc /\ state' = [state EXCEPT ![current_port] = "ADDRESS_DEVICE"]
      /\ Done(1, "EnableSlot")
  BY <1>1, <1>h DEF OnEnableSlot, ctrlVars, Serving, Done
<1>3. state \in [Ports -> DeviceStates] /\ current_port \in Ports
  BY <1>2, <1>q DEF StatusType
<1>4. Begun' = Begun /\ Turned' = Turned /\ Ended' = Ended
  BY <1>2, <1>3, <1>q DEF Begun, Turned, Ended
<1>f. Cardinality(Begun) \in Nat /\ Cardinality(Turned) \in Nat /\ Cardinality(Ended) \in Nat
  BY <1>q, PortSets
<1>z. 1 \in {0, 1} /\ (1 = 0 => eventq' = eventq)
  OBVIOUS
<1>5. SlotsAsked'
  <2>1. SlotsAsked /\ Cardinality(Begun') \in Nat /\ Cardinality(Turned') \in Nat
    BY <1>4, <1>f DEF Limits
  <2> QED BY <1>2, <1>4, <1>q, <1>h, <1>b, <1>z, <2>1, AskedNext
<1>i. EnablesFit /\ ConfiguresFit /\ EvaluateInOrder
  BY <1>h DEF Limits
<1>w. ~InFs /\ ~InConf' /\ AwaitsEnable /\ ~AwaitsAddress /\ ~AwaitsEnable' /\ AwaitsAddress'
  BY <1>h, <1>2, <1>3 DEF InFs, InConf, AwaitsEnable, AwaitsAddress
<1>c. /\ Count("EnableSlot") \in Nat /\ Count("EnableSlot")' \in Nat
      /\ Count("EnableSlot")' + 1 = Count("EnableSlot")
      /\ Count("ConfigureEndpoint") \in Nat /\ Count("ConfigureEndpoint")' \in Nat
      /\ Count("ConfigureEndpoint")' <= Count("ConfigureEndpoint")
  BY <1>2, <1>q, <1>h, <1>b, <1>z, KernelCounts
<1>6. EnablesFit'
  BY <1>4, <1>c, <1>f, <1>i, <1>w DEF EnablesFit
<1>7. ConfiguresFit'
  BY <1>4, <1>c, <1>f, <1>i, <1>w DEF ConfiguresFit
<1>l. /\ Places \subseteq Nat \ {0} /\ Places' \subseteq Nat \ {0}
      /\ \A k \in Places' : k + 1 <= Len(eventq) + Len(cmd_ring) + 1
      /\ Len(eventq) + Len(cmd_ring) \in Nat
      /\ \A k \in Places' : \A c : At(k, c)' =>
           \/ k + 1 \in Places /\ At(k + 1, c)
           \/ c = "AddressDevice" /\ k + 1 = Len(eventq) + Len(cmd_ring) + 1 /\ cmd_ring' # cmd_ring
  BY <1>2, <1>q, <1>h, <1>b, <1>z, KernelLine
<1>8. 1 \in Places /\ At(1, "EnableSlot") /\ ~At(1, "EvaluateContext")
  <2>1. 1 \in Completions("EnableSlot")
    BY <1>h, <1>2 DEF Completions
  <2>2. 1 \in Places /\ At(1, "EnableSlot") /\ 1 <= Len(eventq)
    BY <1>q, <2>1, PlaceOf
  <2> QED BY <1>2, <2>2 DEF At, Done
<1>9. \A k \in Places : ~At(k, "EvaluateContext")
  <2>1. EvaluateFirst
    BY <1>i, <1>w DEF EvaluateInOrder
  <2>2. \A k \in Places : k = 1 \/ 1 < k
    BY <1>l
  <2> QED BY <1>8, <2>1, <2>2 DEF EvaluateFirst
<1>10. \A k \in Places' : ~At(k, "EvaluateContext")'
  BY <1>b, <1>l, <1>9
<1>11. \A k \in Places : ~At(k, "AddressDevice")
  <2>1. NoneAsked("AddressDevice")
    BY <1>h, <1>w DEF CommandInv, NothingStray
  <2>2. Completions("AddressDevice") = {} /\ Entries("AddressDevice") = {}
    BY <2>1 DEF NoneAsked, Completions, Entries
  <2> QED BY <1>q, <2>2, PlaceOf
<1>12. ASSUME NEW i \in Places', NEW j \in Places', i < j, At(i, "AddressDevice")', At(j, "EnableSlot")'
       PROVE  FALSE
  <2>1. i + 1 = Len(eventq) + Len(cmd_ring) + 1
    BY <1>l, <1>11, <1>12
  <2>2. j + 1 <= Len(eventq) + Len(cmd_ring) + 1 /\ i \in Nat /\ j \in Nat
    BY <1>l
  <2> QED BY <1>12, <1>l, <2>1, <2>2
<1>13. EvaluateInOrder'
  BY <1>10, <1>12, <1>w DEF EvaluateInOrder, OneEvaluate, EvaluateNext
<1> QED BY <1>5, <1>6, <1>7, <1>13 DEF Limits

\* handle_enable_slot ends; its Evaluate Context Command is the only one.
LEMMA MaxPacketSizeLimit ==
  ASSUME Known, Known', TurnInv, Limits, ReadMaxPacketSize
  PROVE  Limits'
<1>m. machine' = machine
  BY DEF ReadMaxPacketSize
<1>q. /\ StatusType /\ QueueType /\ QueueType' /\ nslots \in Nat /\ job.slot \in Slots
      /\ Ports' = Ports /\ None \notin Ports
  BY <1>m, SameMachine, Numbers DEF Known, TypeInv, ControllerType, StatusType, JobType
<1>b. "EvaluateContext" \in Commands /\ "EvaluateContext" # "EnableSlot"
      /\ "EvaluateContext" # "ConfigureEndpoint" /\ "EvaluateContext" # "AddressDevice"
  BY DEF Commands
<1>1. PICK s \in Slots : s = job.slot
  BY <1>q
<1>2. /\ cmd_ring' = cmd_ring \/ cmd_ring' = Append(cmd_ring, Cmd("EvaluateContext", s))
      /\ current_port' = current_port /\ nslots' = nslots /\ eventq' = eventq
      /\ state' = [state EXCEPT ![current_port] = "ADDRESS_DEVICE"]
      /\ pc = "fs_read" /\ pc' = "loop"
  BY <1>1 DEF ReadMaxPacketSize, ctrlVars, KernelAt
<1>w. InFs /\ ~InFs' /\ ~InConf'
  BY <1>2 DEF InFs, InConf
<1>3. state \in [Ports -> DeviceStates] /\ current_port \in Ports /\ state[current_port] = "ENABLE_SLOT"
  BY <1>q, <1>w DEF StatusType, TurnInv, HandlerPort
<1>4. Begun' = Begun /\ Turned' = Turned /\ Ended' = Ended /\ Begun # {}
  BY <1>2, <1>3, <1>q DEF Begun, Turned, Ended
<1>f. Cardinality(Begun) \in Nat /\ Cardinality(Turned) \in Nat /\ Cardinality(Ended) \in Nat
  BY <1>q, PortSets
<1>z. 0 \in {0, 1} /\ (0 = 1 => eventq # <<>> /\ eventq' = Tail(eventq))
  OBVIOUS
<1>5. SlotsAsked'
  <2>1. SlotsAsked /\ Cardinality(Begun') \in Nat /\ Cardinality(Turned') \in Nat
    BY <1>4, <1>f DEF Limits
  <2> QED BY <1>2, <1>4, <1>q, <1>b, <1>z, <2>1, AskedNext
<1>i. EnablesFit /\ ConfiguresFit /\ EvaluateInOrder
  BY <1>2 DEF Limits
<1>a. AwaitsAddress /\ AwaitsAddress' /\ ~AwaitsEnable'
  BY <1>2, <1>3, <1>q, <1>w DEF AwaitsEnable, AwaitsAddress
<1>c. /\ Count("EnableSlot") \in Nat /\ Count("EnableSlot")' \in Nat
      /\ Count("EnableSlot")' <= Count("EnableSlot")
      /\ Count("ConfigureEndpoint") \in Nat /\ Count("ConfigureEndpoint")' \in Nat
      /\ Count("ConfigureEndpoint")' <= Count("ConfigureEndpoint")
  BY <1>2, <1>q, <1>b, <1>z, KernelCounts
<1>6. EnablesFit'
  BY <1>4, <1>a, <1>c, <1>f, <1>i DEF EnablesFit
<1>7. ConfiguresFit'
  BY <1>4, <1>c, <1>f, <1>i, <1>w DEF ConfiguresFit
<1>l. /\ Places \subseteq Nat \ {0} /\ Places' \subseteq Nat \ {0}
      /\ \A k \in Places' : k + 0 <= Len(eventq) + Len(cmd_ring) + 1
      /\ Len(eventq) + Len(cmd_ring) \in Nat
      /\ \A k \in Places' : \A c : At(k, c)' =>
           \/ k + 0 \in Places /\ At(k + 0, c)
           \/ /\ c = "EvaluateContext" /\ k + 0 = Len(eventq) + Len(cmd_ring) + 1
              /\ cmd_ring' # cmd_ring
  BY <1>2, <1>q, <1>b, <1>z, KernelLine
<1>8. \A k \in Places' : k + 0 = k
  BY <1>l
<1>9. /\ \A k \in Places' : At(k, "EvaluateContext")' => k = Len(eventq) + Len(cmd_ring) + 1
      /\ \A k \in Places' : \A c : c # "EvaluateContext" /\ At(k, c)' => k \in Places /\ At(k, c)
  <2>1. \A k \in Places : ~At(k, "EvaluateContext")
    BY <1>i, <1>w DEF EvaluateInOrder
  <2> QED BY <1>l, <1>8, <2>1
<1>10. OneEvaluate'
  BY <1>4, <1>9 DEF OneEvaluate
<1>11. EvaluateNext'
  <2> SUFFICES ASSUME NEW i \in Places', NEW j \in Places', NEW k \in Places', i < j, j < k,
                      At(i, "AddressDevice")', At(j, "EnableSlot")'
               PROVE  FALSE
    BY DEF EvaluateNext
  <2>1. i \in Places /\ At(i, "AddressDevice") /\ j \in Places /\ At(j, "EnableSlot")
    BY <1>9, <1>b
  <2> QED BY <1>i, <1>w, <2>1 DEF EvaluateInOrder
<1>12. EvaluateInOrder'
  BY <1>10, <1>11, <1>a, <1>w DEF EvaluateInOrder
<1> QED BY <1>5, <1>6, <1>7, <1>12 DEF Limits

\* The turn is passed on, and another slot asked for.
LEMMA AddressDeviceLimit ==
  ASSUME Known, Known', TurnInv, Limits, \A p \in Ports : ~portsc[p].pulled,
         OnAddressDevice
  PROVE  Limits'
<1>m. machine' = machine
  BY DEF OnAddressDevice
<1>q. /\ StatusType /\ QueueType /\ QueueType' /\ nslots \in Nat /\ 0 \in Slots
      /\ Ports' = Ports /\ None \notin Ports /\ machine \in Machines
  BY <1>m, SameMachine, Numbers DEF Known, TypeInv, ControllerType, StatusType
<1>b. "EnableSlot" \in Commands /\ "EnableSlot" # "ConfigureEndpoint" /\ "EnableSlot" # "EvaluateContext"
  BY DEF Commands
<1>h. pc = "loop" /\ eventq # <<>> /\ eventq' = Tail(eventq) /\ Head(eventq) = eventq[1]
      /\ 1 \in DOMAIN eventq /\ Head(eventq).type = "Command"
  BY <1>q, TakeFacts DEF OnAddressDevice
<1> DEFINE st == [state EXCEPT ![current_port] = "GET_DESCRIPTOR"]
           next == LastWaiting(st)
<1>2. /\ cmd_ring' = AskSlotFor(next) /\ current_port' = next
      /\ state' = IF next = None THEN st ELSE [st EXCEPT ![next] = "ENABLE_SLOT"]
      /\ nslots' = nslots /\ pc' = "loop"
      /\ current_port # None /\ state[current_port] = "ADDRESS_DEVICE"
      /\ Done(1, "AddressDevice")
  BY <1>h DEF OnAddressDevice, ctrlVars, Serving, Done
<1>3. state \in [Ports -> DeviceStates] /\ current_port \in Ports
  BY <1>2, <1>q DEF StatusType
<1>4. next = None \/ (next \in Ports /\ st[next] = "WAIT_ENABLE_SLOT")
  BY <1>q, LastWaitingIs DEF WaitingPorts
<1>5. /\ st \in [Ports -> DeviceStates] /\ st[current_port] = "GET_DESCRIPTOR"
      /\ \A p \in Ports : p # current_port => st[p] = state[p]
  BY <1>3 DEF DeviceStates
<1> HIDE DEF next, st
<1>6. /\ cmd_ring' = cmd_ring \/ cmd_ring' = Append(cmd_ring, Cmd("EnableSlot", 0))
      /\ next = None => cmd_ring' = cmd_ring
  BY <1>2 DEF AskSlotFor
<1>7. /\ Begun' = Begun /\ Ended' = Ended /\ Begun # {}
      /\ next = None => Turned' = Turned
      /\ next # None => Turned' = Turned \cup {next} /\ next \notin Turned
  <2>1. CASE next = None
    BY <1>2, <1>3, <1>5, <1>q, <2>1 DEF Begun, Turned, Ended
  <2>2. CASE next # None
    <3>1. /\ next \in Ports /\ next # current_port /\ state[next] = "WAIT_ENABLE_SLOT"
          /\ state' = [st EXCEPT ![next] = "ENABLE_SLOT"]
      BY <1>2, <1>4, <1>5, <2>2
    <3>2. /\ state'[next] = "ENABLE_SLOT" /\ state'[current_port] = "GET_DESCRIPTOR"
          /\ \A p \in Ports : p # next /\ p # current_port => state'[p] = state[p]
      BY <1>3, <1>5, <3>1
    <3> QED BY <1>2, <1>3, <1>q, <2>2, <3>1, <3>2 DEF Begun, Turned, Ended
  <2> QED BY <2>1, <2>2
<1>f. /\ IsFiniteSet(Turned)
      /\ Cardinality(Begun) \in Nat /\ Cardinality(Turned) \in Nat /\ Cardinality(Ended) \in Nat
  BY <1>q, PortSets
<1>8. Cardinality(Turned') = IF next = None THEN Cardinality(Turned) ELSE Cardinality(Turned) + 1
  BY <1>7, <1>f, FS_AddElement
<1>z. 1 \in {0, 1} /\ (1 = 0 => eventq' = eventq)
  OBVIOUS
<1>9. SlotsAsked'
  <2>1. SlotsAsked /\ Begun' # {} /\ Cardinality(Begun') \in Nat /\ Cardinality(Turned') \in Nat
    BY <1>7, <1>8, <1>f DEF Limits
  <2>2. \/ cmd_ring' = cmd_ring /\ Begun' = Begun /\ Turned' = Turned
        \/ /\ Begun # {}
           /\ Cardinality(Begun') + Cardinality(Turned') = Cardinality(Begun) + Cardinality(Turned) + 1
    <3>1. CASE next = None
      BY ONLY <1>6, <1>7, <3>1
    <3>2. CASE next # None
      <4>1. PICK b \in Nat, t \in Nat : b = Cardinality(Begun) /\ t = Cardinality(Turned)
        BY ONLY <1>f
      <4>2. Cardinality(Begun') = b /\ Cardinality(Turned') = t + 1
        BY ONLY <1>7, <1>8, <3>2, <4>1
      <4> QED BY ONLY <1>7, <4>1, <4>2
    <3> QED BY ONLY <3>1, <3>2
  <2> QED BY <1>2, <1>6, <1>q, <1>h, <1>b, <1>z, <2>1, <2>2, AskedNext
<1>i. EnablesFit /\ ConfiguresFit /\ EvaluateInOrder
  BY <1>h DEF Limits
<1>w. ~InFs /\ ~InFs' /\ ~InConf' /\ AwaitsAddress
  BY <1>h, <1>2 DEF InFs, InConf, AwaitsAddress
<1>a. ~AwaitsAddress' /\ (AwaitsEnable' => next # None)
  <2>1. next # None => state'[next] = "ENABLE_SLOT"
    BY <1>2, <1>4, <1>5
  <2> QED BY <1>2, <1>w, <2>1 DEF AwaitsEnable, AwaitsAddress
<1>c. /\ Count("EnableSlot") \in Nat /\ Count("EnableSlot")' \in Nat
      /\ Count("EnableSlot")' <= Count("EnableSlot") + 1
      /\ Count("ConfigureEndpoint") \in Nat /\ Count("ConfigureEndpoint")' \in Nat
      /\ Count("ConfigureEndpoint")' <= Count("ConfigureEndpoint")
  BY <1>6, <1>q, <1>h, <1>b, <1>z, KernelCounts
<1>10. EnablesFit'
  BY <1>7, <1>a, <1>c, <1>f, <1>i, <1>w DEF EnablesFit
<1>11. ConfiguresFit'
  BY <1>7, <1>c, <1>f, <1>i, <1>w DEF ConfiguresFit
<1>12. OneEvaluate'
  <2>1. OneEvaluate /\ Begun \subseteq Begun'
    BY <1>7, <1>i DEF EvaluateInOrder
  <2> QED BY <1>6, <1>q, <1>h, <1>b, <1>z, <2>1, LineGrown
<1>l. /\ Places \subseteq Nat \ {0} /\ Places' \subseteq Nat \ {0}
      /\ Len(eventq) + Len(cmd_ring) \in Nat
      /\ \A k \in Places' : k + 1 <= Len(eventq) + Len(cmd_ring) + 1
      /\ \A k \in Places : k <= Len(eventq) + Len(cmd_ring)
      /\ \A k \in Places' : \A c : At(k, c)' =>
           \/ k + 1 \in Places /\ At(k + 1, c)
           \/ c = "EnableSlot" /\ k + 1 = Len(eventq) + Len(cmd_ring) + 1 /\ cmd_ring' # cmd_ring
  BY <1>6, <1>q, <1>h, <1>b, <1>z, KernelLine
<1>13. 1 \in Places /\ At(1, "AddressDevice")
  <2>1. 1 \in Completions("AddressDevice")
    BY <1>h, <1>2 DEF Completions
  <2> QED BY <1>q, <2>1, PlaceOf
<1>14. EvaluateFirst'
  <2> SUFFICES ASSUME NEW i \in Places', NEW k \in Places', i < k, At(i, "EnableSlot")',
                      At(k, "EvaluateContext")'
               PROVE  FALSE
    BY DEF EvaluateFirst
  <2>1. k + 1 \in Places /\ At(k + 1, "EvaluateContext")
    BY <1>b, <1>l
  <2>2. i \in Nat \ {0} /\ k \in Nat /\ i + 1 # Len(eventq) + Len(cmd_ring) + 1
    BY <1>l, <2>1
  <2>3. i + 1 \in Places /\ At(i + 1, "EnableSlot")
    BY <1>l, <2>2
  <2>4. 1 < i + 1 /\ i + 1 < k + 1
    BY <2>2
  <2>5. EvaluateNext
    BY <1>i, <1>w DEF EvaluateInOrder
  <2> QED BY <1>13, <2>1, <2>3, <2>4, <2>5 DEF EvaluateNext
<1>15. EvaluateInOrder'
  BY <1>12, <1>14, <1>a, <1>w DEF EvaluateInOrder
<1> QED BY <1>9, <1>10, <1>11, <1>15 DEF Limits

\* A configuration has been gone through, and its device may be configured.
LEMMA ParseLimit ==
  ASSUME Known, Known', TurnInv, Limits, \A p \in Ports : ~portsc[p].pulled,
         ParseConfiguration
  PROVE  Limits'
<1>m. machine' = machine
  BY DEF ParseConfiguration
<1>q. /\ StatusType /\ QueueType /\ QueueType' /\ nslots \in Nat /\ job.slot \in Slots
      /\ Ports' = Ports /\ None \notin Ports
  BY <1>m, SameMachine, Numbers DEF Known, TypeInv, ControllerType, StatusType, JobType
<1>b. "ConfigureEndpoint" \in Commands /\ "ConfigureEndpoint" # "EnableSlot"
      /\ "ConfigureEndpoint" # "EvaluateContext"
  BY DEF Commands
<1>h. pc = "conf_parse" /\ InConf /\ ~InFs
  BY DEF ParseConfiguration, KernelAt, InConf, InFs
<1>j. job.port \in Ports /\ job.index \in Nat /\ job.count \in Nat
      /\ job.index < job.count /\ job.count <= NumConfigs
  BY <1>h DEF Known, TypeInv, JobType
<1>1. PICK s \in Slots, p \in Ports : s = job.slot /\ p = job.port
  BY <1>j, <1>q
<1>2. /\ cmd_ring' = cmd_ring \/ cmd_ring' = Append(cmd_ring, Cmd("ConfigureEndpoint", s))
      /\ current_port' = current_port /\ nslots' = nslots /\ eventq' = eventq
      /\ state' = [state EXCEPT ![p] = "END_OF_INITIALIZE"]
  BY <1>1 DEF ParseConfiguration, ctrlVars
<1>w. ~InFs' /\ pc' # "input"
  BY DEF ParseConfiguration, InFs
<1>i. EnablesFit /\ ConfiguresFit /\ EvaluateInOrder
  BY <1>h DEF Limits
<1>4. /\ state \in [Ports -> DeviceStates] /\ state[p] \in {"GET_DESCRIPTOR", "END_OF_INITIALIZE"}
      /\ current_port # None => current_port \in Ports /\ current_port # p
  <2>1. state[p] \in {"GET_DESCRIPTOR", "END_OF_INITIALIZE"}
    BY <1>1, <1>h DEF TurnInv, HandlerPort
  <2> QED BY <1>q, <2>1 DEF StatusType, TurnInv, OneAtATime
<1>5. Begun' = Begun /\ Turned' = Turned
  BY <1>2, <1>4, <1>q DEF Begun, Turned
<1>f. /\ IsFiniteSet(Ended)
      /\ Cardinality(Begun) \in Nat /\ Cardinality(Turned) \in Nat /\ Cardinality(Ended) \in Nat
  BY <1>q, PortSets
<1>z. 0 \in {0, 1} /\ (0 = 1 => eventq # <<>> /\ eventq' = Tail(eventq))
  OBVIOUS
<1>7. SlotsAsked'
  <2>1. SlotsAsked /\ Cardinality(Begun') \in Nat /\ Cardinality(Turned') \in Nat
    BY <1>5, <1>f DEF Limits
  <2> QED BY <1>2, <1>5, <1>q, <1>b, <1>z, <2>1, AskedNext
<1>a. (AwaitsEnable' <=> AwaitsEnable) /\ (AwaitsAddress' <=> AwaitsAddress)
  BY <1>2, <1>4, <1>h, <1>w DEF AwaitsEnable, AwaitsAddress
<1>c. /\ Count("EnableSlot") \in Nat /\ Count("EnableSlot")' \in Nat
      /\ Count("EnableSlot")' <= Count("EnableSlot")
      /\ Count("ConfigureEndpoint") \in Nat /\ Count("ConfigureEndpoint")' \in Nat
      /\ Count("ConfigureEndpoint")' <= Count("ConfigureEndpoint") + 1
  BY <1>2, <1>q, <1>b, <1>z, KernelCounts
<1>8. EnablesFit'
  BY <1>5, <1>a, <1>c, <1>f, <1>i DEF EnablesFit
<1>9. ConfiguresFit'
  <2> SUFFICES ASSUME NumConfigs <= 1
               PROVE  Count("ConfigureEndpoint")' <= Cardinality(Ended') /\ ~InConf'
    BY DEF ConfiguresFit
  <2>1. ~(job.index + 1 < job.count)
    BY <1>j, ModeAssumption
  <2>2. ~InConf'
    BY <2>1 DEF ParseConfiguration, InConf
  <2>3. state[p] = "GET_DESCRIPTOR"
    BY <1>1, <1>h, <1>i DEF ConfiguresFit
  <2>4. Ended' = Ended \cup {p} /\ p \notin Ended
    BY <1>2, <1>4, <1>q, <2>3 DEF Ended
  <2>5. Cardinality(Ended') = Cardinality(Ended) + 1
    BY <1>f, <2>4, FS_AddElement
  <2>6. Count("ConfigureEndpoint")' <= Cardinality(Ended')
    BY <1>c, <1>f, <1>i, <2>5 DEF ConfiguresFit
  <2> QED BY <2>2, <2>6
<1>10. EvaluateInOrder'
  <2>1. Begun \subseteq Begun'
    BY <1>5
  <2> QED BY <1>2, <1>q, <1>b, <1>z, <1>i, <1>a, <1>w, <2>1, OrderStays
<1> QED BY <1>7, <1>8, <1>9, <1>10 DEF Limits

\* Each step of the kernel keeps within the limits.
LEMMA KernelLimit ==
  ASSUME Known, Known', TurnInv, CommandInv, LimitInv, Kernel
  PROVE  LimitInv'
<1> USE DEF statusVars, ctrlVars
<1>m. machine' = machine
  BY MachineStays DEF Next
<1>s. Ports' = Ports /\ Roomy' = Roomy /\ Slots' = Slots
  BY <1>m, SameMachine DEF Roomy
<1>q. StatusType /\ QueueType /\ JobType
  BY DEF Known, TypeInv
<1> SUFFICES ASSUME Roomy
             PROVE  (\A p \in Ports : ~portsc'[p].pulled) /\ SlotsGiven' /\ Limits'
  BY <1>s DEF LimitInv
<1>i. (\A p \in Ports : ~portsc[p].pulled) /\ SlotsGiven /\ Limits
  BY DEF LimitInv
<1>1. \A p \in Ports : ~portsc'[p].pulled
  BY <1>i, KernelLeaves
<1>e. eventq' = eventq \/ (eventq # <<>> /\ eventq' = Tail(eventq))
  BY KernelEvents DEF Known
<1>2. SlotsGiven'
  <2>1. \A i \in DOMAIN eventq' : Done(i, "EnableSlot")' => eventq'[i].slot # 0
    <3>1. CASE eventq' = eventq
      BY <1>i, <3>1 DEF SlotsGiven, Done
    <3>2. CASE \A i \in DOMAIN eventq' : i + 1 \in DOMAIN eventq /\ eventq'[i] = eventq[i + 1]
      BY <1>i, <3>2 DEF SlotsGiven, Done
    <3> QED BY <3>1, <3>2, KernelEvents DEF Known
  <2>2. ScratchpadKept'
    <3>1. CASE UNCHANGED device_contexts
      BY <1>i, <3>1 DEF SlotsGiven, ScratchpadKept
    <3>2. CASE OnEnableSlot
      <4>1. /\ Head(eventq) = eventq[1] /\ 1 \in DOMAIN eventq /\ Head(eventq).slot \in Slots
            /\ Head(eventq).type = "Command"
        BY <1>q, <3>2, TakeFacts DEF OnEnableSlot
      <4>2. Done(1, "EnableSlot")
        BY <3>2, <4>1 DEF OnEnableSlot, Done
      <4>3. Head(eventq).slot # 0
        BY <1>i, <4>1, <4>2 DEF SlotsGiven
      <4>4. device_contexts' = [device_contexts EXCEPT ![Head(eventq).slot] = current_port]
        BY <3>2 DEF OnEnableSlot
      <4>5. device_contexts'[0] = device_contexts[0]
        BY <1>q, <4>3, <4>4, Numbers DEF StatusType
      <4> QED BY <1>i, <4>5 DEF SlotsGiven, ScratchpadKept
    <3> QED BY <3>1, <3>2, KernelLeaves
  <2> QED BY <2>1, <2>2 DEF SlotsGiven
<1>3. CASE OnPortEnabled
  BY <1>i, <1>1, <1>2, <1>3, PortEnabledLimit
<1>4. CASE OnEnableSlot
  BY <1>i, <1>1, <1>2, <1>4, EnableSlotLimit
<1>5. CASE ReadMaxPacketSize
  BY <1>i, <1>1, <1>2, <1>5, MaxPacketSizeLimit
<1>6. CASE OnAddressDevice
  BY <1>i, <1>1, <1>2, <1>6, AddressDeviceLimit
<1>7. CASE ParseConfiguration
  BY <1>i, <1>1, <1>2, <1>7, ParseLimit
<1>8. CASE \/ OnPortDisabled \/ OnOtherCommand \/ OnDescriptor \/ OnOtherTransfer
           \/ RequestMaxPacketSize \/ RequestConfiguration \/ ReadConfigurationHeader
           \/ ReturnToMain \/ read_usb_keyboard
  <2>1. UNCHANGED <<state, current_port, cmd_ring, nslots>>
    BY <1>8 DEF OnPortDisabled, OnOtherCommand, OnDescriptor, OnOtherTransfer, RequestMaxPacketSize,
                RequestConfiguration, ReadConfigurationHeader, ReturnToMain, read_usb_keyboard
  <2>2. pc' # "input" => pc # "input" /\ (InFs' <=> InFs)
    BY <1>8 DEF OnPortDisabled, OnOtherCommand, OnDescriptor, OnOtherTransfer, RequestMaxPacketSize,
                RequestConfiguration, ReadConfigurationHeader, ReturnToMain, read_usb_keyboard,
                Take, KernelAt, InFs
  <2>3. ASSUME NumConfigs <= 1, InConf' PROVE state[job'.port] = "GET_DESCRIPTOR"
    <3>1. CASE OnDescriptor
      <4>1. pc = "loop" /\ (pc' = pc \/ job'.port = device_contexts[Head(eventq).slot])
        BY <3>1 DEF OnDescriptor, Take, KernelAt, NoJob
      <4>2. job'.port = device_contexts[Head(eventq).slot]
        BY <2>3, <4>1 DEF InConf
      <4> QED BY <3>1, <4>2 DEF OnDescriptor, Expected
    <3>2. CASE ~OnDescriptor
      <4>1. InConf /\ job'.port = job.port
        BY <1>8, <1>q, <2>3, <3>2
           DEF OnPortDisabled, OnOtherCommand, OnOtherTransfer, RequestMaxPacketSize,
               RequestConfiguration, ReadConfigurationHeader, ReturnToMain, read_usb_keyboard,
               Take, KernelAt, InConf, JobType
      <4>2. pc # "input"
        BY <4>1 DEF InConf
      <4> QED BY <1>i, <2>3, <4>1, <4>2 DEF Limits, ConfiguresFit
    <3> QED BY <3>1, <3>2
  <2>4. Limits'
    BY <1>i, <1>m, <1>e, <2>1, <2>2, <2>3, QuietLimit
  <2> QED BY <1>1, <1>2, <2>4
<1> QED BY <1>3, <1>4, <1>5, <1>6, <1>7, <1>8 DEF Kernel

\* Nothing happens.
LEMMA StutterLimit == ASSUME LimitInv, UNCHANGED vars PROVE LimitInv'
<1>1. machine' = machine
  BY DEF vars
<1>2. Ports' = Ports /\ Roomy' = Roomy /\ Begun' = Begun /\ Turned' = Turned /\ Ended' = Ended
      /\ NumPorts' = NumPorts
  BY <1>1, SameMachine, SamePorts DEF vars
<1>3. /\ \A c : Completions(c)' = Completions(c) /\ Entries(c)' = Entries(c)
      /\ Places' = Places /\ \A k, c : At(k, c)' <=> At(k, c)
  BY DEF vars, Completions, Entries, Places, At, Done, Asked
<1>4. \A c : Count(c)' = Count(c)
  BY <1>3 DEF Count
<1>5. (AwaitsEnable' <=> AwaitsEnable) /\ (AwaitsAddress' <=> AwaitsAddress)
      /\ (InFs' <=> InFs) /\ (InConf' <=> InConf)
  BY DEF vars, AwaitsEnable, AwaitsAddress, InFs, InConf
<1>6. (SlotsAsked' <=> SlotsAsked) /\ (SlotsGiven' <=> SlotsGiven)
  BY <1>2, <1>3 DEF vars, SlotsAsked, SlotsGiven, ScratchpadKept, Done
<1>7. (EnablesFit' <=> EnablesFit) /\ (ConfiguresFit' <=> ConfiguresFit)
  BY <1>2, <1>4, <1>5 DEF vars, EnablesFit, ConfiguresFit
<1>8. EvaluateInOrder' <=> EvaluateInOrder
  BY <1>2, <1>3, <1>5 DEF EvaluateInOrder, OneEvaluate, EvaluateFirst, EvaluateNext
<1> QED BY <1>2, <1>6, <1>7, <1>8 DEF vars, LimitInv, Limits

\* On a machine with slots enough, no device of which is pulled out, what
\* usb_process_events asks for stays within the limits at every step.
LEMMA LimitHolds == Spec => []LimitInv
<1>1. Known /\ TurnInv /\ CommandInv /\ LimitInv /\ [Next]_vars => LimitInv'
  BY KnownStep, ControllerLimit, KernelLimit, StutterLimit DEF Next
<1>2. Spec => []Known
  BY KnownHolds DEF Known
<1> QED BY InitLimit, <1>1, <1>2, TurnHolds, CommandsHold, PTL DEF Spec

\* usb_process_events never checks that an Enable Slot Command succeeded.  It
\* need not, on a machine of any size whose devices stay in place and whose
\* controller has two slots for each port, less one: slot 0 is never used for
\* a device, although slots of ignored completions are never given back.
THEOREM SlotsSuffice == Spec => [](Roomy => ScratchpadKept)
<1>1. LimitInv => (Roomy => ScratchpadKept)
  BY DEF LimitInv, SlotsGiven
<1> QED BY <1>1, LimitHolds, PTL

\* Nor does write_ring check that the command ring has room.  On such a
\* machine, with devices of one configuration, no more than two commands for
\* each port are written and not yet handled.
THEOREM LimitsAreKept == ASSUME NumConfigs <= 1 PROVE Spec => [](Roomy => LimitsHold)
<1>1. Known /\ TurnInv /\ CommandInv /\ LimitInv => (Roomy => LimitsHold)
  BY FewCommands DEF LimitsHold
<1>2. Spec => []Known
  BY KnownHolds DEF Known
<1> QED BY <1>1, <1>2, TurnHolds, CommandsHold, LimitHolds, PTL

\* On such a machine descriptors go to the buffers of their own ports, without
\* a further condition.
THEOREM RoomyTransfers == Spec => [](Roomy => TransfersToOwnBuffer)
<1>1. (Roomy => ScratchpadKept) /\ (ScratchpadKept => TransfersToOwnBuffer)
        => (Roomy => TransfersToOwnBuffer)
  OBVIOUS
<1> QED BY <1>1, SlotsSuffice, TransfersKeepToOwnBuffer, PTL

----------------------------------------------------------------------------
\* The controller answers before the doorbell write returns, nothing fails, no
\* device is pulled out, and slots have not run out.
Prompt == Sync /\ ~MayFail /\ Replug = {} /\ ScratchpadKept

\* The configuration descriptor the handler asked for is in its buffer, or is
\* the last thing its slot's endpoint is going to do.
Answering ==
  \/ tds[job.slot] = <<>> /\ buf[job.port] = Config(job.index)
  \/ /\ tds[job.slot] # <<>> /\ rung[job.slot]
     /\ tds[job.slot][Len(tds[job.slot])] = [req |-> Config(job.index), port |-> job.port]

\* Endpoints that have sent an event are running and stay so; a handler that
\* goes through configurations works with the slot of its port.
EndpointsRun ==
  /\ \A p \in Ports : ~portsc[p].pulled
  /\ \A i \in DOMAIN eventq : eventq[i].type = "Transfer" => ep[eventq[i].slot] = "running"
  /\ InConf => ep[job.slot] = "running" /\ transfer_ring[job.port] = job.slot

\* The header that is used is the one that was asked for.
HeaderRead ==
  /\ pc = "conf_hdr" => Answering
  /\ pc = "conf_parse" => job.hdr = Config(job.index)

AnswerInv == Prompt => EndpointsRun /\ HeaderRead /\ ConfiguresWhatItRead


\* The last entry of a queue after the first one is taken off.
LEMMA LastOfTail ==
  ASSUME NEW S, NEW q \in Seq(S), q # <<>>
  PROVE  /\ Tail(q) = <<>> => Head(q) = q[Len(q)]
         /\ Tail(q) # <<>> => Tail(q)[Len(Tail(q))] = q[Len(q)]
<1>1. Tail(q) \in Seq(S) /\ Len(Tail(q)) = Len(q) - 1 /\ Len(q) \in Nat /\ Head(q) = q[1]
  OBVIOUS
<1>2. \A i \in DOMAIN Tail(q) : Tail(q)[i] = q[i + 1]
  BY TailIndex
<1>3. PICK t \in Seq(S) : t = Tail(q)
  BY <1>1
<1>4. Len(t) \in Nat /\ DOMAIN t = 1 .. Len(t) /\ (t = <<>> <=> Len(t) = 0)
  OBVIOUS
<1>5. Len(t) = Len(q) - 1 /\ \A i \in DOMAIN t : t[i] = q[i + 1]
  BY ONLY <1>1, <1>2, <1>3
<1>6. CASE t = <<>>
  <2>0. Len(t) = 0 /\ Len(q) \in Nat /\ Len(t) = Len(q) - 1
    BY ONLY <1>1, <1>4, <1>5, <1>6, Zenon
  <2>1. Len(q) = 1
    BY ONLY <2>0
  <2>2. Head(q) = q[Len(q)]
    BY ONLY <1>1, <2>1
  <2> QED BY ONLY <1>3, <1>6, <2>2
<1>7. CASE t # <<>>
  <2>1. Len(t) \in DOMAIN t /\ Len(t) + 1 = Len(q)
    BY ONLY <1>1, <1>4, <1>5, <1>7
  <2>2. t[Len(t)] = q[Len(q)]
    BY <1>5, <2>1
  <2> QED BY ONLY <1>3, <1>7, <2>2
<1> QED BY ONLY <1>3, <1>6, <1>7

\* The last entry of a queue after one is added.
LEMMA LastOfAppend ==
  ASSUME NEW S, NEW q \in Seq(S), NEW e \in S
  PROVE  Append(q, e) # <<>> /\ Append(q, e)[Len(Append(q, e))] = e
  OBVIOUS


\* A device that is not pulled out stays.
LEMMA DevicesStay ==
  ASSUME Known, Controller, Replug = {}, \A p \in Ports : ~portsc[p].pulled
  PROVE  \A p \in Ports : ~portsc'[p].pulled
<1>q. portsc \in [Ports -> PortRegister]
  BY DEF Known, TypeInv, ControllerType
<1>1. ASSUME NEW p \in Ports, Attach(p) PROVE \A r \in Ports : ~portsc'[r].pulled
  BY <1>q, <1>1 DEF Attach, PortRegister
<1>2. ASSUME NEW p \in Ports, Detach(p) PROVE FALSE
  BY <1>2 DEF Detach
<1>3. ASSUME NEW p \in Ports, ResetDone(p) PROVE \A r \in Ports : ~portsc'[r].pulled
  BY <1>q, <1>3 DEF ResetDone, PortRegister
<1>4. ASSUME portsc' = portsc PROVE \A r \in Ports : ~portsc'[r].pulled
  BY <1>4
<1>5. \/ portsc' = portsc
      \/ \E p \in Ports : Attach(p) \/ Detach(p) \/ ResetDone(p)
  BY DEF Controller, ExecEnableSlot, ExecAddressDevice, ExecOther, ExecTransfer, FailTransfer, ctrlVars
<1> QED BY <1>1, <1>2, <1>3, <1>4, <1>5

\* Nothing is asked for yet.
LEMMA InitAnswer == Init => AnswerInv
  BY DEF Init, AnswerInv, EndpointsRun, HeaderRead, ConfiguresWhatItRead, InConf

\* The slot a handler works with is the only one of its port.
LEMMA HandlerSlot ==
  ASSUME Known, TurnInv, SlotInv, TransferInv, Prompt, EndpointsRun, InConf
  PROVE  /\ job.port \in Ports /\ job.slot \in Slots /\ device_contexts[job.slot] = job.port
         /\ \A s \in Slots : s # job.slot => device_contexts[s] # job.port
<1>1. job.port \in Ports /\ job.slot \in Slots
  BY DEF Known, TypeInv, JobType
<1>2. transfer_ring[job.port] # 0
  BY <1>1 DEF TurnInv, HandlerPort, TransferInv, RealSlots, Prompt
<1>3. device_contexts[job.slot] = job.port
  BY <1>1, <1>2 DEF EndpointsRun, SlotInv, SlotsMatchPorts
<1> QED BY <1>1, <1>3 DEF EndpointsRun, SlotInv, SlotsMatchPorts

\* The controller executes what is queued; its endpoints keep running.
LEMMA ControllerAnswer ==
  ASSUME Known, Known', TurnInv, SlotInv, TransferInv, AnswerInv, Controller
  PROVE  AnswerInv'
<1> USE DEF statusVars, ctrlVars
<1>u. UNCHANGED <<state, current_port, device_contexts, transfer_ring, keyboard, pc, job, machine>>
  BY ControllerLeaves
<1>s. Ports' = Ports /\ Slots' = Slots /\ Prompt' = Prompt /\ InConf' = InConf
  BY <1>u, SameMachine DEF Prompt, ScratchpadKept, InConf
<1>t. QueueType /\ StatusType /\ ControllerType
  BY DEF Known, TypeInv
<1> SUFFICES ASSUME Prompt PROVE EndpointsRun' /\ HeaderRead' /\ ConfiguresWhatItRead'
  BY <1>s DEF AnswerInv
<1>i. EndpointsRun /\ HeaderRead /\ ConfiguresWhatItRead
  BY DEF AnswerInv
<1>f. \A s \in Slots : ~FailTransfer(s)
  BY DEF Prompt, FailTransfer
<1>e. \A p \in Ports : ~Detach(p)
  BY DEF Prompt, Detach
<1>1. \A p \in Ports : ~portsc'[p].pulled
  BY <1>i, DevicesStay DEF Prompt, EndpointsRun
<1>2. \A s \in Slots : ep[s] = "running" => ep'[s] = "running"
  <2>1. CASE ep' = ep
    BY <2>1
  <2>2. ASSUME NEW ok \in BOOLEAN, ExecAddressDevice(ok)
        PROVE  \A s \in Slots : ep[s] = "running" => ep'[s] = "running"
    <3>1. ep \in [Slots -> {"off", "running", "halted"}]
      BY <1>t DEF ControllerType
    <3> QED BY <2>2, <3>1 DEF ExecAddressDevice
  <2> QED BY <1>e, <1>f, <2>1, <2>2
         DEF Controller, Attach, ResetDone, ExecEnableSlot, ExecOther, ExecTransfer
<1>3. \A i \in DOMAIN eventq' : eventq'[i].type = "Transfer" => ep'[eventq'[i].slot] = "running"
  <2>1. \A i \in DOMAIN eventq : eventq[i].type = "Transfer" =>
          eventq[i].slot \in Slots /\ ep'[eventq[i].slot] = "running"
    <3>1. \A i \in DOMAIN eventq : eventq[i] \in Events
      BY <1>t DEF QueueType
    <3> QED BY <1>2, <1>i, <3>1, EventFields DEF EndpointsRun
  <2>2. CASE eventq' = eventq
    BY <2>1, <2>2
  <2>3. ASSUME NEW x \in Events, eventq' = Append(eventq, x),
               x.type = "Transfer" => ep'[x.slot] = "running"
        PROVE  \A i \in DOMAIN eventq' : eventq'[i].type = "Transfer" => ep'[eventq'[i].slot] = "running"
    BY <1>t, <2>1, <2>3, PostEvent
  <2>4. ASSUME NEW s \in Slots, ExecTransfer(s)
        PROVE  \E x \in Events : eventq' = Append(eventq, x) /\ x.type = "Transfer" /\ ep'[x.slot] = "running"
    <3> DEFINE x == [type |-> "Transfer", slot |-> s, ok |-> TRUE]
    <3>1. x \in Events /\ x.type = "Transfer" /\ x.slot = s /\ eventq' = Append(eventq, x)
      BY <2>4, Records DEF ExecTransfer, Events
    <3>2. ep[s] = "running"
      BY <2>4 DEF ExecTransfer, Runnable
    <3> HIDE DEF x
    <3> QED BY <1>2, <3>1, <3>2
  <2>5. ASSUME \A s \in Slots : ~ExecTransfer(s), eventq' # eventq
        PROVE  \E x \in Events : eventq' = Append(eventq, x) /\ x.type # "Transfer"
    <3>1. ASSUME NEW p \in Ports, eventq' = Append(eventq, [type |-> "PortStatusChange", port |-> p])
          PROVE  \E x \in Events : eventq' = Append(eventq, x) /\ x.type # "Transfer"
      <4> DEFINE x == [type |-> "PortStatusChange", port |-> p]
      <4>1. x \in Events /\ x.type # "Transfer" /\ eventq' = Append(eventq, x)
        BY <3>1 DEF Events
      <4> HIDE DEF x
      <4> QED BY <4>1
    <3>2. ASSUME NEW c \in Commands, NEW s \in Slots, eventq' = Complete(c, s)
          PROVE  \E x \in Events : eventq' = Append(eventq, x) /\ x.type # "Transfer"
      <4> DEFINE x == [type |-> "Command", cmd |-> c, slot |-> s]
      <4>1. x \in Events /\ x.type # "Transfer" /\ eventq' = Append(eventq, x)
        BY <3>2 DEF Events, Complete
      <4> HIDE DEF x
      <4> QED BY <4>1
    <3>3. ASSUME NEW p \in Ports, Attach(p) \/ ResetDone(p)
          PROVE  eventq' = Append(eventq, [type |-> "PortStatusChange", port |-> p])
      BY <2>5, <3>3 DEF Attach, ResetDone, PortEvent
    <3>4. ASSUME cmd_ring # <<>> PROVE Head(cmd_ring).cmd \in Commands /\ Head(cmd_ring).slot \in Slots
      BY <1>t, <3>4, CommandFields
    <3>5. CASE ExecEnableSlot
      <4>1. PICK s \in Slots : s = IF nslots < NumSlots THEN nslots + 1 ELSE 0
        BY <1>t, Numbers DEF StatusType, ControllerType, Slots
      <4>2. eventq' = Complete("EnableSlot", s) /\ "EnableSlot" \in Commands
        BY <3>5, <4>1 DEF ExecEnableSlot, Commands
      <4> QED BY <3>2, <4>2
    <3>6. CASE ExecOther \/ \E ok \in BOOLEAN : ExecAddressDevice(ok)
      <4>1. /\ eventq' = Complete(Head(cmd_ring).cmd, Head(cmd_ring).slot) /\ cmd_ring # <<>>
        BY <3>6 DEF ExecOther, ExecAddressDevice
      <4> QED BY <3>2, <3>4, <4>1
    <3> QED BY <1>e, <1>f, <2>5, <3>1, <3>3, <3>5, <3>6 DEF Controller
  <2> QED BY <2>2, <2>3, <2>4, <2>5
<1>4. EndpointsRun'
  BY <1>1, <1>2, <1>3, <1>i, <1>s, <1>u DEF EndpointsRun, Known, TypeInv, JobType

<1>5. ASSUME NEW s \in Slots, NEW i \in DOMAIN tds'[s] PROVE \E j \in DOMAIN tds[s] : tds'[s][i] = tds[s][j]
  <2>1. tds[s] \in Seq(Requests)
    BY <1>t DEF QueueType
  <2>2. CASE tds'[s] = tds[s]
    BY <2>2
  <2>3. CASE tds[s] # <<>> /\ tds'[s] = Tail(tds[s])
    <3>1. \A k \in DOMAIN Tail(tds[s]) : k + 1 \in DOMAIN tds[s] /\ Tail(tds[s])[k] = tds[s][k + 1]
      BY <2>1, <2>3, TailIndex
    <3> QED BY <2>3, <3>1
  <2> QED BY <2>2, <2>3, ControllerQueues DEF Known
<1>6. ConfiguresWhatItRead'
  BY <1>5, <1>i, <1>s DEF ConfiguresWhatItRead
<1>7. ASSUME pc = "conf_hdr" PROVE Answering'
  <2>a. Answering /\ InConf
    BY <1>7, <1>i DEF HeaderRead, InConf
  <2>h. /\ job.port \in Ports /\ job.slot \in Slots /\ device_contexts[job.slot] = job.port
        /\ \A s \in Slots : s # job.slot => device_contexts[s] # job.port
    BY <1>i, <2>a, HandlerSlot
  <2>1. CASE UNCHANGED <<tds, buf, rung>>
    BY <1>u, <2>1, <2>a DEF Answering
  <2>2. ASSUME NEW s \in Slots, ExecTransfer(s), s # job.slot PROVE Answering'
    <3>1. /\ tds \in [Slots -> Seq(Requests)] /\ tds[s] # <<>> /\ buf \in [Ports -> Contents]
          /\ rung \in [Slots -> BOOLEAN]
      BY <1>t, <2>2 DEF QueueType, ExecTransfer, Runnable, StatusType, ControllerType
    <3>2. tds'[job.slot] = tds[job.slot] /\ rung'[job.slot] = rung[job.slot]
      BY <2>2, <2>h, <3>1 DEF ExecTransfer
    <3>3. 1 \in DOMAIN tds[s] /\ Head(tds[s]) = tds[s][1]
      BY <3>1
    <3>4. "req" \in DOMAIN tds[s][1] => tds[s][1].port # job.port
      BY <2>2, <2>h, <3>3 DEF TransferInv, OwnBuffer, Prompt
    <3>5. buf' = buf \/ ("req" \in DOMAIN tds[s][1] /\ buf' = [buf EXCEPT ![tds[s][1].port] = tds[s][1].req])
      BY <2>2, <3>3 DEF ExecTransfer
    <3>6. buf'[job.port] = buf[job.port]
      BY <2>h, <3>1, <3>4, <3>5
    <3> QED BY <1>u, <2>a, <3>2, <3>6 DEF Answering
  <2>3. CASE ExecTransfer(job.slot)
    <3> DEFINE q == tds[job.slot]
               r == [req |-> Config(job.index), port |-> job.port]
    <3>1. /\ tds \in [Slots -> Seq(Requests)] /\ q # <<>> /\ buf \in [Ports -> Contents]
          /\ rung \in [Slots -> BOOLEAN]
      BY <1>t, <2>3 DEF QueueType, ExecTransfer, Runnable, StatusType, ControllerType
    <3>2. q[Len(q)] = r
      BY <2>a, <3>1 DEF Answering
    <3>3. tds'[job.slot] = Tail(q) /\ rung'[job.slot] = (Tail(q) # <<>>)
      BY <2>3, <2>h, <3>1 DEF ExecTransfer
    <3>4. q \in Seq(Requests) /\ Len(q) \in Nat
      BY <2>h, <3>1
    <3>r. "req" \in DOMAIN r /\ r.port = job.port /\ r.req = Config(job.index)
      OBVIOUS
    <3>b. "req" \in DOMAIN Head(q) => buf' = [buf EXCEPT ![Head(q).port] = Head(q).req]
      BY <2>3 DEF ExecTransfer
    <3>5. CASE Tail(q) = <<>>
      <4> HIDE DEF q, r
      <4>1. Head(q) = q[Len(q)]
        BY <3>1, <3>2, <3>4, <3>5, LastOfTail
      <4>2. buf'[job.port] = Config(job.index)
        BY <2>h, <3>1, <3>2, <3>b, <3>r, <4>1
      <4> QED BY <1>u, <3>3, <3>5, <4>2 DEF Answering
    <3>6. CASE Tail(q) # <<>>
      <4>1. Tail(q)[Len(Tail(q))] = r
        <5> HIDE DEF q, r
        <5> QED BY <3>1, <3>2, <3>4, <3>6, LastOfTail
      <4> QED BY <1>u, <3>3, <3>6, <4>1 DEF Answering
    <3> QED BY <3>5, <3>6
  <2>4. UNCHANGED <<tds, buf, rung>> \/ \E s \in Slots : ExecTransfer(s)
    BY <1>f DEF Controller, Attach, Detach, ResetDone, ExecEnableSlot, ExecAddressDevice, ExecOther
  <2> QED BY <2>1, <2>2, <2>3, <2>4
<1>8. HeaderRead'
  BY <1>7, <1>i, <1>u DEF HeaderRead
<1> QED BY <1>4, <1>6, <1>8


\* The kernel asks for a descriptor, and reads it once a prompt controller is
\* done.
LEMMA KernelAnswer ==
  ASSUME Known, Known', TurnInv, SlotInv, TransferInv, AnswerInv, Kernel
  PROVE  AnswerInv'
<1> USE DEF statusVars, ctrlVars
<1>m. machine' = machine
  BY MachineStays DEF Next
<1>s. Ports' = Ports /\ Slots' = Slots /\ Replug' = Replug
  BY <1>m, SameMachine
<1>t. StatusType /\ QueueType /\ JobType /\ ControllerType
  BY DEF Known, TypeInv
<1>b. (ScratchpadKept' => ScratchpadKept) /\ buf' = buf
  BY KernelEarly
<1>k. ep' = ep /\ \A p \in Ports : portsc'[p].pulled = portsc[p].pulled
  BY KernelLeaves
<1> SUFFICES ASSUME Prompt PROVE EndpointsRun' /\ HeaderRead' /\ ConfiguresWhatItRead'
  BY <1>s, <1>b DEF AnswerInv, Prompt
<1>i. EndpointsRun /\ HeaderRead /\ ConfiguresWhatItRead
  BY DEF AnswerInv
<1>1. \A i \in DOMAIN eventq' : eventq'[i].type = "Transfer" => ep'[eventq'[i].slot] = "running"
  <2>1. CASE eventq' = eventq
    BY <1>i, <1>k, <2>1 DEF EndpointsRun
  <2>2. CASE \A i \in DOMAIN eventq' : i + 1 \in DOMAIN eventq /\ eventq'[i] = eventq[i + 1]
    BY <1>i, <1>k, <2>2 DEF EndpointsRun
  <2> QED BY <2>1, <2>2, KernelEvents DEF Known
<1>2. \A p \in Ports : ~portsc'[p].pulled
  BY <1>i, <1>k DEF EndpointsRun
\* Steps that queue no transfer, and steps that queue one.
<1>d. ASSUME tds' = tds PROVE ConfiguresWhatItRead'
  BY <1>d, <1>i, <1>s DEF ConfiguresWhatItRead
<1>q. ASSUME NEW ring \in Slots, NEW s \in Slots, NEW td \in Requests, QueueTransfer(ring, s, td),
             "setconf" \in DOMAIN td => td.setconf = Config(td.index)
      PROVE  ConfiguresWhatItRead'
  <2>1. /\ \A t \in Slots : t # ring => tds'[t] = tds[t]
        /\ \A i \in DOMAIN tds'[ring] :
              (i \in DOMAIN tds[ring] /\ tds'[ring][i] = tds[ring][i]) \/ tds'[ring][i] = td
    BY ONLY <1>t, <1>q, WriteTransfer
  <2>2. ASSUME NEW t \in Slots, NEW i \in DOMAIN tds'[t]
        PROVE  (i \in DOMAIN tds[t] /\ tds'[t][i] = tds[t][i]) \/ tds'[t][i] = td
    BY <2>1, <2>2
  <2> QED BY <1>i, <1>q, <1>s, <2>2 DEF ConfiguresWhatItRead
\* A step at the end of which no configurations are gone through.
<1>n. ASSUME ~InConf' PROVE EndpointsRun' /\ HeaderRead'
  BY <1>1, <1>2, <1>n, <1>s DEF EndpointsRun, HeaderRead, InConf
<1>3. CASE OnPortEnabled \/ OnPortDisabled \/ OnOtherCommand \/ OnOtherTransfer \/ ReadMaxPacketSize
           \/ ReturnToMain \/ read_usb_keyboard
  <2>1. tds' = tds /\ ~InConf'
    BY <1>3 DEF OnPortEnabled, OnPortDisabled, OnOtherCommand, OnOtherTransfer, ReadMaxPacketSize,
                ReturnToMain, read_usb_keyboard, Take, KernelAt, InConf
  <2> QED BY <1>d, <1>n, <2>1
<1>4. CASE OnEnableSlot
  <2>1. PICK s \in Slots : s = Head(eventq).slot
    BY <1>4, <1>t, TakeFacts DEF OnEnableSlot
  <2>2. tds' = [tds EXCEPT ![s] = <<>>] /\ ~InConf'
    BY <1>4, <2>1 DEF OnEnableSlot, Take, KernelAt, InConf
  <2>3. tds'[s] = <<>> /\ \A t \in Slots : t # s => tds'[t] = tds[t]
    BY <1>t, <2>2 DEF QueueType
  <2>4. \A t \in Slots : \A i \in DOMAIN tds'[t] : i \in DOMAIN tds[t] /\ tds'[t][i] = tds[t][i]
    BY <2>3
  <2>5. ConfiguresWhatItRead'
    BY <1>i, <1>s, <2>4 DEF ConfiguresWhatItRead
  <2> QED BY <1>n, <2>2, <2>5
<1>5. CASE RequestMaxPacketSize
  <2>1. /\ job.port \in Ports /\ job.slot \in Slots /\ transfer_ring[job.port] \in Slots /\ ~InConf'
    BY <1>5, <1>t DEF RequestMaxPacketSize, KernelAt, JobType, InFs, InConf, StatusType
  <2>2. PICK td \in Requests : td = [req |-> Device8, port |-> job.port]
    BY <2>1, ContentsIn DEF Requests
  <2>3. "setconf" \notin DOMAIN td /\ QueueTransfer(transfer_ring[job.port], job.slot, td)
    BY <1>5, <2>2 DEF RequestMaxPacketSize
  <2> QED BY <1>n, <1>q, <2>1, <2>3
<1>6. CASE OnAddressDevice
  <2>1. PICK s \in Slots : s = Head(eventq).slot
    BY <1>6, <1>t, TakeFacts DEF OnAddressDevice
  <2>2. /\ pc = "loop" /\ current_port \in Ports /\ 1 \in DOMAIN eventq
        /\ Done(1, "AddressDevice") /\ eventq[1].slot = s
    BY <1>6, <1>t, <2>1, TakeFacts DEF OnAddressDevice, Serving, StatusType, Done
  <2>3. Given(s) /\ transfer_ring[device_contexts[s]] \in Slots
    BY <1>t, <2>2 DEF Known, PortsKnown, EventsGiven, Given, StatusType
  <2>4. PICK td \in Requests : td = [req |-> Device, port |-> current_port]
    BY <2>2, ContentsIn DEF Requests
  <2>5. "setconf" \notin DOMAIN td /\ QueueTransfer(transfer_ring[device_contexts[s]], s, td) /\ ~InConf'
    BY <1>6, <2>1, <2>2, <2>4 DEF OnAddressDevice, DescriptorBuffer, InConf
  <2> QED BY <1>n, <1>q, <2>3, <2>5
<1>7. CASE OnDescriptor
  <2>1. PICK s \in Slots : s = Head(eventq).slot
    BY <1>7, <1>t, TakeFacts DEF OnDescriptor
  <2>2. /\ pc = "loop" /\ 1 \in DOMAIN eventq /\ eventq[1].type = "Transfer" /\ eventq[1].slot = s
        /\ state[device_contexts[s]] = "GET_DESCRIPTOR"
        /\ UNCHANGED <<device_contexts, transfer_ring, tds>>
    BY <1>7, <1>t, <2>1, TakeFacts DEF OnDescriptor, Expected
  <2>3. PICK p \in Ports : p = device_contexts[s]
    BY <2>2 DEF Known, PortsKnown, EventsGiven, Given
  <2>4. ep[s] = "running"
    BY <1>i, <2>2 DEF EndpointsRun
  <2>5. transfer_ring[p] = s
    <3>1. transfer_ring[p] # 0 /\ transfer_ring[p] \in Slots
      BY <1>t, <2>2, <2>3 DEF TransferInv, RealSlots, Prompt, StatusType
    <3>2. device_contexts[transfer_ring[p]] = p
      BY <3>1 DEF SlotInv, SlotsMatchPorts
    <3> QED BY <1>i, <2>3, <3>1, <3>2 DEF EndpointsRun, SlotInv, SlotsMatchPorts
  <2>6. pc' = pc \/ (pc' = "conf_req" /\ job'.slot = s /\ job'.port = p)
    BY <1>7, <2>1, <2>3 DEF OnDescriptor, NoJob
  <2>7. EndpointsRun' /\ HeaderRead'
    BY <1>1, <1>2, <1>k, <1>s, <2>2, <2>4, <2>5, <2>6 DEF EndpointsRun, HeaderRead, InConf
  <2> QED BY <1>d, <2>2, <2>7
\* In a handler that goes through configurations.
<1>c. ASSUME InConf
      PROVE  /\ job.port \in Ports /\ job.slot \in Slots /\ job.index \in Nat /\ job.hdr \in Contents
             /\ transfer_ring[job.port] = job.slot /\ ep[job.slot] = "running"
             /\ job.index \in 0 .. NumConfigs
  BY <1>c, <1>i, <1>t, ModeAssumption DEF EndpointsRun, JobType
<1>8. CASE RequestConfiguration
  <2>1. InConf /\ pc' = "conf_hdr" /\ UNCHANGED <<transfer_ring, job>>
    BY <1>8 DEF RequestConfiguration, KernelAt, InConf
  <2>2. PICK td \in Requests : td = [req |-> Config(job.index), port |-> job.port]
    BY <1>c, <2>1, ContentsIn DEF Requests
  <2>3. "setconf" \notin DOMAIN td /\ QueueTransfer(job.slot, job.slot, td)
    BY <1>8, <1>c, <2>1, <2>2 DEF RequestConfiguration
  <2>4. tds \in [Slots -> Seq(Requests)] /\ rung \in [Slots -> BOOLEAN] /\ job.slot \in Slots
    BY <1>c, <1>t, <2>1 DEF QueueType, ControllerType
  <2>5. tds'[job.slot] = Append(tds[job.slot], td) /\ rung'[job.slot] = (ep[job.slot] = "running")
    BY <2>3, <2>4 DEF QueueTransfer
  <2>6. tds'[job.slot] # <<>> /\ tds'[job.slot][Len(tds'[job.slot])] = td
    <3>1. tds[job.slot] \in Seq(Requests)
      BY <2>4
    <3> QED BY <2>5, <3>1, LastOfAppend
  <2>7. Answering'
    BY <1>c, <2>1, <2>2, <2>5, <2>6 DEF Answering
  <2>8. EndpointsRun' /\ HeaderRead'
    BY <1>1, <1>2, <1>c, <1>k, <1>s, <2>1, <2>7 DEF EndpointsRun, HeaderRead
  <2>9. ConfiguresWhatItRead'
    BY <1>q, <2>3, <2>4
  <2> QED BY <2>8, <2>9
<1>9. CASE ReadConfigurationHeader
  <2>1. /\ InConf /\ pc = "conf_hdr" /\ pc' = "conf_parse" /\ UNCHANGED <<transfer_ring, tds>>
        /\ job' = [job EXCEPT !.hdr = buf[job.port]] /\ ~ControllerBusy
    BY <1>9 DEF ReadConfigurationHeader, KernelAt, InConf, Prompt
  <2>2. buf[job.port] = Config(job.index)
    <3>1. ~Runnable(job.slot)
      BY <1>c, <2>1 DEF ControllerBusy
    <3> QED BY <1>c, <1>i, <2>1, <3>1 DEF Runnable, HeaderRead, Answering
  <2>3. job'.slot = job.slot /\ job'.port = job.port /\ job'.index = job.index
        /\ job'.hdr = Config(job.index)
    BY <1>t, <2>1, <2>2 DEF JobType
  <2>4. EndpointsRun' /\ HeaderRead'
    BY <1>1, <1>2, <1>c, <1>k, <1>s, <2>1, <2>3 DEF EndpointsRun, HeaderRead
  <2> QED BY <1>d, <2>1, <2>4
<1>10. CASE ParseConfiguration
  <2>1. /\ InConf /\ pc = "conf_parse" /\ UNCHANGED transfer_ring
        /\ \/ tds' = tds
           \/ QueueTransfer(transfer_ring[job.port], job.slot,
                            [setconf |-> job.hdr, index |-> job.index])
        /\ \/ pc' = "conf_req" /\ job' = [job EXCEPT !.index = @ + 1, !.hdr = Zeroes]
           \/ pc' = "loop"
    BY <1>10 DEF ParseConfiguration, KernelAt, InConf
  <2>2. job.hdr = Config(job.index)
    BY <1>i, <2>1 DEF HeaderRead
  <2>3. PICK td \in Requests : td = [setconf |-> job.hdr, index |-> job.index]
    BY <1>c, <2>1 DEF Requests
  <2>4. td.setconf = Config(td.index)
    BY <2>2, <2>3
  <2>5. ConfiguresWhatItRead'
    BY <1>c, <1>d, <1>q, <2>1, <2>3, <2>4
  <2>6. pc' = "conf_req" => job'.slot = job.slot /\ job'.port = job.port
    BY <1>t, <2>1 DEF JobType
  <2>7. EndpointsRun' /\ HeaderRead'
    BY <1>1, <1>2, <1>c, <1>k, <1>s, <2>1, <2>6 DEF EndpointsRun, HeaderRead, InConf
  <2> QED BY <2>5, <2>7
<1> QED BY <1>3, <1>4, <1>5, <1>6, <1>7, <1>8, <1>9, <1>10 DEF Kernel

\* A step that changes nothing keeps what was read.
LEMMA StutterAnswer == ASSUME AnswerInv, UNCHANGED vars PROVE AnswerInv'
<1>1. machine' = machine
  BY DEF vars
<1>2. Ports' = Ports /\ Slots' = Slots /\ Replug' = Replug
  BY <1>1, SameMachine
<1> QED BY <1>2 DEF vars, AnswerInv, Prompt, ScratchpadKept, EndpointsRun, HeaderRead, Answering,
                    ConfiguresWhatItRead, InConf

\* While the controller is prompt, headers that are used have been read.
LEMMA AnswersHold == Spec => []AnswerInv
<1>1. Known /\ TurnInv /\ SlotInv /\ TransferInv /\ AnswerInv /\ [Next]_vars => AnswerInv'
  BY KnownStep, ControllerAnswer, KernelAnswer, StutterAnswer DEF Next
<1>2. Spec => []Known
  BY KnownHolds DEF Known
<1> QED BY InitAnswer, <1>1, <1>2, TurnHolds, SlotsHold, TransfersHold, PTL DEF Spec

\* get_descriptor_noreport does not wait for its data.  With a controller as
\* fast as the emulated one, and transfers that do not fail, the value in
\* SET_CONFIGURATION is nevertheless that of the configuration the keyboard
\* was found in: on every machine with slots enough whose devices stay in
\* place, for any number of configurations.
THEOREM ConfiguresTheConfigurationRead ==
  ASSUME Sync, ~MayFail PROVE Spec => [](Roomy => ConfiguresWhatItRead)
<1>1. AnswerInv /\ (Roomy => ScratchpadKept) => (Roomy => ConfiguresWhatItRead)
  BY DEF AnswerInv, Prompt, Roomy
<1> QED BY <1>1, AnswersHold, SlotsSuffice, PTL
============================================================================
