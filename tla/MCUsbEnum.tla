----------------------------- MODULE MCUsbEnum -----------------------------
(* Machines for the runs of UsbEnum. *)
EXTENDS UsbEnum

Machine(ports, slots, usb3, fullSpeed, keyboards, replug) ==
  [ports |-> ports, slots |-> slots, usb3 |-> usb3, fullSpeed |-> fullSpeed,
   keyboards |-> keyboards, replug |-> replug]

\* Three ports, so that two wait for their turn; two keyboards; a device that
\* is pulled out and put back.
AnyMachine == {Machine(3, 5, {2}, {}, {}, {}),
               Machine(2, 3, {2}, {1}, {1, 2}, {}),
               Machine(2, 6, {2}, {}, {}, {1})}

\* The virtual machine env.mk starts, with two devices more.
Emulated == {Machine(3, 5, {1}, {2, 3}, {2}, {})}
============================================================================
