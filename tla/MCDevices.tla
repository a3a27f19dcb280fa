----------------------------- MODULE MCDevices -----------------------------
(***************************************************************************)
(* The parts of the device code that share no state while they run, each   *)
(* with its own choice of inputs: init_pci, init_xhci, the input loop with *)
(* a keyboard, its ring, and the input loop without one.  A behaviour is   *)
(* one of the parts from its start; the others stay in an initial state.   *)
(***************************************************************************)
EXTENDS DeviceParts, TLC

VARIABLES part

\* One or two controllers, on buses near and far, at function 0 or another,
\* behind bridges of all kinds.
Places == {[bus |-> b, dev |-> d, fn |-> 0] : b \in {0, 1, 2, 7}, d \in {3, 31}}
            \cup {[bus |-> b, dev |-> 3, fn |-> 3] : b \in {0, 2}}
Bridges == {{0}, {0, 1}, {0, 2}, {0, 3, 4}}
AnyMachine == [bridge : Bridges, xhci : {{c, d} : c, d \in Places}]
OneMachine == [bridge |-> {0}, xhci |-> {}]

\* Lists the walk of init_xhci comes to the end of: one capability; those of
\* the emulated controller; a legacy capability in front.
Cap(i, n, h) == [id |-> i, next |-> n, high |-> h]
One == 0 :> Cap(2, 0, 0)
WalkedLists == {One, 0 :> Cap(2, 4, 0) @@ 4 :> Cap(2, 0, 0), 0 :> Cap(1, 8, 0) @@ 8 :> Cap(2, 0, 0)}

\* Lists it leaves too early, for a place where it reads 0: three at unequal
\* distances; the semaphore of the firmware (bit 16) or minor revision 0x10
\* (USB 3.1) taken for a part of the pointer.
LeftLists == {0 :> Cap(2, 4, 0) @@ 4 :> Cap(2, 8, 0) @@ 12 :> Cap(2, 0, 0),
              0 :> Cap(1, 4, 1) @@ 4 :> Cap(2, 0, 0),
              0 :> Cap(2, 4, 0) @@ 4 :> Cap(2, 0, 16)}

\* Lists it never leaves: three at equal distances; minor revision 0x10, where
\* a register leads back; two distances of which the second leads back.
EndlessLists == {0 :> Cap(1, 4, 0) @@ 4 :> Cap(2, 4, 0) @@ 8 :> Cap(2, 0, 0),
                 0 :> Cap(2, 4, 0) @@ 4 :> Cap(2, 0, 16) @@ 4096 :> Cap(0, 4, 0),
                 0 :> Cap(1, 8, 0) @@ 4 :> Cap(0, 8, 0) @@ 8 :> Cap(2, 4, 0) @@ 12 :> Cap(2, 0, 0)}

Lists == WalkedLists \cup LeftLists \cup EndlessLists

\* keybuf is 64-byte aligned and lies behind 1 MB; the control word 1060 is
\* 0x424: type 1, IOC and ISP.
KeyBufPlaces == {65536, 65536 + 220, 69632 + 128}

MCMachines == AnyMachine \cup {OneMachine}
MCScratchCounts == 0 .. 3
MCPageSizes == {1, 2}

vars == <<part, pciVars, xhciVars, kbdVars, nullVars, ringVars>>

Init ==
  /\ part \in {"init_pci", "init_xhci", "keyboard", "no keyboard", "ring"}
  /\ Pci!Init /\ Xhci!Init /\ Kbd!Init /\ Null!Init /\ Ring!Init
  /\ machine = OneMachine <=> part # "init_pci"
  /\ part # "init_xhci" => caps = One /\ scratchpads = 0 /\ pagesize = 1 /\ hch
  /\ part # "no keyboard" => keybufAt = 65536 /\ controller

ScanStep == part = "init_pci" /\ Pci!Next
              /\ UNCHANGED <<part, xhciVars, kbdVars, nullVars, ringVars>>
InitStep(A) == part = "init_xhci" /\ A
                 /\ UNCHANGED <<part, pciVars, kbdVars, nullVars, ringVars>>
InputStep(A) == part = "keyboard" /\ A
                  /\ UNCHANGED <<part, pciVars, xhciVars, nullVars, ringVars>>
NullStep == part = "no keyboard" /\ Null!Next
              /\ UNCHANGED <<part, pciVars, xhciVars, kbdVars, ringVars>>
RingStep(A) == part = "ring" /\ A
                 /\ UNCHANGED <<part, pciVars, xhciVars, kbdVars, nullVars>>

Next == ScanStep \/ InitStep(Xhci!Next) \/ InputStep(Kbd!Next) \/ NullStep \/ RingStep(Ring!Next)

\* init_xhci polls without end and the controller ends what it has begun;
\* vMain's loop never stops, and so never stops writing its ring.
Spec ==
  /\ Init /\ [][Next]_vars
  /\ WF_vars(InitStep(Xhci!init_xhci)) /\ WF_vars(InitStep(Xhci!Controller))
  /\ WF_vars(InputStep(Kbd!read_usb_keyboard))
  /\ WF_vars(RingStep(Ring!Writing)) /\ WF_vars(RingStep(Ring!BeginTd(1)))

----------------------------------------------------------------------------

\* init_xhci comes to an end, as every bit it polls changes, if and only if the
\* walk over the capabilities does: it hangs for every list that holds
\* offsets which lead only to each other.
InitEnds ==
  /\ (part = "init_xhci" /\ ~Xhci!Trapped) ~> Xhci!Ended
  /\ [](Xhci!Trapped => Xhci!Here("caps"))

\* When typing stops, the last report is echoed by vMain's loop (Keyboard).
LastReportEchoed == Kbd!LastReportEchoed

\* Although read_usb_keyboard laps the controller and so takes TRBs back
\* from it, the endpoint never stays without one: again and again the slot
\* the controller looks at is its own.
NeverStarves == []<>(part = "ring" => Ring!Supplied)
============================================================================
