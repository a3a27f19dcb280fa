------------------------------ MODULE Keyboard ------------------------------
(***************************************************************************)
(* vMain's input loop and read_usb_keyboard (kernel/usb_keyboard.c) with a *)
(* keyboard: each call queues one more transfer into the same buffer       *)
(* keybuf, takes at most one event, and decodes whatever keybuf holds by   *)
(* then.  The keyboard types while this goes on.                           *)
(*                                                                         *)
(* Reports are numbered in the order they are sent; a byte of keybuf is    *)
(* the number of the report it came with, 0 before the first one.  The     *)
(* event ring is a queue (EventRing shows that it is one), the endpoint's  *)
(* ring a count of transfers that reaches no further than its size and     *)
(* never drops to nothing for good (TrbRing, keyboard_ring).               *)
(***************************************************************************)
EXTENDS Naturals, Sequences

CONSTANTS Reports,    \* reports the keyboard sends (bound)
          RingSize,   \* transfers the endpoint's ring holds (bound)
          Strays      \* events of other kinds that come meanwhile (bound)

BoundsAssumption == Reports \in Nat /\ RingSize \in Nat \ {0} /\ Strays \in Nat

VARIABLES queued,     \* transfers the controller may still fill
          sent,       \* reports sent so far
          strays,     \* other events so far
          keybuf,     \* mod: keybuf[0], key: keybuf[2]
          events,     \* the event ring
          pc, trb,    \* where read_usb_keyboard is, the event it holds
          key,        \* the table it chose, by the report of keybuf[0]
          echo,       \* history: event, mod and key of the last character
          failed      \* history: the reports whose transfer failed

vars == <<queued, sent, strays, keybuf, events, pc, trb, key, echo, failed>>

Other == [type |-> "other", report |-> 0, ok |-> FALSE]
NoEcho == [event |-> 0, mod |-> 0, key |-> 0]

\* init_usb_keyboard has been called and the prompt is on the screen.
Init ==
  /\ queued = 0 /\ sent = 0 /\ strays = 0
  /\ keybuf = [mod |-> 0, key |-> 0]
  /\ events = <<>>
  /\ pc = "queue" /\ trb = Other /\ key = 0
  /\ echo = NoEcho /\ failed = {}

----------------------------------------------------------------------------
(* The controller and the keyboard (external).                             *)

\* A report fills the buffer of the next transfer, or the transfer fails.
Report(ok) ==
  /\ sent < Reports /\ queued > 0
  /\ sent' = sent + 1 /\ queued' = queued - 1
  /\ keybuf' = IF ok THEN [mod |-> sent', key |-> sent'] ELSE keybuf
  /\ failed' = IF ok THEN failed ELSE failed \cup {sent'}
  /\ events' = Append(events, [type |-> "transfer", report |-> sent', ok |-> ok])
  /\ UNCHANGED <<strays, pc, trb, key, echo>>

\* A port changes, or a late command or control transfer ends.
Stray ==
  /\ strays < Strays
  /\ strays' = strays + 1
  /\ events' = Append(events, Other)
  /\ UNCHANGED <<queued, sent, keybuf, pc, trb, key, echo, failed>>

----------------------------------------------------------------------------
(* read_usb_keyboard.                                                      *)

\* The normal TRB and the doorbell.
QueueTransfer ==
  /\ pc = "queue"
  /\ queued' = IF queued < RingSize THEN queued + 1 ELSE queued
  /\ pc' = "poll"
  /\ UNCHANGED <<sent, strays, keybuf, events, trb, key, echo, failed>>

\* Mutant: the ring is drained for its first event.
Rest_cleared(es) == <<>>
Rest(es) == Tail(es)

\* er_isQueued and get_eventring: at most one event per call.
Poll ==
  /\ pc = "poll" /\ events # <<>>
  /\ trb' = Head(events) /\ events' = Rest(events)
  /\ pc' = "event"
  /\ UNCHANGED <<queued, sent, strays, keybuf, key, echo, failed>>

\* The call returns 0, of which vMain prints nothing.
ReturnZero ==
  /\ \/ pc = "poll" /\ events = <<>>
     \/ pc = "event" /\ (trb.type # "transfer" \/ ~trb.ok)
  /\ pc' = "queue"
  /\ UNCHANGED <<queued, sent, strays, keybuf, events, trb, key, echo, failed>>

\* keybuf[0] chooses the table.
ChooseTable ==
  /\ pc = "event" /\ trb.type = "transfer" /\ trb.ok
  /\ key' = keybuf.mod
  /\ pc' = "key"
  /\ UNCHANGED <<queued, sent, strays, keybuf, events, trb, echo, failed>>

\* Mutant: the key comes from a copy that is a report behind.
KeyFound_cached == echo.key
KeyFound == keybuf.key

\* return key[keybuf[2]], and vMain prints it.
Echo ==
  /\ pc = "key"
  /\ echo' = [event |-> trb.report, mod |-> key, key |-> KeyFound]
  /\ pc' = "queue"
  /\ UNCHANGED <<queued, sent, strays, keybuf, events, trb, key, failed>>

read_usb_keyboard == QueueTransfer \/ Poll \/ ReturnZero \/ ChooseTable \/ Echo

Next == (\E ok \in BOOLEAN : Report(ok)) \/ Stray \/ read_usb_keyboard

\* vMain's loop never stops; nothing obliges the keyboard.
Spec == Init /\ [][Next]_vars /\ WF_vars(read_usb_keyboard)

----------------------------------------------------------------------------

\* A character is never older than the report whose event is answered, and
\* never older than its own shift state: keybuf may have been filled again,
\* by a newer report, before either byte is read, and between the two.
EchoNotStale == echo.event <= echo.mod /\ echo.mod <= echo.key

\* When typing stops, what the last report said is on the screen in the end,
\* however far the loop was behind, unless its transfer failed.
LastReportEchoed ==
  \A n \in 1 .. Reports :
    sent = n ~> (sent > n \/ n \in failed \/ echo.key = n)
=============================================================================
