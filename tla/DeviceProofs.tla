---------------------------- MODULE DeviceProofs ----------------------------
(***************************************************************************)
(* Proofs about the parts of the device code that run on their own:        *)
(* vMain's input loop with a keyboard (Keyboard), the same loop without    *)
(* one (NullRing), the controller's initialisation (InitXhci), the ring    *)
(* the loop writes (TrbRing) and the scan for controllers (PciScan).  The  *)
(* bounds of their runs do not appear here: any number of reports, stray   *)
(* events, capabilities, scratchpads and pages, any length of the ring,    *)
(* any set of controllers.                                                 *)
(***************************************************************************)
EXTENDS DeviceParts, TLAPS

----------------------------------------------------------------------------
(* The input loop with a keyboard.                                         *)

Event == [type : {"transfer", "other"}, report : Nat, ok : BOOLEAN]

\* An event of a filled buffer is not ahead of report m.
Behind(e, m) == e.type = "transfer" /\ e.ok => e.report <= m

\* keybuf is filled as a whole, with ever newer reports.
BufferInv ==
  /\ sent \in Nat
  /\ keybuf \in [mod : Nat, key : Nat]
  /\ keybuf.mod = keybuf.key /\ keybuf.mod <= sent

\* The events that wait, and the one that is answered, are behind keybuf, and
\* so is the table chosen already.
EventsInv ==
  /\ events \in Seq(Event) /\ trb \in Event
  /\ \A i \in 1 .. Len(events) : Behind(events[i], keybuf.mod)
  /\ Behind(trb, keybuf.mod)
  /\ key \in Nat
  /\ input = "key" => trb.report <= key /\ key <= keybuf.key

KeyInv == /\ BufferInv /\ EventsInv
          /\ echo \in [event : Nat, mod : Nat, key : Nat] /\ Kbd!EchoNotStale

\* Nothing is typed yet.
LEMMA InitKey == Kbd!Init => KeyInv
  BY DEF Kbd!Init, Kbd!Other, Kbd!NoEcho, Kbd!EchoNotStale, KeyInv, BufferInv, EventsInv,
         Event, Behind

\* A report makes keybuf newer, and its event is of that report.
LEMMA ReportKey ==
  ASSUME KeyInv, NEW ok \in BOOLEAN, Kbd!Report(ok)
  PROVE  KeyInv'
<1> DEFINE e == [type |-> "transfer", report |-> sent', ok |-> ok]
<1>1. /\ sent \in Nat /\ sent' = sent + 1
      /\ keybuf' = IF ok THEN [mod |-> sent', key |-> sent'] ELSE keybuf
      /\ events' = Append(events, e)
      /\ UNCHANGED <<input, trb, key, echo>>
  BY DEF KeyInv, BufferInv, Kbd!Report
<1>2. e \in Event /\ e.type = "transfer" /\ e.ok = ok /\ e.report = sent'
  BY <1>1 DEF Event
<1>3. BufferInv' /\ keybuf.mod <= keybuf'.mod /\ keybuf.key <= keybuf'.key
  BY <1>1 DEF KeyInv, BufferInv
<1>4. Behind(e, keybuf'.mod)
  <2>1. ok => keybuf'.mod = sent'
    BY <1>1
  <2>2. sent' <= sent'
    BY <1>1
  <2> HIDE DEF e
  <2> QED BY <1>2, <2>1, <2>2 DEF Behind
<1>5. ASSUME NEW f \in Event, Behind(f, keybuf.mod) PROVE Behind(f, keybuf'.mod)
  <2>1. f.report \in Nat /\ keybuf.mod \in Nat /\ keybuf'.mod \in Nat
    BY <1>3 DEF Event, KeyInv, BufferInv
  <2> QED BY <1>3, <1>5, <2>1 DEF Behind
<1>6. EventsInv'
  <2> HIDE DEF e
  <2>1. events \in Seq(Event) /\ events' \in Seq(Event) /\ Len(events') = Len(events) + 1
    BY <1>1, <1>2 DEF KeyInv, EventsInv
  <2>2. ASSUME NEW i \in 1 .. Len(events') PROVE Behind(events'[i], keybuf'.mod)
    <3>1. CASE i \in 1 .. Len(events)
      <4>1. events'[i] = events[i] /\ events[i] \in Event /\ Behind(events[i], keybuf.mod)
        BY <1>1, <1>2, <2>1, <3>1 DEF KeyInv, EventsInv
      <4> QED BY <1>5, <4>1
    <3>2. CASE i = Len(events) + 1
      <4>1. events'[i] = e
        BY <1>1, <1>2, <2>1, <3>2
      <4> QED BY <1>4, <4>1
    <3> QED BY <2>1, <3>1, <3>2
  <2>3. Behind(trb, keybuf'.mod)
    BY <1>5 DEF KeyInv, EventsInv
  <2>4. input = "key" => trb.report <= key /\ key <= keybuf'.key
    BY <1>3 DEF KeyInv, BufferInv, EventsInv
  <2> QED BY <1>1, <2>1, <2>2, <2>3, <2>4 DEF KeyInv, EventsInv
<1> QED BY <1>1, <1>3, <1>6 DEF KeyInv, Kbd!EchoNotStale

\* A port change or a late completion carries no report.
LEMMA StrayKey == ASSUME KeyInv, Kbd!Stray PROVE KeyInv'
<1>1. /\ events' = Append(events, Kbd!Other) /\ UNCHANGED <<sent, keybuf, input, trb, key, echo>>
  BY DEF Kbd!Stray
<1>2. PICK e \in Event : e = Kbd!Other /\ e.type = "other"
  <2>1. [type |-> "other", report |-> 0, ok |-> FALSE] \in Event
    BY DEF Event
  <2>2. [type |-> "other", report |-> 0, ok |-> FALSE].type = "other"
    OBVIOUS
  <2> QED BY <2>1, <2>2, Zenon DEF Kbd!Other
<1>3. events \in Seq(Event) /\ events' \in Seq(Event) /\ Len(events') = Len(events) + 1
  BY <1>1, <1>2 DEF KeyInv, EventsInv
<1>4. ASSUME NEW i \in 1 .. Len(events') PROVE Behind(events'[i], keybuf.mod)
  <2>1. CASE i \in 1 .. Len(events)
    BY <1>1, <1>2, <1>3, <2>1 DEF KeyInv, EventsInv
  <2>2. CASE i = Len(events) + 1
    <3>1. events'[i] = e
      BY <1>1, <1>2, <1>3, <2>2
    <3> QED BY <1>2, <3>1 DEF Behind
  <2> QED BY <1>3, <2>1, <2>2
<1>5. EventsInv'
  BY <1>1, <1>3, <1>4 DEF KeyInv, EventsInv
<1> QED BY <1>1, <1>5 DEF KeyInv, BufferInv, Kbd!EchoNotStale

\* read_usb_keyboard takes the events in order and reads keybuf later.
LEMMA LoopKey == ASSUME KeyInv, Kbd!read_usb_keyboard PROVE KeyInv'
<1>1. CASE Kbd!QueueTransfer \/ Kbd!ReturnZero
  BY <1>1 DEF Kbd!QueueTransfer, Kbd!ReturnZero, KeyInv, BufferInv, EventsInv, Kbd!EchoNotStale
<1>2. CASE Kbd!Poll
  <2>1. /\ events # <<>> /\ trb' = Head(events) /\ events' = Tail(events) /\ input' = "event"
        /\ UNCHANGED <<sent, keybuf, key, echo>> /\ events \in Seq(Event)
    BY <1>2 DEF Kbd!Poll, Kbd!Rest, KeyInv, EventsInv
  <2>2. /\ events' \in Seq(Event) /\ Len(events') = Len(events) - 1 /\ Len(events) \in Nat \ {0}
        /\ trb' = events[1] /\ trb' \in Event
        /\ \A i \in 1 .. Len(events') : events'[i] = events[i + 1]
    BY <2>1
  <2>3. Behind(trb', keybuf.mod) /\ \A i \in 1 .. Len(events') : Behind(events'[i], keybuf.mod)
    <3>1. \A i \in 1 .. Len(events) : Behind(events[i], keybuf.mod)
      BY DEF KeyInv, EventsInv
    <3>2. Behind(events[1], keybuf.mod)
      BY <2>2, <3>1
    <3>3. \A i \in 1 .. Len(events') : i + 1 \in 1 .. Len(events)
      BY <2>2
    <3>4. \A i \in 1 .. Len(events') : Behind(events[i + 1], keybuf.mod)
      BY <3>1, <3>3, Zenon
    <3> QED BY <2>2, <3>2, <3>4
  <2>4. EventsInv'
    BY <2>1, <2>2, <2>3 DEF KeyInv, EventsInv
  <2> QED BY <2>1, <2>4 DEF KeyInv, BufferInv, Kbd!EchoNotStale
<1>3. CASE Kbd!ChooseTable
  <2>1. /\ key' = keybuf.mod /\ trb.type = "transfer" /\ trb.ok
        /\ UNCHANGED <<sent, keybuf, events, trb, echo>>
    BY <1>3 DEF Kbd!ChooseTable
  <2>2. trb.report <= keybuf.mod /\ keybuf.mod <= keybuf.key /\ keybuf.mod \in Nat
    BY <2>1 DEF KeyInv, BufferInv, EventsInv, Behind
  <2>3. EventsInv'
    BY <2>1, <2>2 DEF KeyInv, EventsInv
  <2> QED BY <2>1, <2>3 DEF KeyInv, BufferInv, Kbd!EchoNotStale
<1>4. CASE Kbd!Echo
  <2>1. /\ echo' = [event |-> trb.report, mod |-> key, key |-> keybuf.key]
        /\ input = "key" /\ input' = "queue"
        /\ UNCHANGED <<sent, keybuf, events, trb, key>>
    BY <1>4 DEF Kbd!Echo, Kbd!KeyFound
  <2>2. /\ trb.report \in Nat /\ key \in Nat /\ keybuf.key \in Nat
        /\ trb.report <= key /\ key <= keybuf.key
    BY <2>1 DEF KeyInv, BufferInv, EventsInv, Event
  <2>3. EventsInv' /\ BufferInv'
    BY <2>1 DEF KeyInv, BufferInv, EventsInv
  <2>4. echo' \in [event : Nat, mod : Nat, key : Nat] /\ Kbd!EchoNotStale'
    BY <2>1, <2>2 DEF Kbd!EchoNotStale
  <2> QED BY <2>3, <2>4 DEF KeyInv
<1> QED BY <1>1, <1>2, <1>3, <1>4 DEF Kbd!read_usb_keyboard

\* However far the loop is behind the keyboard, a character is never older
\* than the event it answers or than the shift state it was decoded with.
THEOREM NeverStale == Kbd!Spec => []EchoNotStale
<1>1. KeyInv /\ [Kbd!Next]_(Kbd!vars) => KeyInv'
  <2> SUFFICES ASSUME KeyInv, [Kbd!Next]_(Kbd!vars) PROVE KeyInv'
    OBVIOUS
  <2>1. CASE UNCHANGED Kbd!vars
    BY <2>1 DEF Kbd!vars, KeyInv, BufferInv, EventsInv, Kbd!EchoNotStale
  <2> QED BY <2>1, ReportKey, StrayKey, LoopKey DEF Kbd!Next
<1>2. KeyInv => EchoNotStale
  BY DEF KeyInv, EchoNotStale
<1> QED BY <1>1, <1>2, InitKey, PTL DEF Kbd!Spec

----------------------------------------------------------------------------
(* The input loop without a keyboard.                                      *)

\* Division by a page's size keeps the order.
LEMMA PageOrder ==
  ASSUME NEW t \in Nat \ {0}, NEW a \in Nat, NEW b \in Nat, a <= b
  PROVE  a \div t \in Nat /\ b \div t \in Nat /\ a \div t <= b \div t
  OBVIOUS

\* With a controller the structure at address 0 is still zero, or it describes
\* a ring of Control TRBs at keybuf whose index has not passed the link.
RingInv ==
  \/ nullBuf = 0 /\ ring_size = 0 /\ nullIndex = 0
  \/ nullBuf = keybufAt /\ ring_size = Control /\ nullIndex \in 0 .. Control - 2

\* Without one the structure has no address: the index is still that of the
\* first two calls, or it has left every ring.
LostInv ==
  /\ nullBuf = 0
  /\ \/ ring_size = 0 /\ nullIndex = 0
     \/ ring_size = Control /\ nullIndex = 1
     \/ ring_size = Control /\ nullIndex \in Nat /\ nullIndex >= Null!FarTrb

NullInv ==
  /\ keybufAt \in KeyBufs /\ controller \in BOOLEAN
  /\ controller => RingInv
  /\ ~ controller => LostInv
  /\ NullRingFootprint

\* What the proof needs to know of the constants.
LEMMA NullBounds ==
  ASSUME keybufAt \in KeyBufs
  PROVE  /\ Control \in Nat /\ Control > 2 /\ TrbsPerPage \in Nat \ {0, 1}
         /\ keybufAt \in Nat /\ keybufAt > Control
         /\ Null!FarTrb \in Nat /\ Null!FarTrb > Control /\ Null!FarTrb > 3
<1>1. /\ Control \in Nat \ {0, 1, 2} /\ TrbsPerPage \in Nat \ {0, 1}
      /\ keybufAt \in Nat /\ keybufAt > Control
  BY NullAssumption DEF Null!KeyBufsAssumption
<1>2. Control \in Nat /\ Control > 2
  BY <1>1
<1>3. Null!FarTrb = 16 * keybufAt + 1
  BY DEF Null!FarTrb, Null!TrbSize
<1> QED BY <1>1, <1>2, <1>3

\* A call on a machine with a controller: the ring's end is where it was.
LEMMA CallInRing ==
  ASSUME NullInv, controller, Null!read_usb_keyboard
  PROVE  NullInv'
<1> USE DEF NullRingFootprint
<1>1. /\ Control \in Nat /\ Control > 2 /\ TrbsPerPage \in Nat \ {0, 1}
      /\ keybufAt \in KeyBufs /\ keybufAt \in Nat /\ keybufAt > Control
  BY NullBounds DEF NullInv
<1>2. RingInv /\ keybufAt' = keybufAt /\ controller' = controller
  BY DEF NullInv, Null!read_usb_keyboard
<1> DEFINE lo == Null!Page(keybufAt)
           hi == Null!Page(keybufAt + Control - 1)
<1>3. ASSUME NEW j \in 0 .. Control - 1 PROVE Null!Page(keybufAt + j) \in lo .. hi
  <2>1. /\ keybufAt + j \in Nat /\ keybufAt + Control - 1 \in Nat
        /\ keybufAt <= keybufAt + j /\ keybufAt + j <= keybufAt + Control - 1
    BY <1>1
  <2>2. /\ lo \in Nat /\ Null!Page(keybufAt + j) \in Nat /\ hi \in Nat
        /\ lo <= Null!Page(keybufAt + j) /\ Null!Page(keybufAt + j) <= hi
    BY <1>1, <2>1, PageOrder DEF Null!Page
  <2> HIDE DEF lo, hi
  <2> QED BY <2>2
<1>4. Null!Page(0) = 0
  BY <1>1 DEF Null!Page
<1>5. PICK index \in 1 .. Control - 1 :
        /\ nullBuf' = keybufAt /\ ring_size' = Control
        /\ nullIndex' = IF index = Control - 1 THEN 0 ELSE index
        /\ mapped' = mapped \cup {Null!Page(Null!Target)}
                       \cup (IF index = Control - 1 THEN {Null!Page(keybufAt + index)} ELSE {})
  <2> DEFINE w == Null!Overwritten(Null!Target)
  <2>1. CASE nullBuf = 0 /\ ring_size = 0 /\ nullIndex = 0
    <3>1. Null!Target = 0 /\ w.buf = keybufAt /\ w.ring_size = Control /\ w.ring_index = 0
      BY <2>1 DEF Null!Target, Null!Overwritten
    <3>2. 1 \in 1 .. Control - 1
      BY <1>1
    <3> WITNESS 1 \in 1 .. Control - 1
    <3> QED BY <1>1, <3>1 DEF Null!read_usb_keyboard, Null!AtLink, Null!Doorbell
  <2>2. CASE nullBuf = keybufAt /\ ring_size = Control /\ nullIndex \in 0 .. Control - 2
    <3>1. Null!Target \notin {0, 1}
      BY <1>1, <2>2 DEF Null!Target
    <3>2. w.buf = keybufAt /\ w.ring_size = Control /\ w.ring_index = nullIndex
      BY <2>2, <3>1 DEF Null!Overwritten
    <3>3. nullIndex + 1 \in 1 .. Control - 1
      BY <1>1, <2>2
    <3> WITNESS nullIndex + 1 \in 1 .. Control - 1
    <3> QED BY <1>1, <3>2 DEF Null!read_usb_keyboard, Null!AtLink, Null!Doorbell
  <2> QED BY <1>2, <2>1, <2>2 DEF RingInv
<1>6. Null!Page(Null!Target) \in {0} \cup lo .. hi
  <2>1. Null!Target = 0 \/ \E j \in 0 .. Control - 1 : Null!Target = keybufAt + j
    BY <1>1, <1>2 DEF Null!Target, RingInv
  <2> QED BY <1>3, <1>4, <2>1
<1>7. index = Control - 1 => Null!Page(keybufAt + index) \in lo .. hi
  BY <1>1, <1>3
<1>8. mapped \subseteq {0} \cup lo .. hi
  BY DEF NullInv, Null!NullRingFootprint
<1>9. mapped' \subseteq {0} \cup lo .. hi
  BY <1>5, <1>6, <1>7, <1>8
<1>10. NullRingFootprint'
  BY <1>2, <1>9 DEF Null!NullRingFootprint, Null!Page
<1>11. RingInv'
  BY <1>1, <1>2, <1>5 DEF RingInv
<1> QED BY <1>1, <1>2, <1>10, <1>11 DEF NullInv

\* A call on a machine without one: the doorbell takes the ring's address
\* away, and the second TRB the index.
LEMMA CallIntoVoid ==
  ASSUME NullInv, ~ controller, Null!read_usb_keyboard
  PROVE  NullInv'
<1> USE DEF NullRingFootprint
<1> DEFINE far == Null!FarTrb
           w == Null!Overwritten(nullIndex)
           Far(n) == {Null!Page(t) : t \in far .. n - 1}
<1>1. /\ Control \in Nat /\ Control > 2 /\ TrbsPerPage \in Nat \ {0, 1}
      /\ keybufAt \in KeyBufs /\ keybufAt \in Nat /\ keybufAt > Control
      /\ far \in Nat /\ far > Control /\ far > 3
  BY NullBounds DEF NullInv
<1>2. far = 16 * keybufAt + 1
  BY DEF Null!FarTrb, Null!TrbSize
<1>3. nullBuf = 0 /\ Null!Target = nullIndex /\ nullIndex \in Nat /\ mapped = {0} \cup Far(nullIndex)
  BY DEF NullInv, LostInv, Null!NullRingFootprint, Null!Target
<1>4. /\ keybufAt' = keybufAt /\ controller' = controller /\ nullBuf' = 0
      /\ ring_size' = w.ring_size
      /\ nullIndex' = IF Null!AtLink(w.ring_size, w.ring_index + 1) THEN 0 ELSE w.ring_index + 1
      /\ ~ Null!AtLink(w.ring_size, w.ring_index + 1) => mapped' = mapped \cup {Null!Page(nullIndex)}
  BY <1>3 DEF Null!read_usb_keyboard, Null!Doorbell
<1>5. far' = far
  BY <1>4 DEF Null!FarTrb
<1>6. /\ w.ring_size = IF nullIndex = 0 THEN Control ELSE ring_size
      /\ w.ring_index = IF nullIndex = 1 THEN 16 * keybufAt ELSE nullIndex
  BY DEF Null!Overwritten, Null!TrbSize
<1>7. Null!Page(0) = 0 /\ Null!Page(1) = 0
  BY <1>1 DEF Null!Page
<1> HIDE DEF w, far
<1>8. ASSUME NEW n \in Nat, nullIndex' = n, ring_size' = Control,
             n = 1 \/ n >= far, mapped' = {0} \cup Far(n)
      PROVE  NullInv'
  <2>1. LostInv'
    BY <1>4, <1>5, <1>8 DEF LostInv, far
  <2>2. NullRingFootprint'
    BY <1>4, <1>5, <1>8 DEF NullInv, Null!NullRingFootprint, Null!Page, far
  <2> QED BY <1>1, <1>4, <2>1, <2>2 DEF NullInv
<1>9. CASE nullIndex = 0
  <2>1. nullIndex' = 1 /\ ring_size' = Control /\ mapped' = mapped \cup {0}
    BY <1>1, <1>4, <1>6, <1>7, <1>9 DEF Null!AtLink
  <2>2. Far(0) = {} /\ Far(1) = {}
    BY <1>1
  <2>3. mapped' = {0} \cup Far(1)
    BY <1>3, <1>9, <2>1, <2>2
  <2> QED BY <1>8, <2>1, <2>3
<1>10. CASE nullIndex = 1
  <2>1. nullIndex' = far /\ ring_size' = Control /\ mapped' = mapped \cup {0}
    <3>1. w.ring_size = Control /\ w.ring_index + 1 = far
      BY <1>1, <1>2, <1>6, <1>10 DEF NullInv, LostInv
    <3>2. ~ Null!AtLink(w.ring_size, w.ring_index + 1)
      BY <1>1, <3>1 DEF Null!AtLink
    <3> QED BY <1>4, <1>7, <1>10, <3>1, <3>2
  <2>2. Far(1) = {} /\ Far(far) = {}
    BY <1>1
  <2>3. mapped' = {0} \cup Far(far)
    BY <1>3, <1>10, <2>1, <2>2
  <2> QED BY <1>1, <1>8, <2>1, <2>3
<1>11. CASE nullIndex # 0 /\ nullIndex # 1
  <2>1. ring_size = Control /\ nullIndex >= far
    BY <1>11 DEF NullInv, LostInv, far
  <2>2. w.ring_size = Control /\ w.ring_index = nullIndex
    BY <1>6, <1>11, <2>1
  <2>3. ~ Null!AtLink(w.ring_size, w.ring_index + 1)
    BY <1>1, <1>3, <2>1, <2>2 DEF Null!AtLink
  <2>4. nullIndex' = nullIndex + 1 /\ ring_size' = Control /\ mapped' = mapped \cup {Null!Page(nullIndex)}
    BY <1>4, <2>2, <2>3
  <2>5. far .. (nullIndex + 1) - 1 = (far .. nullIndex - 1) \cup {nullIndex}
    BY <1>1, <1>3, <2>1
  <2>6. Far(nullIndex + 1) = Far(nullIndex) \cup {Null!Page(nullIndex)}
    BY <2>5
  <2>7. mapped' = {0} \cup Far(nullIndex + 1)
    BY <1>3, <2>4, <2>6
  <2>8. nullIndex + 1 \in Nat /\ nullIndex + 1 >= far
    BY <1>1, <1>3, <2>1
  <2> HIDE DEF Far
  <2> QED BY <1>8, <2>4, <2>7, <2>8
<1> QED BY <1>9, <1>10, <1>11

\* Without a keyboard the loop writes into page 0 and into one ring's length
\* at keybuf, for ever, if the machine has a controller; if it has none, the
\* loop maps each page from 16 times keybuf's address on, one after another.
THEOREM NullFootprint == Null!Spec => []NullRingFootprint
<1>1. Null!Init => NullInv
  <2> SUFFICES ASSUME Null!Init PROVE NullInv
    OBVIOUS
  <2>1. /\ keybufAt \in KeyBufs /\ controller \in BOOLEAN
        /\ nullBuf = 0 /\ ring_size = 0 /\ nullIndex = 0 /\ mapped = {0}
    BY DEF Null!Init
  <2>2. Null!FarTrb \in Nat /\ Null!FarTrb > 3
    BY <2>1, NullBounds
  <2>3. Null!FarTrb .. 0 - 1 = {}
    BY <2>2
  <2>4. NullRingFootprint
    BY <2>1, <2>3 DEF NullRingFootprint, Null!NullRingFootprint
  <2> QED BY <2>1, <2>4 DEF NullInv, RingInv, LostInv
<1>2. NullInv /\ [Null!Next]_(Null!vars) => NullInv'
  <2> SUFFICES ASSUME NullInv, [Null!Next]_(Null!vars) PROVE NullInv'
    OBVIOUS
  <2>1. CASE UNCHANGED Null!vars
    BY <2>1 DEF Null!vars, NullInv, RingInv, LostInv, NullRingFootprint, Null!NullRingFootprint,
                Null!FarTrb, Null!Page
  <2>2. CASE Null!read_usb_keyboard
    BY <2>2, CallInRing, CallIntoVoid
  <2> QED BY <2>1, <2>2 DEF Null!Next, Null!OutOfSight
<1>3. NullInv => NullRingFootprint
  BY DEF NullInv
<1> QED BY <1>1, <1>2, <1>3, PTL DEF Null!Spec

----------------------------------------------------------------------------
(* init_xhci.                                                              *)

\* Where init_xhci is, as far as the invariant tells the places apart.
Before == {"caps", "check"}
Waiting == {"wait_hcrst", "wait_cnr"}
AfterConfig == {"dcbaa", "array", "scratch", "cmd_ring", "event_ring", "start", "wait_run", "done"}
AfterArray == {"scratch", "cmd_ring", "event_ring", "start", "wait_run", "done"}
AfterDcbaap == {"cmd_ring", "event_ring", "start", "wait_run", "done"}
AfterCrcr == {"event_ring", "start", "wait_run", "done"}
AfterErst == {"start", "wait_run", "done"}

XhciTypes ==
  /\ init \in Before \cup {"reset"} \cup Waiting \cup {"config", "panic"} \cup AfterConfig
  /\ scratchpads \in Nat
  /\ hch \in BOOLEAN /\ hcrst \in BOOLEAN /\ cnr \in BOOLEAN /\ rs \in BOOLEAN
  /\ reg \in [Xhci!Registers -> Nat]
  /\ used \in 0 .. Pages

\* A reset is under way only while init_xhci waits for it, and the controller
\* is not ready only until init_xhci has seen that it is.
StatusInv ==
  /\ hcrst => init = "wait_hcrst"
  /\ cnr => init \in Waiting
  /\ init \in {"wait_run", "done"} => rs

\* What has been written stays written.
RegisterInv ==
  /\ init \in AfterConfig => reg["CONFIG"] # 0
  /\ init \in AfterDcbaap => reg["DCBAAP"] # 0
  /\ init \in AfterCrcr => reg["CRCR"] # 0
  /\ init \in AfterErst => reg["ERSTSZ"] # 0 /\ reg["ERDP"] # 0 /\ reg["ERSTBA"] # 0

\* What init_xhci asks alloc_mem for.
Purposes == {"dcbaa", "array", "scratchpad", "cmd_ring", "event_ring"}

\* Pages ahead of used belong to nobody, the array's to the array alone.
MemoryInv ==
  /\ owner \in [1 .. Pages -> SUBSET Purposes]
  /\ \A p \in used + 1 .. Pages : owner[p] = {}
  /\ init \in AfterArray =>
       /\ dcbaa0 \in 1 .. used + 1 /\ dcbaa0 + Xhci!ArrayPages - 1 <= used
       /\ \A p \in dcbaa0 .. dcbaa0 + Xhci!ArrayPages - 1 : owner[p] = {"array"}

XhciInv == XhciTypes /\ StatusInv /\ RegisterInv /\ MemoryInv

\* The array has a page for each pointer.
LEMMA ArrayHolds ==
  ASSUME NEW P \in Nat \ {0}, NEW n \in Nat, NEW i \in 0 .. n - 1
  PROVE  i \div P \in Nat /\ (n + P - 1) \div P \in Nat /\ i \div P < (n + P - 1) \div P
<1>1. i \div P \in Nat /\ i \in Nat /\ i < n
  OBVIOUS
<1>2. i + P \in Nat /\ n + P - 1 \in Nat /\ i + P <= n + P - 1
  BY <1>1
<1>3. (i + P) \div P = i \div P + 1
  OBVIOUS
<1>4. (i + P) \div P <= (n + P - 1) \div P /\ (n + P - 1) \div P \in Nat
  BY <1>2, PageOrder
<1> QED BY <1>1, <1>3, <1>4

\* Every place is a string of its own.
LEMMA Places ==
  /\ AfterErst \subseteq AfterCrcr /\ AfterCrcr \subseteq AfterDcbaap
  /\ AfterDcbaap \subseteq AfterArray /\ AfterArray \subseteq AfterConfig
  /\ AfterConfig \cap (Before \cup {"reset"} \cup Waiting \cup {"config", "panic"}) = {}
  BY DEF AfterErst, AfterCrcr, AfterDcbaap, AfterArray, AfterConfig, Before, Waiting

\* The firmware has left the controller without a reset under way.
LEMMA InitXhciInv ==
  ASSUME Xhci!Init
  PROVE  XhciInv
<1>1. XhciTypes
  <2>1. hch \in BOOLEAN /\ hcrst \in BOOLEAN /\ cnr \in BOOLEAN /\ rs \in BOOLEAN
    BY Zenon DEF Xhci!Init
  <2>2. reg \in [Xhci!Registers -> Nat] /\ used \in 0 .. Pages /\ scratchpads \in Nat
    BY XhciAssumption DEF Xhci!SizesAssumption, Xhci!Init, Xhci!NoReg
  <2>3. init \in Before
    BY DEF Xhci!Init, Before
  <2> QED BY <2>1, <2>2, <2>3 DEF XhciTypes
<1>2. StatusInv /\ RegisterInv
  BY DEF Xhci!Init, StatusInv, RegisterInv, Waiting, AfterConfig, AfterDcbaap, AfterCrcr, AfterErst
<1>3. MemoryInv
  BY DEF Xhci!Init, MemoryInv, AfterArray
<1> QED BY <1>1, <1>2, <1>3 DEF XhciInv

\* The controller takes registers back only while init_xhci waits.
LEMMA ControllerInv ==
  ASSUME XhciInv, Xhci!Controller
  PROVE  XhciInv'
<1>1. UNCHANGED <<init, scratchpads, used, owner, dcbaa0>>
  BY DEF Xhci!Controller, Xhci!ResetEnds, Xhci!Ready, Xhci!Run, Xhci!device, Xhci!memory
<1>2. MemoryInv'
  BY <1>1 DEF XhciInv, MemoryInv, Xhci!ArrayPages
<1>3. CASE Xhci!ResetEnds
  <2>1. init = "wait_hcrst" /\ ~hcrst' /\ cnr' = TRUE /\ rs' = FALSE /\ hch' = hch
    BY <1>3 DEF Xhci!ResetEnds, XhciInv, StatusInv
  <2>2. reg' \in [Xhci!Registers -> Nat] /\ hcrst' = FALSE
    BY <1>3 DEF Xhci!ResetEnds, Xhci!NoReg
  <2>3. XhciTypes'
    BY <1>1, <2>1, <2>2 DEF XhciInv, XhciTypes
  <2>4. StatusInv' /\ RegisterInv'
    BY <1>1, <2>1 DEF StatusInv, RegisterInv, Waiting, AfterConfig, AfterDcbaap, AfterCrcr, AfterErst
  <2> QED BY <1>2, <2>3, <2>4 DEF XhciInv
<1>4. CASE Xhci!Ready \/ Xhci!Run
  <2>1. reg' = reg /\ hcrst' = hcrst /\ rs' = rs /\ (cnr' => cnr)
    BY <1>4 DEF Xhci!Ready, Xhci!Run
  <2>2. hch' \in BOOLEAN /\ cnr' \in BOOLEAN
    BY <1>4 DEF Xhci!Ready, Xhci!Run, XhciInv, XhciTypes
  <2>3. XhciTypes'
    BY <1>1, <2>1, <2>2 DEF XhciInv, XhciTypes
  <2>4. StatusInv' /\ RegisterInv'
    BY <1>1, <2>1 DEF XhciInv, StatusInv, RegisterInv
  <2> QED BY <1>2, <2>3, <2>4 DEF XhciInv
<1> QED BY <1>3, <1>4 DEF Xhci!Controller

\* A step that only moves init_xhci on, as the code's polls and checks do.
LEMMA MoveInv ==
  ASSUME XhciInv,
         \/ Xhci!WalkCapability \/ Xhci!CheckHalted \/ Xhci!Reset
         \/ Xhci!WaitReset \/ Xhci!WaitReady \/ Xhci!WaitRun \/ Xhci!Start
  PROVE  XhciInv'
<1> USE DEF Xhci!WalkCapability, Xhci!CheckHalted, Xhci!Reset, Xhci!WaitReset, Xhci!WaitReady,
            Xhci!WaitRun, Xhci!Start, Xhci!Here, Xhci!Goto
<1>1. UNCHANGED <<scratchpads, reg, used, owner, dcbaa0, hch, cnr>>
  BY DEF Xhci!device, Xhci!memory, Xhci!status
<1>2. /\ init \in {"start", "wait_run"} => init' \in {"wait_run", "done"}
      /\ init \notin {"start", "wait_run"} =>
           init' \in Before \cup {"reset"} \cup Waiting \cup {"config", "panic"}
      /\ init \in Before \cup {"reset", "wait_hcrst", "wait_cnr", "start", "wait_run"}
  BY DEF Before, Waiting
<1>3. /\ hcrst' => init' = "wait_hcrst"
      /\ cnr' => init' \in Waiting
      /\ init' \in {"wait_run", "done"} => rs'
      /\ hcrst' \in BOOLEAN /\ rs' \in BOOLEAN
  <2>1. /\ hcrst \in BOOLEAN /\ cnr \in BOOLEAN /\ rs \in BOOLEAN
        /\ (hcrst => init = "wait_hcrst") /\ (cnr => init \in Waiting)
        /\ init \in {"wait_run", "done"} => rs
    BY DEF XhciInv, XhciTypes, StatusInv
  <2>2. CASE Xhci!Start
    <3>1. hcrst' = hcrst /\ cnr' = cnr /\ rs' = TRUE /\ init = "start" /\ init' = "wait_run"
      BY <2>2
    <3> QED BY <2>1, <3>1 DEF Waiting
  <2>3. CASE Xhci!Reset
    <3>1. hcrst' = TRUE /\ cnr' = cnr /\ rs' = rs /\ init = "reset" /\ init' = "wait_hcrst"
      BY <2>3
    <3> QED BY <2>1, <3>1 DEF Waiting
  <2>4. CASE Xhci!WalkCapability \/ Xhci!CheckHalted
    <3>1. hcrst' = hcrst /\ cnr' = cnr /\ rs' = rs /\ init \in Before
      BY <2>4 DEF Xhci!status, Before
    <3>2. init' \in Before \cup {"reset", "panic"}
      BY <2>4 DEF Before
    <3> QED BY <2>1, <3>1, <3>2 DEF Waiting, Before
  <2>5. CASE Xhci!WaitReset \/ Xhci!WaitReady \/ Xhci!WaitRun
    <3>1. hcrst' = hcrst /\ cnr' = cnr /\ rs' = rs
      BY <2>5 DEF Xhci!status
    <3>2. \/ init = "wait_hcrst" /\ init' = "wait_cnr" /\ ~hcrst
          \/ init = "wait_cnr" /\ init' = "config" /\ ~cnr
          \/ init = "wait_run" /\ init' = "done"
      BY <2>5 DEF Xhci!ResetOver, Xhci!IsReady
    <3> QED BY <2>1, <3>1, <3>2 DEF Waiting
  <2> QED BY <2>2, <2>3, <2>4, <2>5
<1> HIDE DEF Xhci!WalkCapability, Xhci!CheckHalted, Xhci!Reset, Xhci!WaitReset, Xhci!WaitReady,
             Xhci!WaitRun, Xhci!Start, Xhci!Here, Xhci!Goto
<1>4. XhciTypes'
  BY <1>1, <1>2, <1>3 DEF XhciInv, XhciTypes, AfterConfig
<1>5. StatusInv'
  BY <1>3 DEF StatusInv
<1>6. init' \in AfterConfig => init \in AfterErst /\ init' \in AfterErst
  BY <1>2, Places DEF AfterErst
<1>7. RegisterInv' /\ MemoryInv'
  BY <1>1, <1>6, Places DEF XhciInv, RegisterInv, MemoryInv, Xhci!ArrayPages
<1> QED BY <1>4, <1>5, <1>7 DEF XhciInv

\* alloc_mem hands out pages nobody has, and touches no others.
LEMMA AllocGives ==
  ASSUME XhciInv, NEW n \in Nat, NEW what \in Purposes, Xhci!Alloc(n, what)
  PROVE  /\ used \in Nat /\ used' = used + n /\ used' \in 0 .. Pages
         /\ owner' \in [1 .. Pages -> SUBSET Purposes]
         /\ \A p \in used' + 1 .. Pages : owner'[p] = {}
         /\ \A p \in used + 1 .. used' : owner'[p] = {what}
         /\ \A p \in 1 .. used : owner'[p] = owner[p]
<1>1. used \in Nat /\ used' = used + n /\ used' \in 0 .. Pages /\ Pages \in Nat
  BY XhciAssumption DEF Xhci!SizesAssumption, XhciInv, XhciTypes, Xhci!Alloc
<1>2. owner' = [p \in 1 .. Pages |-> IF p \in used + 1 .. used + n
                                     THEN owner[p] \cup {what} ELSE owner[p]]
  BY DEF Xhci!Alloc
<1>3. owner \in [1 .. Pages -> SUBSET Purposes] /\ \A p \in used + 1 .. Pages : owner[p] = {}
  BY DEF XhciInv, MemoryInv
<1>4. owner' \in [1 .. Pages -> SUBSET Purposes]
  BY <1>2, <1>3
<1>5. ASSUME NEW p \in used' + 1 .. Pages PROVE owner'[p] = {}
  <2>1. p \in 1 .. Pages /\ p \notin used + 1 .. used + n /\ p \in used + 1 .. Pages
    BY <1>1
  <2> QED BY <1>2, <1>3, <2>1
<1>6. ASSUME NEW p \in used + 1 .. used' PROVE owner'[p] = {what}
  <2>1. p \in 1 .. Pages /\ p \in used + 1 .. used + n /\ p \in used + 1 .. Pages
    BY <1>1
  <2> QED BY <1>2, <1>3, <2>1
<1>7. ASSUME NEW p \in 1 .. used PROVE owner'[p] = owner[p]
  <2>1. p \in 1 .. Pages /\ p \notin used + 1 .. used + n
    BY <1>1
  <2> QED BY <1>2, <2>1
<1> QED BY <1>1, <1>4, <1>5, <1>6, <1>7

\* Memory that was the array's stays the array's while more is handed out.
LEMMA AllocKeepsArray ==
  ASSUME XhciInv, NEW n \in Nat, NEW what \in Purposes,
         Xhci!Alloc(n, what), init \in AfterArray, UNCHANGED <<scratchpads, dcbaa0>>
  PROVE  MemoryInv'
<1>1. /\ used \in Nat /\ used' = used + n /\ used' \in 0 .. Pages
      /\ owner' \in [1 .. Pages -> SUBSET Purposes]
      /\ \A p \in used' + 1 .. Pages : owner'[p] = {}
      /\ \A p \in 1 .. used : owner'[p] = owner[p]
  BY AllocGives
<1>2. Xhci!ArrayPages' = Xhci!ArrayPages /\ Xhci!ArrayPages \in Nat
  <2>1. PtrsPerPage \in Nat \ {0} /\ scratchpads \in Nat
    BY XhciAssumption DEF Xhci!SizesAssumption, XhciInv, XhciTypes
  <2>2. scratchpads + PtrsPerPage - 1 \in Nat
    BY <2>1
  <2> QED BY <2>1, <2>2, PageOrder DEF Xhci!ArrayPages
<1>3. /\ dcbaa0 \in 1 .. used + 1 /\ dcbaa0 + Xhci!ArrayPages - 1 <= used
      /\ \A p \in dcbaa0 .. dcbaa0 + Xhci!ArrayPages - 1 : owner[p] = {"array"}
  BY DEF XhciInv, MemoryInv
<1>4. /\ dcbaa0 \in 1 .. used' + 1 /\ dcbaa0 + Xhci!ArrayPages - 1 <= used'
      /\ \A p \in dcbaa0 .. dcbaa0 + Xhci!ArrayPages - 1 : p \in 1 .. used
  BY <1>1, <1>2, <1>3
<1> QED BY <1>1, <1>2, <1>3, <1>4 DEF MemoryInv

\* The panic leaves everything as it is.
LEMMA PanicInv ==
  ASSUME XhciInv, init \notin Waiting, init' = "panic",
         UNCHANGED <<scratchpads, hch, hcrst, cnr, rs, reg, used, owner, dcbaa0>>
  PROVE  XhciInv'
<1>1. XhciTypes'
  BY DEF XhciInv, XhciTypes
<1>2. StatusInv' /\ RegisterInv' /\ MemoryInv'
  BY Places DEF XhciInv, XhciTypes, StatusInv, RegisterInv, MemoryInv, Waiting
<1> QED BY <1>1, <1>2 DEF XhciInv

\* A step behind the reset: status is left alone, one register may be set.
LEMMA ConfigureStep ==
  ASSUME XhciInv, init \in {"config"} \cup AfterConfig, init' \in AfterConfig \ {"wait_run", "done"},
         UNCHANGED <<scratchpads, hch, hcrst, cnr, rs>>,
         reg' \in [Xhci!Registers -> Nat], used' \in 0 .. Pages, RegisterInv', MemoryInv'
  PROVE  XhciInv'
<1>1. XhciTypes'
  BY DEF XhciInv, XhciTypes
<1>2. StatusInv'
  <2>1. ~hcrst /\ ~cnr
    BY Places DEF XhciInv, StatusInv, Waiting
  <2> QED BY <2>1 DEF StatusInv
<1> QED BY <1>1, <1>2 DEF XhciInv

\* The registers and the memory init_xhci gives the controller.
LEMMA ConfigureInv ==
  ASSUME XhciInv,
         \/ Xhci!WriteConfig \/ Xhci!AllocDcbaa \/ Xhci!AllocArray \/ Xhci!AllocScratchpad
         \/ Xhci!WriteDcbaap \/ Xhci!NewCommandRing \/ Xhci!NewEventRing
  PROVE  XhciInv'
<1> USE DEF Xhci!Here, Xhci!Goto, Xhci!device, Xhci!status
<1>1. /\ reg \in [Xhci!Registers -> Nat] /\ used \in 0 .. Pages /\ used \in Nat
      /\ {"CONFIG", "DCBAAP", "CRCR", "ERSTSZ", "ERDP", "ERSTBA"} \subseteq Xhci!Registers
      /\ scratchpads \in Nat /\ PtrsPerPage \in Nat \ {0}
  BY XhciAssumption DEF XhciInv, XhciTypes, Xhci!Registers, Xhci!SizesAssumption
<1>2. Xhci!ArrayPages \in Nat
  <2>1. scratchpads + PtrsPerPage - 1 \in Nat
    BY <1>1
  <2> QED BY <1>1, <2>1, PageOrder DEF Xhci!ArrayPages
<1>3. ASSUME NEW n, Xhci!AllocFails(n), init \notin Waiting PROVE XhciInv'
  BY <1>3, PanicInv DEF Xhci!AllocFails, Xhci!memory
<1>4. CASE Xhci!WriteConfig
  <2>1. /\ init = "config" /\ init' = "dcbaa" /\ reg' = [reg EXCEPT !["CONFIG"] = 1]
        /\ UNCHANGED <<scratchpads, hch, hcrst, cnr, rs, used, owner, dcbaa0>>
    BY <1>4 DEF Xhci!WriteConfig, Xhci!SetRegister, Xhci!memory
  <2>2. reg' \in [Xhci!Registers -> Nat] /\ reg'["CONFIG"] = 1
    BY <1>1, <2>1
  <2>3. RegisterInv' /\ MemoryInv'
    BY <2>1, <2>2 DEF XhciInv, RegisterInv, MemoryInv, AfterArray, AfterDcbaap, AfterCrcr, AfterErst
  <2>4. init \in {"config"} \cup AfterConfig /\ init' \in AfterConfig \ {"wait_run", "done"}
    BY <2>1 DEF AfterConfig
  <2> QED BY <1>1, <2>1, <2>2, <2>3, <2>4, ConfigureStep
<1>5. CASE Xhci!AllocDcbaa
  <2>1. init = "dcbaa"
    BY <1>5 DEF Xhci!AllocDcbaa
  <2>2. CASE Xhci!Alloc(1, "dcbaa") /\ init' = "array"
               /\ UNCHANGED <<scratchpads, hch, hcrst, cnr, rs, reg, dcbaa0>>
    <3>1. /\ used' \in 0 .. Pages /\ owner' \in [1 .. Pages -> SUBSET Purposes]
          /\ \A p \in used' + 1 .. Pages : owner'[p] = {}
      BY <2>2, AllocGives DEF Purposes
    <3>2. MemoryInv' /\ RegisterInv'
      BY <2>1, <2>2, <3>1 DEF XhciInv, RegisterInv, MemoryInv, AfterArray, AfterConfig, AfterDcbaap,
                              AfterCrcr, AfterErst
    <3>3. init \in {"config"} \cup AfterConfig /\ init' \in AfterConfig \ {"wait_run", "done"}
      BY <2>1, <2>2 DEF AfterConfig
    <3> QED BY <1>1, <2>2, <3>1, <3>2, <3>3, ConfigureStep
  <2>3. CASE Xhci!AllocFails(1)
    BY <1>3, <2>1, <2>3 DEF Waiting
  <2> QED BY <1>5, <2>2, <2>3 DEF Xhci!AllocDcbaa
<1>6. CASE Xhci!AllocArray
  <2>1. init = "array"
    BY <1>6 DEF Xhci!AllocArray
  <2>2. CASE Xhci!Alloc(Xhci!ArrayPages, "array") /\ init' = "scratch" /\ dcbaa0' = used + 1
               /\ UNCHANGED <<scratchpads, hch, hcrst, cnr, rs, reg>>
    <3>0. PICK n \in Nat : n = Xhci!ArrayPages
      BY <1>2
    <3>1. /\ used' = used + n /\ used' \in 0 .. Pages
          /\ owner' \in [1 .. Pages -> SUBSET Purposes]
          /\ \A p \in used' + 1 .. Pages : owner'[p] = {}
          /\ \A p \in used + 1 .. used' : owner'[p] = {"array"}
      <4>1. Xhci!Alloc(n, "array")
        BY <2>2, <3>0
      <4> QED BY <4>1, AllocGives DEF Purposes
    <3>2. Xhci!ArrayPages' = n
      BY <2>2, <3>0 DEF Xhci!ArrayPages
    <3>3. MemoryInv'
      <4>1. used + 1 \in 1 .. used' + 1 /\ (used + 1) + n - 1 = used'
        BY <1>1, <3>1
      <4>2. \A p \in dcbaa0' .. dcbaa0' + n - 1 : owner'[p] = {"array"}
        BY <2>2, <3>1, <4>1
      <4> QED BY <2>2, <3>1, <3>2, <4>1, <4>2 DEF MemoryInv
    <3>4. RegisterInv'
      BY <2>1, <2>2 DEF XhciInv, RegisterInv, AfterConfig, AfterDcbaap, AfterCrcr, AfterErst
    <3>5. init \in {"config"} \cup AfterConfig /\ init' \in AfterConfig \ {"wait_run", "done"}
      BY <2>1, <2>2 DEF AfterConfig
    <3> QED BY <1>1, <2>2, <3>1, <3>3, <3>4, <3>5, ConfigureStep
  <2>3. CASE Xhci!AllocFails(Xhci!ArrayPages)
    BY <1>3, <2>1, <2>3 DEF Waiting
  <2> QED BY <1>6, <2>2, <2>3 DEF Xhci!AllocArray
<1>7. CASE Xhci!AllocScratchpad
  <2>1. init = "scratch"
    BY <1>7 DEF Xhci!AllocScratchpad
  <2>2. CASE Xhci!Alloc(1, "scratchpad")
               /\ UNCHANGED <<init, scratchpads, hch, hcrst, cnr, rs, reg, dcbaa0>>
    <3>1. used' \in 0 .. Pages
      BY <2>2, AllocGives DEF Purposes
    <3>2. MemoryInv'
      BY <2>1, <2>2, AllocKeepsArray DEF Purposes, AfterArray
    <3>3. RegisterInv'
      BY <2>2 DEF XhciInv, RegisterInv
    <3>4. init \in {"config"} \cup AfterConfig /\ init' \in AfterConfig \ {"wait_run", "done"}
      BY <2>1, <2>2 DEF AfterConfig
    <3> QED BY <1>1, <2>2, <3>1, <3>2, <3>3, <3>4, ConfigureStep
  <2>3. CASE Xhci!AllocFails(1)
    BY <1>3, <2>1, <2>3 DEF Waiting
  <2>4. CASE init' = "panic" /\ UNCHANGED <<scratchpads, hch, hcrst, cnr, rs, reg, used, owner, dcbaa0>>
    BY <2>1, <2>4, PanicInv DEF Waiting
  <2> QED BY <1>7, <2>2, <2>3, <2>4 DEF Xhci!AllocScratchpad, Xhci!memory
<1>8. CASE Xhci!WriteDcbaap
  <2>1. /\ init = "scratch" /\ init' = "cmd_ring" /\ reg' = [reg EXCEPT !["DCBAAP"] = 1]
        /\ UNCHANGED <<scratchpads, hch, hcrst, cnr, rs, used, owner, dcbaa0>>
    BY <1>8 DEF Xhci!WriteDcbaap, Xhci!SetRegister, Xhci!memory
  <2>2. /\ reg' \in [Xhci!Registers -> Nat] /\ reg'["DCBAAP"] = 1
        /\ reg'["CONFIG"] = reg["CONFIG"]
    BY <1>1, <2>1
  <2>3. RegisterInv'
    BY <2>1, <2>2 DEF XhciInv, RegisterInv, AfterConfig, AfterCrcr, AfterErst
  <2>4. MemoryInv'
    BY <2>1 DEF XhciInv, MemoryInv, AfterArray, Xhci!ArrayPages
  <2>5. init \in {"config"} \cup AfterConfig /\ init' \in AfterConfig \ {"wait_run", "done"}
    BY <2>1 DEF AfterConfig
  <2> QED BY <1>1, <2>1, <2>2, <2>3, <2>4, <2>5, ConfigureStep
<1>9. CASE Xhci!NewCommandRing
  <2>1. init = "cmd_ring"
    BY <1>9 DEF Xhci!NewCommandRing
  <2>2. CASE Xhci!Alloc(1, "cmd_ring") /\ init' = "event_ring"
               /\ reg' = [reg EXCEPT !["CRCR"] = used + 1]
               /\ UNCHANGED <<scratchpads, hch, hcrst, cnr, rs, dcbaa0>>
    <3>1. used' \in 0 .. Pages
      BY <2>2, AllocGives DEF Purposes
    <3>2. MemoryInv'
      BY <2>1, <2>2, AllocKeepsArray DEF Purposes, AfterArray
    <3>3. /\ reg' \in [Xhci!Registers -> Nat] /\ reg'["CRCR"] # 0
          /\ reg'["CONFIG"] = reg["CONFIG"] /\ reg'["DCBAAP"] = reg["DCBAAP"]
      BY <1>1, <2>2
    <3>4. RegisterInv'
      BY <2>1, <2>2, <3>3 DEF XhciInv, RegisterInv, AfterConfig, AfterDcbaap, AfterErst
    <3>5. init \in {"config"} \cup AfterConfig /\ init' \in AfterConfig \ {"wait_run", "done"}
      BY <2>1, <2>2 DEF AfterConfig
    <3> QED BY <1>1, <2>2, <3>1, <3>2, <3>3, <3>4, <3>5, ConfigureStep
  <2>3. CASE Xhci!AllocFails(1)
    BY <1>3, <2>1, <2>3 DEF Waiting
  <2> QED BY <1>9, <2>2, <2>3 DEF Xhci!NewCommandRing, Xhci!SetRegister
<1>10. CASE Xhci!NewEventRing
  <2>1. init = "event_ring"
    BY <1>10 DEF Xhci!NewEventRing
  <2>2. CASE Xhci!Alloc(1, "event_ring") /\ init' = "start"
               /\ reg' = [reg EXCEPT !["ERSTSZ"] = 1, !["ERDP"] = used + 1, !["ERSTBA"] = used + 1]
               /\ UNCHANGED <<scratchpads, hch, hcrst, cnr, rs, dcbaa0>>
    <3>1. used' \in 0 .. Pages
      BY <2>2, AllocGives DEF Purposes
    <3>2. MemoryInv'
      BY <2>1, <2>2, AllocKeepsArray DEF Purposes, AfterArray
    <3>3. /\ reg' \in [Xhci!Registers -> Nat]
          /\ reg'["ERSTSZ"] # 0 /\ reg'["ERDP"] # 0 /\ reg'["ERSTBA"] # 0
          /\ reg'["CONFIG"] = reg["CONFIG"] /\ reg'["DCBAAP"] = reg["DCBAAP"]
          /\ reg'["CRCR"] = reg["CRCR"]
      BY <1>1, <2>2
    <3>4. RegisterInv'
      BY <2>1, <2>2, <3>3 DEF XhciInv, RegisterInv, AfterConfig, AfterDcbaap, AfterCrcr
    <3>5. init \in {"config"} \cup AfterConfig /\ init' \in AfterConfig \ {"wait_run", "done"}
      BY <2>1, <2>2 DEF AfterConfig
    <3> QED BY <1>1, <2>2, <3>1, <3>2, <3>3, <3>4, <3>5, ConfigureStep
  <2>3. CASE Xhci!AllocFails(1)
    BY <1>3, <2>1, <2>3 DEF Waiting
  <2> QED BY <1>10, <2>2, <2>3 DEF Xhci!NewEventRing
<1> QED BY <1>4, <1>5, <1>6, <1>7, <1>8, <1>9, <1>10

\* init_xhci starts a controller only with all its registers set and with a
\* scratchpad array in memory of its own, for every number of scratchpads and
\* however long the controller takes for its reset.
THEOREM StartsWithAll == Xhci!Spec => []StartsConfigured
<1>1. Xhci!Init => XhciInv
  BY InitXhciInv
<1>2. XhciInv /\ [Xhci!Next]_(Xhci!vars) => XhciInv'
  <2> SUFFICES ASSUME XhciInv, [Xhci!Next]_(Xhci!vars) PROVE XhciInv'
    OBVIOUS
  <2>1. CASE UNCHANGED Xhci!vars
    BY <2>1 DEF Xhci!vars, XhciInv, XhciTypes, StatusInv, RegisterInv, MemoryInv, Xhci!ArrayPages
  <2>2. CASE Xhci!init_xhci
    BY <2>2, MoveInv, ConfigureInv DEF Xhci!init_xhci
  <2> QED BY <2>1, <2>2, ControllerInv DEF Xhci!Next, Xhci!Stopped
<1>3. XhciInv => StartsConfigured
  <2> SUFFICES ASSUME XhciInv, init = "done" PROVE Xhci!RegistersSet /\ Xhci!ScratchpadArrayOwn
    BY DEF StartsConfigured, Xhci!StartsConfigured
  <2>1. init \in AfterErst
    BY DEF AfterErst
  <2>2. Xhci!RegistersSet
    <3>1. rs /\ ~hcrst /\ ~cnr
      BY DEF XhciInv, StatusInv, Waiting
    <3>2. \A r \in Xhci!Registers : reg[r] # 0
      BY <2>1, Places DEF XhciInv, RegisterInv, Xhci!Registers
    <3> QED BY <3>1, <3>2 DEF Xhci!RegistersSet
  <2>3. ASSUME NEW i \in 0 .. scratchpads - 1
        PROVE  owner[dcbaa0 + i \div PtrsPerPage] = {"array"}
    <3>1. PtrsPerPage \in Nat \ {0} /\ scratchpads \in Nat /\ dcbaa0 \in Nat
      BY <2>1, Places, XhciAssumption DEF Xhci!SizesAssumption, XhciInv, XhciTypes, MemoryInv
    <3>2. /\ i \div PtrsPerPage \in Nat /\ Xhci!ArrayPages \in Nat
          /\ i \div PtrsPerPage < Xhci!ArrayPages
      BY <3>1, ArrayHolds DEF Xhci!ArrayPages
    <3>3. dcbaa0 + i \div PtrsPerPage \in dcbaa0 .. dcbaa0 + Xhci!ArrayPages - 1
      BY <3>1, <3>2
    <3> QED BY <2>1, <3>3, Places DEF XhciInv, MemoryInv
  <2> QED BY <2>2, <2>3 DEF Xhci!ScratchpadArrayOwn
<1> QED BY <1>1, <1>2, <1>3, PTL DEF Xhci!Spec

----------------------------------------------------------------------------
(* The ring the input loop writes.                                         *)

RP == INSTANCE TrbRingProofs WITH pc <- writer, events <- completions, Trb <- {normal},
                                  MaxTd <- 1, Limited <- FALSE

\* The keyboard's ring is the one TrbRingProofs is about.
LEMMA RingSame ==
  /\ Ring!Init => RP!Init
  /\ [Ring!Next]_(Ring!vars) => [RP!Next]_(RP!vars)
  /\ RP!NoTornFetch => NoTornFetch
<1>1. Ring!Init => RP!Init
  BY DEF Ring!Init, RP!Init, Ring!Slots, RP!Slots
<1>2. Ring!Writing => RP!Writing
  BY DEF Ring!Writing, RP!Writing, Ring!WriteBody, RP!WriteBody, Ring!WriteControl,
         RP!WriteControl, Ring!WriteLinkBody, RP!WriteLinkBody, Ring!WriteLinkControl,
         RP!WriteLinkControl, Ring!Continue, RP!Continue, Ring!write_xhci_doorbell,
         RP!write_xhci_doorbell
<1>3. Ring!Controller => RP!Controller
  BY DEF Ring!Controller, RP!Controller, Ring!Fetch, RP!Fetch, Ring!FollowLink, RP!FollowLink,
         Ring!GoIdle, RP!GoIdle, Ring!Owned, RP!Owned, Ring!kernelVars, RP!kernelVars
<1>4. (\E n \in 1 .. 1 : Ring!BeginTd(n)) => \E n \in 1 .. 1 : RP!BeginTd(n)
  BY DEF Ring!BeginTd, RP!BeginTd
<1>5. Ring!HandleEvent => RP!HandleEvent
  BY DEF Ring!HandleEvent, RP!HandleEvent, Ring!kernelVars, RP!kernelVars
<1>6. UNCHANGED Ring!vars => UNCHANGED RP!vars
  BY DEF Ring!vars, RP!vars
<1>7. RP!NoTornFetch => NoTornFetch
  BY DEF NoTornFetch, Ring!NoTornFetch, RP!NoTornFetch
<1> QED BY <1>1, <1>2, <1>3, <1>4, <1>5, <1>6, <1>7 DEF Ring!Next, RP!Next

\* read_usb_keyboard laps the controller whenever no key is pressed; whatever
\* the length of its ring, the controller still never fetches a torn TRB.
THEOREM KeyboardRingNotTorn == Ring!Spec => []NoTornFetch
<1>1. RP!Spec => []RP!NoTornFetch
  BY RP!OneTrbNotTorn, RingAssumption
<1>2. Ring!Spec => RP!Spec
  BY RingSame, PTL DEF Ring!Spec, RP!Spec
<1> QED BY <1>1, <1>2, RingSame, PTL

----------------------------------------------------------------------------
(* init_pci's scan.                                                        *)

\* What or does to bus numbers: nothing if one is 0, and bits never go away.
LEMMA OrIs ==
  ASSUME NEW b \in 0 .. 7, NEW o \in 0 .. 7
  PROVE  /\ Pci!Or(0, o) = o
         /\ b # 0 => Pci!Or(b, o) # 0
<1>1. /\ (0 \div 4) % 2 = 0 /\ (0 \div 2) % 2 = 0 /\ (0 \div 1) % 2 = 0
  OBVIOUS
<1>2. Pci!Or(0, o) = o
  <2>1. CASE o \in 0 .. 3
    <3>1. o = 0 \/ o = 1 \/ o = 2 \/ o = 3
      BY <2>1
    <3> QED BY <3>1 DEF Pci!Or
  <2>2. CASE o \in 4 .. 7
    <3>1. o = 4 \/ o = 5 \/ o = 6 \/ o = 7
      BY <2>2
    <3> QED BY <3>1 DEF Pci!Or
  <2> QED BY <2>1, <2>2
<1>3. ASSUME b # 0 PROVE Pci!Or(b, o) # 0
  <2>1. (b \div 4) % 2 = 1 \/ (b \div 2) % 2 = 1 \/ (b \div 1) % 2 = 1
    <3>1. b = 1 \/ b = 2 \/ b = 3 \/ b = 4 \/ b = 5 \/ b = 6 \/ b = 7
      BY <1>3
    <3> QED BY <3>1
  <2> QED BY <2>1 DEF Pci!Or
<1> QED BY <1>2, <1>3

\* The number under which the scan of bus 0 meets a place.
LEMMA AddressIs ==
  ASSUME NEW d \in 0 .. 254
  PROVE  /\ d \div 32 \in 0 .. 7 /\ d % 32 \in 0 .. 31 /\ d = 32 * (d \div 32) + (d % 32)
         /\ Pci!Address(0, d) = [bus |-> d \div 32, dev |-> d % 32, fn |-> 0]
<1>1. d \div 32 \in 0 .. 7 /\ d % 32 \in 0 .. 31 /\ d = 32 * (d \div 32) + (d % 32)
  OBVIOUS
<1>2. Pci!Or(0, d \div 32) = d \div 32
  BY <1>1, OrIs
<1> QED BY <1>1, <1>2 DEF Pci!Address

\* It meets no place twice,
LEMMA AddressOnce ==
  ASSUME NEW d \in 0 .. 254, NEW e \in 0 .. 254, Pci!Address(0, d) = Pci!Address(0, e)
  PROVE  d = e
<1>0. /\ Pci!Address(0, d) = [bus |-> d \div 32, dev |-> d % 32, fn |-> 0]
      /\ Pci!Address(0, e) = [bus |-> e \div 32, dev |-> e % 32, fn |-> 0]
  BY AddressIs
<1>1. d \div 32 = e \div 32 /\ d % 32 = e % 32
  <2>1. PICK a, b, x, y : a = d \div 32 /\ b = d % 32 /\ x = e \div 32 /\ y = e % 32
    OBVIOUS
  <2>2. [bus |-> a, dev |-> b, fn |-> 0] = [bus |-> x, dev |-> y, fn |-> 0]
    BY ONLY <1>0, <2>1, Pci!Address(0, d) = Pci!Address(0, e), Zenon
  <2>3. a = x /\ b = y
    BY ONLY <2>2
  <2> QED BY ONLY <2>1, <2>3, Zenon
<1>2. d = 32 * (d \div 32) + (d % 32) /\ e = 32 * (e \div 32) + (e % 32)
  BY AddressIs
<1> QED BY ONLY <1>1, <1>2, Zenon

\* and every function 0 but that of the last device of bus 7.
LEMMA AddressAll ==
  ASSUME NEW c \in Pci!Place, c.fn = 0, ~ (c.bus = 7 /\ c.dev = 31)
  PROVE  \E d \in 0 .. 254 : Pci!Address(0, d) = c
<1>1. /\ c.bus \in 0 .. 7 /\ c.dev \in 0 .. 31 /\ ~ (c.bus = 7 /\ c.dev = 31)
      /\ c = [bus |-> c.bus, dev |-> c.dev, fn |-> 0]
  BY DEF Pci!Place, Pci!Buses, Pci!Devices
<1>2. \A x \in 0 .. 7, y \in 0 .. 31 : ~ (x = 7 /\ y = 31) =>
         32 * x + y \in 0 .. 254 /\ (32 * x + y) \div 32 = x /\ (32 * x + y) % 32 = y
  OBVIOUS
<1>3. PICK d \in 0 .. 254 : d \div 32 = c.bus /\ d % 32 = c.dev
  BY <1>1, <1>2
<1>4. Pci!Address(0, d) = c
  BY <1>1, <1>3, AddressIs
<1> QED BY <1>4

\* Has the scan of bus 0 been past number d?
Past(d) == func > 0 \/ (scan # "init" /\ d < dev)

\* While it is on bus 0, init_pci has brought up what it passed and nothing
\* else; a scan that has ended has passed all of it.
ScanInv ==
  /\ machine \in PciMachines
  /\ func \in 0 .. 8 /\ dev \in 0 .. 254
  /\ scan \in {"init", "bus", "done", "panic"}
  /\ scan = "bus" => func \in machine.bridge
  /\ scan = "done" => func > 0
  /\ scan = "panic" => func > 0 /\ func \in machine.bridge
  /\ scan \in {"init", "bus"} /\ Pci!isSingleFunctionDevice => func <= 1
  /\ \A d \in 0 .. 254 : Past(d) /\ Pci!Address(0, d) \in machine.xhci
                           => Pci!Address(0, d) \in running
  /\ \A c \in running \cup mastering : c.fn = 0
  /\ func = 0 => \A c \in running : \E d \in 0 .. 254 : Past(d) /\ c = Pci!Address(0, d)

\* init_pci begins with nothing passed and nothing brought up.
LEMMA ScanInit == Pci!Init => ScanInv
  BY DEF Pci!Init, ScanInv, Past

\* Every step of init_pci keeps it.
LEMMA ScanNext == ScanInv /\ [Pci!Next]_(Pci!vars) => ScanInv'
<1> SUFFICES ASSUME ScanInv, [Pci!Next]_(Pci!vars) PROVE ScanInv'
  OBVIOUS
<1>0. /\ machine \in PciMachines /\ 0 \in machine.bridge /\ machine.bridge \subseteq 0 .. 7
      /\ func \in 0 .. 8 /\ dev \in 0 .. 254
  BY PciAssumption DEF ScanInv, Pci!MachinesAssumption, Pci!Functions
<1>1. CASE UNCHANGED Pci!vars
  BY <1>1 DEF ScanInv, Past, Pci!vars, Pci!isSingleFunctionDevice
<1>2. CASE Pci!Stopped
  BY <1>2 DEF ScanInv, Past, Pci!vars, Pci!isSingleFunctionDevice, Pci!Stopped
<1>3. CASE Pci!StartBus
  <2>1. scan = "init" /\ UNCHANGED <<machine, mastering, running, driver>>
    BY <1>3 DEF Pci!StartBus
  <2>2. CASE func = 8 \/ (Pci!isSingleFunctionDevice /\ func > 0)
    <3>1. scan' = "done" /\ func' = func /\ dev' = dev /\ func > 0
      BY <1>3, <2>2 DEF Pci!StartBus
    <3> QED BY <1>0, <2>1, <3>1 DEF ScanInv, Past
  <2>3. CASE ~ (func = 8 \/ (Pci!isSingleFunctionDevice /\ func > 0)) /\ func \in machine.bridge
    <3>1. scan' = "bus" /\ dev' = 0 /\ func' = func
      BY <1>3, <2>3 DEF Pci!StartBus
    <3> QED BY <1>0, <2>1, <2>3, <3>1 DEF ScanInv, Past, Pci!isSingleFunctionDevice
  <2>4. CASE ~ (func = 8 \/ (Pci!isSingleFunctionDevice /\ func > 0)) /\ func \notin machine.bridge
    <3>1. scan' = scan /\ dev' = dev /\ func' = func + 1 /\ func > 0 /\ func < 8
      BY <1>0, <1>3, <2>4 DEF Pci!StartBus
    <3> QED BY <1>0, <2>1, <2>4, <3>1 DEF ScanInv, Past, Pci!isSingleFunctionDevice
  <2> QED BY <2>2, <2>3, <2>4
<1>4. ASSUME scan = "bus", machine' = machine, Pci!NextDevice,
             running \subseteq running',
             Pci!Address(func, dev) \in machine.xhci => Pci!Address(func, dev) \in running',
             running' \subseteq running \cup {Pci!Address(func, dev)},
             mastering' \subseteq mastering \cup {Pci!Address(func, dev)}
      PROVE  ScanInv'
  <2>0. \A c \in running' \cup mastering' : c.fn = 0
    BY <1>4 DEF ScanInv, Pci!Address
  <2>1. func \in 0 .. 7
    BY <1>0, <1>4 DEF ScanInv
  <2>2. CASE dev = 254
    <3>1. scan' = "init" /\ func' = func + 1 /\ dev' = dev
      BY <1>4, <2>2 DEF Pci!NextDevice, Pci!LastDevice
    <3>2. ASSUME NEW d \in 0 .. 254, Pci!Address(0, d) \in machine.xhci
          PROVE  Pci!Address(0, d) \in running'
      <4>1. CASE func > 0 \/ d < dev
        BY <1>4, <3>2, <4>1 DEF ScanInv, Past
      <4>2. CASE func = 0 /\ d = dev
        BY <1>4, <3>2, <4>2
      <4> QED BY <2>1, <2>2, <4>1, <4>2
    <3>3. Pci!isSingleFunctionDevice => func = 0
      BY <1>0, <1>4, <2>1 DEF ScanInv, Pci!isSingleFunctionDevice
    <3> QED BY <1>0, <1>4, <2>0, <2>1, <3>1, <3>2, <3>3 DEF ScanInv, Past, Pci!isSingleFunctionDevice
  <2>3. CASE dev # 254
    <3>1. scan' = scan /\ func' = func /\ dev' = dev + 1 /\ dev' \in 0 .. 254
      BY <1>0, <1>4, <2>3 DEF Pci!NextDevice, Pci!LastDevice
    <3>2. ASSUME NEW d \in 0 .. 254, Past(d)', Pci!Address(0, d) \in machine.xhci
          PROVE  Pci!Address(0, d) \in running'
      <4>0. func > 0 \/ d < dev + 1
        BY <3>1, <3>2 DEF Past
      <4>1. CASE func > 0 \/ d < dev
        BY <1>4, <3>2, <4>1 DEF ScanInv, Past
      <4>2. CASE func = 0 /\ d = dev
        BY <1>4, <3>2, <4>2
      <4>3. func = 0 \/ func > 0
        BY <2>1
      <4>4. d < dev + 1 => d < dev \/ d = dev
        BY <1>0
      <4> QED BY <4>0, <4>1, <4>2, <4>3, <4>4
    <3>3. ASSUME func = 0, NEW c \in running'
          PROVE  \E d \in 0 .. 254 : Past(d)' /\ c = Pci!Address(0, d)
      <4>1. CASE c \in running
        <5>1. PICK d \in 0 .. 254 : Past(d) /\ c = Pci!Address(0, d)
          BY <3>3, <4>1 DEF ScanInv
        <5>2. Past(d)'
          BY <1>0, <1>4, <3>1, <3>3, <5>1 DEF Past
        <5> QED BY <5>1, <5>2
      <4>2. CASE c = Pci!Address(0, dev)
        <5>1. PICK d \in 0 .. 254 : d = dev
          BY <1>0
        <5>2. Past(d)'
          BY <1>0, <1>4, <3>1, <5>1 DEF Past
        <5> QED BY <4>2, <5>1, <5>2
      <4> QED BY <1>4, <3>3, <4>1, <4>2
    <3>4. machine' = machine /\ (Pci!isSingleFunctionDevice => func <= 1) /\ func \in machine.bridge
      BY <1>4 DEF ScanInv
    <3> QED BY <1>0, <1>4, <2>0, <3>1, <3>2, <3>3, <3>4 DEF ScanInv, Pci!isSingleFunctionDevice
  <2> QED BY <2>2, <2>3
<1>5. CASE Pci!SkipDevice
  BY <1>4, <1>5 DEF Pci!SkipDevice
<1>6. CASE Pci!scanDevice
  <2> DEFINE c == Pci!Address(func, dev)
  <2>1. scan = "bus" /\ machine' = machine /\ c \in machine.xhci /\ mastering' = mastering \cup {c}
    BY <1>6 DEF Pci!scanDevice
  <2>10. \A k \in mastering' : k.fn = 0
    BY <2>1 DEF ScanInv, Pci!Address
  <2>2. CASE c \in running
    <3>1. scan' = "panic" /\ func' = func /\ dev' = dev /\ running' = running
      BY <1>6, <2>2 DEF Pci!scanDevice
    <3>2. func # 0
      <4> SUFFICES ASSUME func = 0 PROVE FALSE
        OBVIOUS
      <4>1. PICK d \in 0 .. 254 : Past(d) /\ Pci!Address(0, dev) = Pci!Address(0, d)
        BY <2>2 DEF ScanInv
      <4>2. d < dev
        BY <4>1 DEF Past
      <4>3. d = dev
        BY <1>0, <4>1, AddressOnce
      <4> QED BY <1>0, <4>2, <4>3
    <3>3. func \in machine.bridge /\ func > 0
      BY <1>0, <2>1, <3>2 DEF ScanInv
    <3> QED BY <1>0, <2>1, <2>10, <3>1, <3>3 DEF ScanInv, Past, Pci!isSingleFunctionDevice
  <2>3. CASE c \notin running
    <3>1. running' = running \cup {c} /\ Pci!NextDevice
      BY <1>6, <2>3 DEF Pci!scanDevice
    <3> QED BY <1>4, <2>1, <3>1
  <2> QED BY <2>2, <2>3
<1> QED BY <1>1, <1>2, <1>3, <1>5, <1>6 DEF Pci!Next, Pci!init_pci

\* init_pci, for every set of controllers on buses 0 to 7, at any function, and
\* every host bridge: the scan brings the controllers in its reach up once if
\* they are function 0 of their device and never if they are another, and
\* meets init_xhci's panic only behind bus 0 and a multifunction bridge.
THEOREM ControllersOnce == Pci!Spec => []FirstFunctionsOnce
<1>1. ScanInv => FirstFunctionsOnce
  <2> SUFFICES ASSUME ScanInv PROVE Pci!FirstFunctionsOnce
    BY DEF FirstFunctionsOnce
  <2>0. machine.xhci \subseteq Pci!Place /\ machine.bridge \subseteq 0 .. 7
    BY PciAssumption DEF ScanInv, Pci!MachinesAssumption, Pci!Functions
  <2>1. ASSUME scan = "done", NEW c \in machine.xhci, c.fn = 0, Pci!InReach(c)
        PROVE  c \in running
    <3>1. PICK d \in 0 .. 254 : Pci!Address(0, d) = c
      BY <2>0, <2>1, AddressAll DEF Pci!InReach
    <3> QED BY <2>1, <3>1 DEF ScanInv, Past
  <2>2. ASSUME scan = "panic"
        PROVE  ~ Pci!isSingleFunctionDevice /\ Pci!Address(func, dev).bus # 0
    <3>1. func \in 0 .. 7 /\ func # 0 /\ func \in machine.bridge
      BY <2>0, <2>2 DEF ScanInv
    <3>2. Pci!Or(func, dev \div 32) # 0
      <4>1. PICK d \in 0 .. 254 : d = dev
        BY DEF ScanInv
      <4>2. d \div 32 \in 0 .. 7
        BY AddressIs
      <4> QED BY <3>1, <4>1, <4>2, OrIs
    <3> QED BY <3>1, <3>2 DEF Pci!isSingleFunctionDevice, Pci!Address
  <2>3. \A c \in running \cup mastering : c.fn = 0
    BY DEF ScanInv
  <2> QED BY <2>1, <2>2, <2>3 DEF Pci!FirstFunctionsOnce
<1> QED BY <1>1, ScanInit, ScanNext, PTL DEF Pci!Spec
=============================================================================
