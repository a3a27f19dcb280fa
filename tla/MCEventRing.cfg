SPECIFICATION FairSpec
CONSTANTS
  RingSize = 4
  Event = {e1, e2}
  NoEvent = NoEvent
INVARIANTS
  HeldTrbIntact
  QueuedIffPending
PROPERTIES
  DeliversInOrder
  EveryEventTaken
