SPECIFICATION FairSpec
CONSTANTS
  RingSize = 6
  Trb = {t1, t2}
  Zero = Zero
  Link = Link
  MaxTd = 3
  MaxEvents = 2
  Limited = TRUE
INVARIANTS
  IssuerStillThere
PROPERTIES
  FetchesInOrder
  EveryTrbFetched
