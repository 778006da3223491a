SPECIFICATION FairSpec
CONSTANTS
  Block = 4
  HeaderSize = 4
  Row = 4
  SlotSize = 28
  Word = 128
  Streams <- MCStreams
  Contents <- MCContents
  Pieces = {3, 7}
  MaxEvents = 4
INVARIANTS TypeOK CoalesceInOrder VerifiedIsStored
PROPERTIES CallsReturn
CHECK_DEADLOCK FALSE
