SPECIFICATION FairSpec
CONSTANTS
  Chunk = 4
  BufferSize = 5
  Word = 64
  Sizes = {1, 2, 4, 5, 6, 7, 8, 9, 10, 13}
  Answers = {"exact", "short", "error"}
  AppResults = {"CONTINUE", "STOP"}
  Erased = Erased
PROPERTIES DownloadEnds
CHECK_DEADLOCK FALSE
