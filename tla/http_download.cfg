SPECIFICATION FairSpec
CONSTANTS
  Chunk = 4
  BufferSize = 5
  Word = 64
  Sizes = {1, 2, 3, 4, 6, 7, 8, 10, 11, 12, 14, 15, 16, 18, 19, 20, 22}
  Answers = {"exact", "error"}
  AppResults = {"CONTINUE", "APP_SUCCESS", "APP_FAILED"}
  Erased = Erased
INVARIANTS TypeOK PrefixInPlace SuccessIsComplete
PROPERTIES IsDownload
CHECK_DEADLOCK FALSE
