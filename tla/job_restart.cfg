SPECIFICATION Spec
CONSTANTS
  Initial = "MQTT"
  Params <- MCParams
  Documents <- MCDocuments
  AppVersion <- MCVersion
  Board = "kit"
  Word = 16
  SendResult = TRUE
INVARIANTS JobFromInitial
