SPECIFICATION Spec
CONSTANTS
  NumPackets = 3
  MaxPackets = 3
  TallyRange = 256
  AppResults = {"CONTINUE", "APP_SUCCESS", "STOP"}
  PacketTimeout = TRUE
  DataTimeout = TRUE
  EarlyPackets = FALSE
  BadPackets = FALSE
  AppStops = FALSE
  Deliveries = 4
INVARIANTS TypeOK WrittenOnce
PROPERTIES IsDownload
CHECK_DEADLOCK FALSE
