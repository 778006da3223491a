SPECIFICATION FairSpec
CONSTANTS
  NumPackets = 2
  MaxPackets = 2
  TallyRange = 256
  AppResults = {"CONTINUE"}
  PacketTimeout = TRUE
  DataTimeout = FALSE
  EarlyPackets = TRUE
  BadPackets = TRUE
  AppStops = TRUE
  Deliveries = 3
PROPERTIES DownloadEnds
CHECK_DEADLOCK FALSE
