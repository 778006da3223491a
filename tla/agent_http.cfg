SPECIFICATION FairSpec
CONSTANTS
  Transport = "HTTP"
  Flow = "JOB"
  SendResult = TRUE
  RebootUponCompletion = TRUE
  AppResults = {"CONTINUE", "STOP", "APP_FAILED"}
  AppConnects = FALSE
  AppStops = FALSE
  TimerIsSlow = TRUE
  MaxDownloadTries = 2
  ConnectRetries = 1
INVARIANTS VerifiedInv ReportsOnlyVerified BoundedDownloads
PROPERTIES SessionEnds
CHECK_DEADLOCK FALSE
