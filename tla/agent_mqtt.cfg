SPECIFICATION Spec
CONSTANTS
  Transport = "MQTT"
  Flow = "JOB"
  SendResult = TRUE
  RebootUponCompletion = TRUE
  AppResults = {"CONTINUE", "STOP", "APP_FAILED"}
  AppConnects = TRUE
  AppStops = FALSE
  TimerIsSlow = TRUE
  MaxDownloadTries = 2
  ConnectRetries = 1
INVARIANTS RebootsOnlyVerified RebootsOnlyComplete ConnectedIsUsable
PROPERTIES IsSession
CHECK_DEADLOCK FALSE
