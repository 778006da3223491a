SPECIFICATION FairSpec
CONSTANTS
  Transport = "MQTT"
  Flow = "JOB"
  SendResult = TRUE
  RebootUponCompletion = TRUE
  AppResults = {"CONTINUE"}
  AppConnects = FALSE
  AppStops = TRUE
  TimerIsSlow = TRUE
  MaxDownloadTries = 1
  ConnectRetries = 2
INVARIANTS TypeOK TopicOfThisSession
PROPERTIES KeepsChecking StopWhileWaiting
CHECK_DEADLOCK FALSE
