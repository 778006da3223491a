------------------------------ MODULE OTAAgent ------------------------------
(***************************************************************************)
(* The OTA agent of source/cy_ota_agent.c: the agent thread that walks the *)
(* state table, the application's thread that starts, pokes and stops it,  *)
(* the one-shot timer, the event group they share, and the application's   *)
(* callback, which may override every step.  The transports (cy_ota_mqtt.c,*)
(* cy_ota_http.c) and the storage (cy_ota_storage.c) appear as the         *)
(* outcomes their calls may have for the agent.                            *)
(*                                                                         *)
(* The agent reads ctx->curr_state again and again while the application's *)
(* thread may write it, so a pass through the loop is cut at these reads:  *)
(*   loop -> lookup -> start_cb -> function (-> waiting | downloading)     *)
(*        -> result -> decide -> loop                                      *)
(***************************************************************************)
EXTENDS Naturals, FiniteSets

CONSTANTS
  Transport,             \* "MQTT" or "HTTP": the transport of job, data and result
  Flow,                  \* "JOB" or "DIRECT": network_params.use_get_job_flow
  SendResult,            \* ~agent_params.do_not_send_result
  RebootUponCompletion,  \* agent_params.reboot_upon_completion
  AppResults,            \* what the application's callback may return
  AppConnects,           \* may the application supply a connection in its callback
  AppStops,              \* may the application call cy_ota_agent_stop()
  TimerIsSlow,           \* no timer expires before the agent is back in its wait
  MaxDownloadTries,      \* CY_OTA_MAX_DOWNLOAD_TRIES
  ConnectRetries         \* CY_OTA_CONNECT_RETRIES

CallbackResults == {"CONTINUE", "STOP", "APP_SUCCESS", "APP_FAILED"}

ASSUME TransportAssumption == Transport \in {"MQTT", "HTTP"}
ASSUME FlowAssumption == Flow \in {"JOB", "DIRECT"}
ASSUME SwitchAssumption ==
  /\ SendResult \in BOOLEAN /\ RebootUponCompletion \in BOOLEAN
  /\ AppConnects \in BOOLEAN /\ AppStops \in BOOLEAN /\ TimerIsSlow \in BOOLEAN
ASSUME AppAssumption == AppResults \subseteq CallbackResults /\ "CONTINUE" \in AppResults
ASSUME RetryAssumption == MaxDownloadTries \in Nat \ {0} /\ ConnectRetries \in Nat \ {0}

VARIABLES
  \* the context shared by the two threads and the timer
  curr_state,                   \* ctx->curr_state
  ota_event,                    \* ctx->ota_event, the bits set
  timer,                        \* "off", or "START_UPDATE" while ota_timer runs for it
  \* the agent thread
  pc,                           \* where the thread is in its loop
  entry,                        \* the state whose table row is being executed
  result,                       \* the local result
  new_state,                    \* the local new_state
  last_error,                   \* cy_ota_last_error
  stop_OTA_session,
  \* the session
  parse_result,                 \* parsed_job.parse_result
  curr_server,                  \* "initial", or "job" once the job redirected us
  download_retry_count,
  contact_server_retry_count,
  reboot_after_sending_result,
  \* the connection
  device_connected,
  connection_established,       \* mqtt/http.connection_established
  connection,                   \* http.connection is not NULL (FALSE with MQTT,
                                \* which never tests its handle)
  connection_from_app,
  topic,                        \* unique topic subscribed: "none", "current", "stale"
  \* the storage
  storage_open,
  storage_loc,                  \* ctx->storage_loc is not NULL
  written,                      \* total_bytes_written > 0
  image,                        \* secondary slot: "erased", "partial", "complete"
  \* the application's thread, and history
  app,                          \* where that thread is
  verified,                     \* history: this session's image was verified
  sent,                         \* history: the result this session sent
  attempts                      \* history: downloads begun in this session, counted
                                \* as far as one more than there may be

shared  == <<curr_state, ota_event, timer>>
local   == <<pc, entry, result, new_state>>
errors  == <<last_error, stop_OTA_session>>
session == <<parse_result, curr_server, download_retry_count,
             contact_server_retry_count, reboot_after_sending_result>>
link    == <<device_connected, connection_established, connection,
             connection_from_app, topic>>
storage == <<storage_open, storage_loc, written, image>>
history == <<verified, sent, attempts>>
vars    == <<shared, local, errors, session, link, storage, app, history>>

-----------------------------------------------------------------------------
(* The state table                                                         *)

Row(cb, ok, failure_result, failed, stopped) ==
  [send_start_cb |-> cb, success |-> ok, failure_result |-> failure_result,
   failure |-> failed, app_stop |-> stopped]

cy_ota_state_table ==
  [AGENT_WAITING     |-> Row(TRUE,  "START_UPDATE",      "EXITING",           "EXITING",         "EXITING"),
   START_UPDATE      |-> Row(TRUE,  "JOB_CONNECT",       "DIRECT_FLOW",       "STORAGE_OPEN",    "OTA_COMPLETE"),
   JOB_CONNECT       |-> Row(TRUE,  "JOB_DOWNLOAD",      "ERROR_CONNECT",     "AGENT_WAITING",   "OTA_COMPLETE"),
   JOB_DOWNLOAD      |-> Row(FALSE, "JOB_DISCONNECT",    "ERROR_GET_JOB",     "JOB_DISCONNECT",  "JOB_DISCONNECT"),
   JOB_DISCONNECT    |-> Row(TRUE,  "JOB_PARSE",         "ERROR_DISCONNECT",  "OTA_COMPLETE",    "OTA_COMPLETE"),
   JOB_PARSE         |-> Row(TRUE,  "JOB_REDIRECT",      "MALFORMED_JOB_DOC", "RESULT_REDIRECT", "OTA_COMPLETE"),
   JOB_REDIRECT      |-> Row(TRUE,  "STORAGE_OPEN",      "ERROR_REDIRECT",    "RESULT_REDIRECT", "OTA_COMPLETE"),
   STORAGE_OPEN      |-> Row(TRUE,  "DATA_CONNECT",      "ERROR_OPEN_STORAGE", "RESULT_REDIRECT", "OTA_COMPLETE"),
   DATA_CONNECT      |-> Row(TRUE,  "DATA_DOWNLOAD",     "ERROR_CONNECT",     "RESULT_REDIRECT", "OTA_COMPLETE"),
   DATA_DOWNLOAD     |-> Row(FALSE, "DATA_DISCONNECT",   "ERROR_GET_DATA",    "DATA_DISCONNECT", "DATA_DISCONNECT"),
   DATA_DISCONNECT   |-> Row(TRUE,  "STORAGE_CLOSE",     "ERROR_DISCONNECT",  "STORAGE_CLOSE",   "OTA_COMPLETE"),
   STORAGE_CLOSE     |-> Row(TRUE,  "VERIFY",            "ERROR_CLOSE_STORAGE", "RESULT_REDIRECT", "OTA_COMPLETE"),
   VERIFY            |-> Row(TRUE,  "RESULT_REDIRECT",   "ERROR_VERIFY",      "RESULT_REDIRECT", "RESULT_REDIRECT"),
   RESULT_REDIRECT   |-> Row(TRUE,  "RESULT_CONNECT",    "DIRECT_FLOW",       "OTA_COMPLETE",    "OTA_COMPLETE"),
   RESULT_CONNECT    |-> Row(TRUE,  "RESULT_SEND",       "ERROR_CONNECT",     "OTA_COMPLETE",    "OTA_COMPLETE"),
   RESULT_SEND       |-> Row(FALSE, "RESULT_DISCONNECT", "ERROR_SENDING",     "RESULT_DISCONNECT", "RESULT_DISCONNECT"),
   RESULT_DISCONNECT |-> Row(TRUE,  "OTA_COMPLETE",      "ERROR_DISCONNECT",  "OTA_COMPLETE",    "OTA_COMPLETE"),
   OTA_COMPLETE      |-> Row(TRUE,  "AGENT_WAITING",     "SUCCESS",           "AGENT_WAITING",   "AGENT_WAITING"),
   EXITING           |-> Row(TRUE,  "AGENT_WAITING",     "EXITING",           "AGENT_WAITING",   "AGENT_WAITING")]

TableStates   == DOMAIN cy_ota_state_table
ConnectStates == {"JOB_CONNECT", "DATA_CONNECT", "RESULT_CONNECT"}
DisconnectStates == {"JOB_DISCONNECT", "DATA_DISCONNECT", "RESULT_DISCONNECT"}
\* The states below CY_OTA_STATE_AGENT_WAITING in cy_ota_agent_state_t.
EarlyStates == {"NOT_INITIALIZED", "EXITING", "INITIALIZING"}
AgentStates == TableStates \cup EarlyStates

Results ==
  {cy_ota_state_table[s].failure_result : s \in TableStates} \cup
  {"INVALID_VERSION", "BADARG", "CHANGING_SERVER", "APP_RETURNED_STOP", "EXCEEDED_RETRIES"}

-----------------------------------------------------------------------------
(* Helpers                                                                 *)

\* cy_ota_set_last_error(): success is recorded in some states only, and an
\* error never replaces the application's stop.
LastError(error) ==
  IF error = "SUCCESS"
  THEN IF curr_state \in EarlyStates \cup ConnectStates \cup
                         {"AGENT_WAITING", "START_UPDATE", "DATA_DOWNLOAD"}
       THEN "SUCCESS" ELSE last_error
  ELSE IF last_error = "APP_RETURNED_STOP" THEN last_error ELSE error

\* cy_ota_internal_call_cb(): a callback returns r; supply: the application
\* filled in a connection of its own.  What that does to the connection:
CallApp(r, supply) ==
  /\ r \in AppResults
  /\ supply => AppConnects /\ curr_state \in ConnectStates \cup {"JOB_DOWNLOAD"}
  /\ IF supply
     THEN /\ connection_from_app' = TRUE
          /\ connection' = (Transport = "HTTP")
          /\ connection_established' = (connection_established \/ Transport = "MQTT")
     ELSE IF r = "APP_SUCCESS" /\ curr_state \in DisconnectStates
     THEN /\ connection_from_app' = FALSE
          /\ connection' = FALSE
          /\ connection_established' = (connection_established /\ Transport = "HTTP")
     ELSE UNCHANGED <<connection_from_app, connection, connection_established>>
  /\ UNCHANGED <<device_connected, topic>>

\* Mutant of Returns: being connected already is left as the result it is.
ReturnsUnmapped(r) ==
  IF r = "EXITING" /\ curr_state = "AGENT_WAITING"
  THEN pc' = "exit" /\ UNCHANGED result
  ELSE pc' = "result" /\ result' = r

\* A state function returned r: a stop signal found while waiting ends the
\* thread, and in a connect state being connected already is a success.
Returns(r) ==
  IF r = "EXITING" /\ curr_state = "AGENT_WAITING"
  THEN pc' = "exit" /\ UNCHANGED result
  ELSE /\ pc' = "result"
       /\ result' = IF r # "ALREADY_CONNECTED" THEN r
                    ELSE IF curr_state \in ConnectStates THEN "SUCCESS"
                    ELSE "ERROR_CONNECT"

Running(state) == pc = "function" /\ entry = state

\* Mutant of Disconnect: the device stays "connected".
DisconnectForgets ==
  /\ connection_established' = (connection_established /\ connection_from_app)
  /\ connection' = (connection /\ connection_from_app)
  /\ topic' = "none"
  /\ UNCHANGED <<device_connected, connection_from_app>>

\* Mutant of Disconnect: the topic stays subscribed.
DisconnectKeepsTopic ==
  /\ device_connected' = FALSE
  /\ IF ~device_connected
     THEN UNCHANGED <<connection_established, connection>>
     ELSE /\ connection_established' = (connection_established /\ connection_from_app)
          /\ connection' = (connection /\ (connection_from_app \/ ~connection_established))
  /\ UNCHANGED <<topic, connection_from_app>>

\* cy_ota_disconnect(): a transport closes only a connection the agent made
\* itself; device_connected is cleared in any case.
Disconnect ==
  /\ device_connected' = FALSE
  /\ IF ~device_connected
     THEN UNCHANGED <<connection_established, connection, topic>>
     ELSE /\ topic' = IF connection_established THEN "none" ELSE topic
          /\ connection_established' = (connection_established /\ connection_from_app)
          /\ connection' = (connection /\ (connection_from_app \/ ~connection_established))
  /\ UNCHANGED connection_from_app

\* cy_ota_close_filesystem(): closing a storage that is open fails only when
\* its location is lost.
CloseFilesystem == storage_open' = FALSE /\ UNCHANGED <<storage_loc, written, image>>
CloseResult == IF storage_open /\ ~storage_loc THEN "ERROR_CLOSE_STORAGE" ELSE "SUCCESS"

-----------------------------------------------------------------------------
(* The initial state, and the end of a life of the agent                   *)

\* Before the first start there is no context, and anything in the slot.
Init ==
  /\ curr_state = "NOT_INITIALIZED" /\ ota_event = {} /\ timer = "off"
  /\ pc = "off" /\ entry = "AGENT_WAITING"
  /\ result = "SUCCESS" /\ new_state = "AGENT_WAITING"
  /\ last_error = "SUCCESS" /\ stop_OTA_session = FALSE
  /\ parse_result = "SUCCESS" /\ curr_server = "initial"
  /\ download_retry_count = 0 /\ contact_server_retry_count = 0
  /\ reboot_after_sending_result = FALSE
  /\ device_connected = FALSE /\ connection_established = FALSE
  /\ connection = FALSE /\ connection_from_app = FALSE /\ topic = "none"
  /\ storage_open = FALSE /\ storage_loc = FALSE /\ written = FALSE
  /\ image = "partial"
  /\ app = "stopped"
  /\ verified = FALSE /\ sent = "nothing" /\ attempts = 0

\* The context is cleared and freed; the slot stays as it is.
FreeContext ==
  /\ curr_state' = "NOT_INITIALIZED" /\ ota_event' = {} /\ timer' = "off"
  /\ pc' = "off" /\ entry' = "AGENT_WAITING"
  /\ result' = "SUCCESS" /\ new_state' = "AGENT_WAITING"
  /\ stop_OTA_session' = FALSE
  /\ parse_result' = "SUCCESS" /\ curr_server' = "initial"
  /\ download_retry_count' = 0 /\ contact_server_retry_count' = 0
  /\ reboot_after_sending_result' = FALSE
  /\ device_connected' = FALSE /\ connection_established' = FALSE
  /\ connection' = FALSE /\ connection_from_app' = FALSE /\ topic' = "none"
  /\ storage_open' = FALSE /\ storage_loc' = FALSE /\ written' = FALSE
  /\ app' = "stopped"
  /\ verified' = FALSE /\ sent' = "nothing" /\ attempts' = 0
  /\ UNCHANGED image

-----------------------------------------------------------------------------
(* The application's thread                                                *)

\* What no call of the application and no timer touches.
unseen == <<local, errors, session, link, storage, history>>

\* cy_ota_agent_start(): a zeroed context and a thread of its own ...
AgentStart ==
  /\ app = "stopped"
  /\ app' = "starting"
  /\ curr_state' = "INITIALIZING" /\ pc' = "begin"
  /\ UNCHANGED <<ota_event, timer, entry, result, new_state, errors, session,
                 link, storage, history>>

\* ... which has to show it is alive ...
AgentStarted ==
  /\ app = "starting" /\ "RUNNING_EXITING" \in ota_event
  /\ app' = "running"
  /\ ota_event' = ota_event \ {"RUNNING_EXITING"}
  /\ UNCHANGED <<curr_state, timer, unseen>>

\* ... within a second, or it is stopped.
AgentStartTimeout ==
  /\ AppStops
  /\ app = "starting" /\ "RUNNING_EXITING" \notin ota_event
  /\ app' = "stopping"
  /\ curr_state' = "EXITING"
  /\ UNCHANGED <<ota_event, timer, unseen>>

\* cy_ota_get_update_now(): the check of the state, then the event.
GetUpdateNow ==
  /\ app = "running" /\ curr_state = "AGENT_WAITING"
  /\ app' = "updating"
  /\ UNCHANGED <<shared, unseen>>

SetStartUpdate ==
  /\ app = "updating"
  /\ app' = "running"
  /\ ota_event' = ota_event \cup {"START_UPDATE"}
  /\ UNCHANGED <<curr_state, timer, unseen>>

\* cy_ota_agent_stop(): the state, then the event, then at most a second's wait
\* for an answer, then the join, which has no timeout.
AgentStop ==
  /\ AppStops
  /\ app = "running"
  /\ app' = "stopping"
  /\ curr_state' = "EXITING"
  /\ UNCHANGED <<ota_event, timer, unseen>>

SignalStop ==
  /\ app = "stopping"
  /\ app' = "signalled"
  /\ ota_event' = ota_event \cup {"SHUTDOWN_NOW"}
  /\ UNCHANGED <<curr_state, timer, unseen>>

AwaitExit ==
  /\ app = "signalled"
  /\ app' = "joining"
  /\ ota_event' = ota_event \ {"RUNNING_EXITING"}
  /\ UNCHANGED <<curr_state, timer, unseen>>

AgentStopped ==
  /\ app = "joining" /\ pc = "exited"
  /\ FreeContext /\ UNCHANGED last_error

\* cy_ota_timer_callback()
TimerExpires ==
  /\ timer # "off" /\ pc # "reset"
  /\ TimerIsSlow => pc = "waiting"
  /\ timer' = "off"
  /\ ota_event' = ota_event \cup IF curr_state \in EarlyStates THEN {} ELSE {timer}
  /\ UNCHANGED <<curr_state, app, unseen>>

AppNext ==
  /\ pc # "reset"
  /\ \/ AgentStart \/ AgentStarted \/ AgentStartTimeout
     \/ GetUpdateNow \/ SetStartUpdate
     \/ AgentStop \/ SignalStop \/ AwaitExit \/ AgentStopped

-----------------------------------------------------------------------------
(* The agent's thread: the loop of cy_ota_agent() up to the state function *)

Goto(place) == pc' = place /\ UNCHANGED <<entry, result, new_state>>

Alive ==
  /\ pc = "begin" /\ Goto("init")
  /\ ota_event' = ota_event \cup {"RUNNING_EXITING"}
  /\ UNCHANGED <<curr_state, timer, errors, session, link, storage, app, history>>

\* Mutant of Initialize: the timer of the first check is not started.
InitializeNoTimer ==
  /\ pc = "init" /\ Goto("loop")
  /\ curr_state' = "AGENT_WAITING"
  /\ last_error' = "SUCCESS" /\ stop_OTA_session' = FALSE
  /\ UNCHANGED <<timer, ota_event, session, link, storage, app, history>>

\* stop_OTA_session is cleared and cy_ota_last_error with it.
Initialize ==
  /\ pc = "init" /\ Goto("loop")
  /\ curr_state' = "AGENT_WAITING"
  /\ last_error' = "SUCCESS" /\ stop_OTA_session' = FALSE
  /\ timer' = "START_UPDATE"
  /\ UNCHANGED <<ota_event, session, link, storage, app, history>>

Loop ==
  /\ pc = "loop"
  /\ Goto(IF curr_state = "EXITING" THEN "exit" ELSE "lookup")
  /\ UNCHANGED <<shared, errors, session, link, storage, app, history>>

\* The row of the state; a pass that finds the agent waiting opens a session.
Lookup ==
  /\ pc = "lookup" /\ curr_state \in TableStates
  /\ pc' = IF cy_ota_state_table[curr_state].send_start_cb THEN "start_cb" ELSE "function"
  /\ entry' = curr_state /\ new_state' = curr_state /\ result' = "SUCCESS"
  /\ IF curr_state = "AGENT_WAITING"
     THEN verified' = FALSE /\ sent' = "nothing" /\ attempts' = 0
     ELSE UNCHANGED history
  /\ UNCHANGED <<shared, errors, session, link, storage, app>>

\* CY_OTA_REASON_STATE_CHANGE: the application may take the step over.  When it
\* opens the storage itself, it is the application that erases the slot.
StartCallback(r, supply) ==
  /\ pc = "start_cb" /\ CallApp(r, supply)
  /\ pc' = IF r = "CONTINUE" THEN "function" ELSE "result"
  /\ result' = IF r \in {"STOP", "APP_FAILED"} THEN "APP_RETURNED_STOP" ELSE "SUCCESS"
  /\ stop_OTA_session' = (stop_OTA_session \/ r = "STOP")
  /\ image' = IF r = "APP_SUCCESS" /\ entry = "STORAGE_OPEN" THEN "erased" ELSE image
  /\ UNCHANGED <<entry, new_state, last_error, shared, session, storage_open,
                 storage_loc, written, app, history>>

-----------------------------------------------------------------------------
(* The state functions                                                     *)

\* cy_ota_wait_for_start(): counters, errors, the parsed job and every old event
\* are cleared, and a new unique topic is named.
WaitForStart ==
  /\ Running("AGENT_WAITING") /\ Goto("waiting")
  /\ ota_event' = ota_event \ {"SHUTDOWN_NOW", "START_UPDATE"}
  /\ last_error' = LastError("SUCCESS") /\ stop_OTA_session' = FALSE
  /\ download_retry_count' = 0 /\ contact_server_retry_count' = 0
  /\ parse_result' = "SUCCESS"
  /\ topic' = IF topic = "current" THEN "stale" ELSE topic
  /\ UNCHANGED <<curr_state, timer, entry, curr_server, reboot_after_sending_result,
                 device_connected, connection_established, connection,
                 connection_from_app, storage, app, history>>

\* Mutant of WakeUp: an update comes before a shutdown.
WakeUpUpdateFirst ==
  /\ pc = "waiting" /\ ota_event \cap {"SHUTDOWN_NOW", "START_UPDATE"} # {}
  /\ ota_event' = ota_event \ {"SHUTDOWN_NOW", "START_UPDATE"}
  /\ IF "START_UPDATE" \in ota_event
     THEN Returns("SUCCESS") /\ UNCHANGED timer
     ELSE Returns("EXITING") /\ timer' = "off"
  /\ UNCHANGED <<curr_state, entry, new_state, errors, session, link, storage, app, history>>

\* A shutdown comes before an update, and both events are taken.
WakeUp ==
  /\ pc = "waiting" /\ ota_event \cap {"SHUTDOWN_NOW", "START_UPDATE"} # {}
  /\ ota_event' = ota_event \ {"SHUTDOWN_NOW", "START_UPDATE"}
  /\ IF "SHUTDOWN_NOW" \in ota_event
     THEN Returns("EXITING") /\ timer' = "off"
     ELSE Returns("SUCCESS") /\ UNCHANGED timer
  /\ UNCHANGED <<curr_state, entry, new_state, errors, session, link, storage, app, history>>

\* The row of CY_OTA_STATE_EXITING has no function.
NoFunction ==
  /\ Running("EXITING") /\ Returns("SUCCESS")
  /\ UNCHANGED <<shared, entry, new_state, errors, session, link, storage, app, history>>

\* cy_ota_setup_connection_type(), outside of CY_OTA_STATE_JOB_REDIRECT
RestoreServer == curr_server' = "initial"

DetermineFlow ==
  /\ Running("START_UPDATE")
  /\ RestoreServer
  /\ Returns(IF Flow = "JOB" THEN "SUCCESS" ELSE "DIRECT_FLOW")
  /\ UNCHANGED <<shared, entry, new_state, errors, parse_result, download_retry_count,
                 contact_server_retry_count, reboot_after_sending_result, link,
                 storage, app, history>>

-----------------------------------------------------------------------------
(* cy_ota_connect() and cy_ota_disconnect()                                *)

Connecting == pc = "function" /\ entry \in ConnectStates
unlinked == <<shared, entry, new_state, parse_result, curr_server, download_retry_count,
              reboot_after_sending_result, storage, app, history>>

AlreadyConnected ==
  /\ Connecting /\ device_connected
  /\ Returns("ALREADY_CONNECTED")
  /\ UNCHANGED <<unlinked, errors, contact_server_retry_count, link>>

\* A connect that is really tried starts from a clean record.
CleanStart ==
  /\ contact_server_retry_count' = 0 /\ stop_OTA_session' = FALSE
  /\ last_error' = LastError("SUCCESS")

\* A connection to reuse: the application's, an open one, or (HTTP) one the
\* transport still takes for established although its handle is gone.
Reusable == connection_from_app \/ connection_established \/ connection

ReuseConnection ==
  /\ Connecting /\ ~device_connected /\ Reusable
  /\ CleanStart
  /\ Returns(IF connection_from_app THEN "SUCCESS" ELSE "ALREADY_CONNECTED")
  /\ UNCHANGED <<unlinked, link>>

\* cy_ota_mqtt_connect(), cy_ota_http_connect()
ConnectSucceeds ==
  /\ Connecting /\ ~device_connected /\ ~Reusable
  /\ CleanStart
  /\ device_connected' = TRUE /\ connection_established' = TRUE
  /\ connection' = (Transport = "HTTP")
  /\ Returns("SUCCESS")
  /\ UNCHANGED <<unlinked, connection_from_app, topic>>

\* A client that was created and did not connect is deleted; whether that
\* clears the handle is the HTTP library's choice.
ConnectFails ==
  /\ Connecting /\ ~device_connected /\ ~Reusable
  /\ CleanStart
  /\ connection' \in IF Transport = "HTTP" THEN BOOLEAN ELSE {FALSE}
  /\ Returns("ERROR_CONNECT")
  /\ UNCHANGED <<unlinked, device_connected, connection_established,
                 connection_from_app, topic>>

DisconnectFunction ==
  /\ pc = "function" /\ entry \in DisconnectStates
  /\ Disconnect
  /\ Returns("SUCCESS")
  /\ UNCHANGED <<unlinked, errors, contact_server_retry_count>>

-----------------------------------------------------------------------------
(* The job                                                                 *)

unjobbed == <<curr_state, entry, new_state, errors, curr_server, download_retry_count,
              contact_server_retry_count, reboot_after_sending_result,
              storage, app, history>>

\* The events a transport clears before it downloads.
Cleared == ota_event \ {"SHUTDOWN_NOW"}

\* cy_ota_job_download(), cy_ota_mqtt_get_job(): needs a connection, clears the
\* events (the shutdown too), subscribes; and waits for what the broker sends.
GetJobMQTT ==
  /\ Running("JOB_DOWNLOAD") /\ Transport = "MQTT"
  /\ timer' = "off"
  /\ IF connection_established
     THEN /\ ota_event' = Cleared
          /\ \/ topic' = (IF topic = "none" THEN "current" ELSE topic) /\ Goto("downloading")
             \/ topic = "none" /\ UNCHANGED topic /\ Returns("ERROR_GET_JOB")
     ELSE Returns("ERROR_GET_JOB") /\ UNCHANGED <<ota_event, topic>>
  /\ UNCHANGED <<unjobbed, parse_result, device_connected, connection_established,
                 connection, connection_from_app>>

\* cy_ota_http_get_job(): the application is called, then one GET is sent.
GetJobHTTP(r, supply) ==
  /\ Running("JOB_DOWNLOAD") /\ Transport = "HTTP"
  /\ CallApp(r, supply)
  /\ timer' = "off"
  /\ CASE r = "CONTINUE"    -> Goto("downloading")
       [] r = "APP_SUCCESS" -> Returns("SUCCESS")
       [] OTHER             -> Returns("ERROR_GET_JOB")
  /\ UNCHANGED <<unjobbed, ota_event, parse_result>>

\* The job arrives, or an error or a timeout does.
JobArrives ==
  /\ pc = "downloading" /\ entry = "JOB_DOWNLOAD"
  /\ Returns("SUCCESS") \/ Returns("ERROR_GET_JOB")
  /\ UNCHANGED <<unjobbed, ota_event, timer, parse_result, link>>

\* A shutdown ends the MQTT download at once, as a success, and the event stays.
JobShutDown ==
  /\ pc = "downloading" /\ entry = "JOB_DOWNLOAD" /\ Transport = "MQTT" /\ "SHUTDOWN_NOW" \in ota_event
  /\ Returns("SUCCESS")
  /\ UNCHANGED <<unjobbed, ota_event, timer, parse_result, link>>

\* cy_ota_job_parse(): a usable job names this server or another one.  Of the
\* errors, INVALID_VERSION stands for those the loop keeps as the last error,
\* BADARG for those it replaces.
ParseErrors == {"INVALID_VERSION", "BADARG"}

JobParse ==
  /\ Running("JOB_PARSE")
  /\ parse_result' \in {"SUCCESS", "CHANGING_SERVER"} \cup ParseErrors
  /\ Returns(IF parse_result' \in ParseErrors THEN parse_result' ELSE "SUCCESS")
  /\ UNCHANGED <<unjobbed, ota_event, timer, link>>

\* cy_ota_job_redirect() and cy_ota_setup_connection_type(): the server changes
\* only if nobody has changed the state meanwhile.
JobRedirect ==
  /\ Running("JOB_REDIRECT")
  /\ curr_server' = IF parse_result # "CHANGING_SERVER" THEN curr_server
                    ELSE IF curr_state = "JOB_REDIRECT" THEN "job" ELSE "initial"
  /\ Returns(IF parse_result \in ParseErrors THEN "ERROR_REDIRECT" ELSE "SUCCESS")
  /\ UNCHANGED <<shared, entry, new_state, errors, parse_result, download_retry_count,
                 contact_server_retry_count, reboot_after_sending_result, link,
                 storage, app, history>>

-----------------------------------------------------------------------------
(* The storage and the data                                                *)

unstored == <<shared, entry, new_state, errors, session, link, app, history>>

\* cy_ota_open_filesystem(): a retry that wrote nothing skips the erase.
OpenFilesystem ==
  /\ Running("STORAGE_OPEN")
  /\ \/ /\ download_retry_count = 0 \/ written
        /\ written' = FALSE
        /\ \/ /\ storage_loc' = TRUE /\ storage_open' = TRUE /\ image' = "erased"
              /\ Returns("SUCCESS")
           \/ /\ storage_loc' = FALSE /\ UNCHANGED <<storage_open, image>>
              /\ Returns("ERROR_OPEN_STORAGE")
     \/ /\ download_retry_count > 0 /\ ~written
        /\ storage_open' = TRUE /\ UNCHANGED <<storage_loc, written, image>>
        /\ Returns("SUCCESS")
  /\ UNCHANGED unstored

CloseFunction ==
  /\ Running("STORAGE_CLOSE")
  /\ CloseFilesystem
  /\ Returns(CloseResult)
  /\ UNCHANGED unstored

\* cy_ota_data_download() up to the request: the received statistics are
\* cleared, and then the transport clears its events and calls the application,
\* which may fetch the data itself.
DataDownload(r) ==
  /\ Running("DATA_DOWNLOAD")
  /\ timer' = "off"
  /\ written' = FALSE
  /\ attempts' = IF attempts > MaxDownloadTries THEN attempts ELSE attempts + 1
  /\ \/ /\ Transport = "MQTT" /\ (~connection_established \/ topic = "none")
        /\ ota_event' = IF connection_established THEN Cleared ELSE ota_event
        /\ Returns("ERROR_GET_DATA")
        /\ r = "CONTINUE" /\ UNCHANGED <<topic, image>>
     \/ /\ Transport = "MQTT" => connection_established
        /\ r \in AppResults
        /\ ota_event' = Cleared
        /\ topic' = IF Transport = "MQTT" /\ topic = "none" THEN "current" ELSE topic
        /\ CASE r = "CONTINUE"    -> Goto("downloading") \/ Returns("ERROR_GET_DATA")
             [] r = "STOP"        -> Returns("APP_RETURNED_STOP")
             [] r = "APP_SUCCESS" -> Returns("SUCCESS")
             [] r = "APP_FAILED"  -> Returns("ERROR_GET_DATA")
        /\ image' = IF r = "APP_SUCCESS" THEN "complete" ELSE image
  /\ UNCHANGED <<curr_state, entry, new_state, errors, session, device_connected,
                 connection_established, connection, connection_from_app,
                 storage_open, storage_loc, app, verified, sent>>

undownloaded == <<shared, entry, new_state, errors, session, link, storage_open,
                  storage_loc, app, history>>

DownloadingData == pc = "downloading" /\ entry = "DATA_DOWNLOAD"

\* The transport has written what it took for the whole image.
DataComplete ==
  /\ DownloadingData
  /\ written' = TRUE /\ image' = "complete"
  /\ Returns("SUCCESS")
  /\ UNCHANGED undownloaded

\* An error, a timeout or a lost server, before or after a first write; a write
\* that fails half-way leaves the slot dirty and counts no byte.
DataFails ==
  /\ DownloadingData
  /\ \/ written' = FALSE /\ image' \in {image, "partial"}
     \/ written' = TRUE /\ image' = "partial"
  /\ Returns("ERROR_GET_DATA")
  /\ UNCHANGED undownloaded

\* The callback for a block (CY_OTA_STATE_STORAGE_WRITE) returned STOP.  Only
\* after its last block does the HTTP loop remember that.
DataStopped ==
  /\ DownloadingData /\ "STOP" \in AppResults
  /\ written' \in BOOLEAN
  /\ image' = IF written' THEN "partial" ELSE image
  /\ \/ Returns("APP_RETURNED_STOP")
     \/ Transport = "HTTP" /\ written' /\ Returns("SUCCESS")
  /\ UNCHANGED undownloaded

\* A shutdown ends the MQTT download at once, as a success.
DataShutDown ==
  /\ DownloadingData /\ Transport = "MQTT" /\ "SHUTDOWN_NOW" \in ota_event
  /\ written' \in BOOLEAN
  /\ image' = IF written' THEN "partial" ELSE image
  /\ Returns("SUCCESS")
  /\ UNCHANGED undownloaded

\* cy_ota_verify_data(): cy_ota_storage_verify() marks the slot for the boot
\* loader and reports success whatever the slot holds.
VerifyData ==
  /\ Running("VERIFY")
  /\ reboot_after_sending_result' = RebootUponCompletion
  /\ Returns("SUCCESS")
  /\ UNCHANGED <<shared, entry, new_state, errors, parse_result, curr_server,
                 download_retry_count, contact_server_retry_count, link, storage,
                 app, history>>

-----------------------------------------------------------------------------
(* The result, and the end of the session                                  *)

\* cy_ota_result_redirect(): back to the first server to report there.
ResultRedirect ==
  /\ Running("RESULT_REDIRECT")
  /\ IF Flow = "DIRECT" \/ ~SendResult
     THEN Returns("DIRECT_FLOW") /\ UNCHANGED curr_server
     ELSE IF stop_OTA_session
     THEN Returns("SUCCESS") /\ UNCHANGED curr_server
     ELSE /\ Returns(IF curr_server = "job" THEN "CHANGING_SERVER" ELSE "SUCCESS")
          /\ RestoreServer
  /\ UNCHANGED <<shared, entry, new_state, errors, parse_result, download_retry_count,
                 contact_server_retry_count, reboot_after_sending_result, link,
                 storage, app, history>>

\* cy_ota_result_send(): what is reported is cy_ota_last_error, once the
\* application has been called.
ResultSend(r) ==
  /\ Running("RESULT_SEND") /\ r \in AppResults
  /\ sent' = IF r # "CONTINUE" THEN sent
             ELSE IF last_error = "SUCCESS" THEN "success" ELSE "failure"
  /\ CASE r = "CONTINUE"    -> Returns("SUCCESS") \/ Returns("ERROR_SENDING")
       [] r = "APP_SUCCESS" -> Returns("SUCCESS")
       [] r = "STOP"        -> Returns("APP_RETURNED_STOP")
       [] r = "APP_FAILED"  -> Returns("ERROR_SENDING")
  /\ UNCHANGED <<shared, entry, new_state, errors, session, link, storage, app,
                 verified, attempts>>

\* Mutant of MayReboot: whatever the last error is.
MayRebootAnyError == ~stop_OTA_session /\ reboot_after_sending_result

\* When cy_ota_complete() resets the device.
MayReboot ==
  /\ last_error \in {"SUCCESS", "DIRECT_FLOW"}
  /\ ~stop_OTA_session
  /\ reboot_after_sending_result

\* cy_ota_complete(): everything still open is closed, and then the device is
\* reset, or waits for its next check.
Complete ==
  /\ Running("OTA_COMPLETE")
  /\ Disconnect
  /\ CloseFilesystem
  /\ IF MayReboot
     THEN Goto("reset") /\ UNCHANGED timer
     ELSE Returns("SUCCESS") /\ timer' = "START_UPDATE"
  /\ UNCHANGED <<curr_state, ota_event, entry, new_state, errors, session, app, history>>

\* NVIC_SystemReset(): the RAM is lost, the slot is not.
Reboot ==
  /\ pc = "reset"
  /\ FreeContext /\ last_error' = "SUCCESS"

-----------------------------------------------------------------------------
(* The loop of cy_ota_agent() after the state function                     *)

row == cy_ota_state_table[entry]
AtResult == <<shared, entry, session, storage, app, sent, attempts>>

\* CY_OTA_REASON_SUCCESS: the application may still turn the success around.
SuccessCallback(r, supply) ==
  /\ pc = "result" /\ result = "SUCCESS" /\ CallApp(r, supply)
  /\ pc' = "judge"
  /\ new_state' = row.success
  /\ result' = CASE r = "STOP"       -> "APP_RETURNED_STOP"
                 [] r = "APP_FAILED" -> row.failure_result
                 [] OTHER            -> "SUCCESS"
  /\ stop_OTA_session' = (stop_OTA_session \/ r = "STOP")
  /\ UNCHANGED <<AtResult, last_error, verified>>

\* What the result means: some results only choose the way and are no errors,
\* a few are recorded as they are, every other one as the row's failure.
Judge ==
  /\ pc = "judge" \/ (pc = "result" /\ result # "SUCCESS")
  /\ IF result = "SUCCESS"
     THEN /\ Goto("decide")
          /\ verified' = (verified \/ entry = "VERIFY")
          /\ UNCHANGED last_error
     ELSE /\ new_state' = row.failure
          /\ IF /\ curr_state \in {"START_UPDATE", "RESULT_REDIRECT"}
                /\ result \in {"DIRECT_FLOW", "CHANGING_SERVER"}
             THEN /\ pc' = "decide" /\ result' = "SUCCESS"
                  /\ last_error' = LastError("SUCCESS")
             ELSE /\ pc' = "failed" /\ UNCHANGED result
                  /\ last_error' =
                       LastError(IF result \in {"APP_RETURNED_STOP", "MALFORMED_JOB_DOC",
                                                "INVALID_VERSION"}
                                 THEN result ELSE row.failure_result)
          /\ UNCHANGED <<entry, verified>>
  /\ UNCHANGED <<shared, stop_OTA_session, session, link, storage, app, sent, attempts>>

\* CY_OTA_REASON_FAILURE
FailureCallback(r, supply) ==
  /\ pc = "failed" /\ CallApp(r, supply)
  /\ pc' = "decide"
  /\ result' = IF r = "STOP" THEN "APP_RETURNED_STOP" ELSE result
  /\ stop_OTA_session' = (stop_OTA_session \/ r = "STOP")
  /\ UNCHANGED <<AtResult, new_state, last_error, verified>>

\* The next state, which replaces whatever the state is by now.
Proceed(state, error) ==
  /\ curr_state' = state /\ last_error' = error
  /\ Goto("loop")
  /\ UNCHANGED <<ota_event, stop_OTA_session, parse_result, curr_server,
                 reboot_after_sending_result, link, storage, app, history>>

SameCounts == UNCHANGED <<timer, download_retry_count, contact_server_retry_count>>

DownloadFailed == curr_state = "DATA_DOWNLOAD" /\ last_error = "ERROR_GET_DATA"
ConnectFailed  == curr_state \in ConnectStates /\ last_error = "ERROR_CONNECT"

DecideStop ==
  /\ pc = "decide" /\ stop_OTA_session
  /\ Proceed(row.app_stop, last_error)
  /\ SameCounts

\* Mutant of MayRetryDownload: one try too many.
MayRetryDownloadOnce == download_retry_count < MaxDownloadTries

MayRetryDownload == download_retry_count + 1 < MaxDownloadTries

\* Mutant of DecideDownload: the tries are not counted.
DecideDownloadUncounted ==
  /\ pc = "decide" /\ ~stop_OTA_session /\ DownloadFailed
  /\ Proceed("STORAGE_OPEN", LastError("SUCCESS"))
  /\ SameCounts

\* A failed download is tried again, from the opening of the storage, until the
\* tries are used up.  (The counter is only compared with the limit: it stays
\* there instead of counting on.)
DecideDownload ==
  /\ pc = "decide" /\ ~stop_OTA_session /\ DownloadFailed
  /\ IF MayRetryDownload
     THEN /\ download_retry_count' = download_retry_count + 1
          /\ Proceed("STORAGE_OPEN", LastError("SUCCESS"))
     ELSE /\ download_retry_count' = MaxDownloadTries
          /\ Proceed(new_state, last_error)
  /\ UNCHANGED <<timer, contact_server_retry_count>>

\* A failed connect is tried again after a wait.
DecideConnect ==
  /\ pc = "decide" /\ ~stop_OTA_session /\ ConnectFailed
  /\ IF result = "SUCCESS"
     THEN /\ contact_server_retry_count' = 0 /\ UNCHANGED timer
          /\ Proceed(new_state, last_error)
     ELSE /\ timer' = "START_UPDATE"
          /\ IF contact_server_retry_count + 1 < ConnectRetries
             THEN /\ contact_server_retry_count' = contact_server_retry_count + 1
                  /\ Proceed("AGENT_WAITING", LastError("SUCCESS"))
             ELSE /\ contact_server_retry_count' = ConnectRetries
                  /\ Proceed("AGENT_WAITING", LastError("EXCEEDED_RETRIES"))
  /\ UNCHANGED download_retry_count

\* Mutant of DecideOther: the row alone says where a failure leads.
DecideOtherByRow ==
  /\ pc = "decide" /\ ~stop_OTA_session /\ ~DownloadFailed /\ ~ConnectFailed
  /\ Proceed(new_state, last_error)
  /\ SameCounts

DecideOther ==
  /\ pc = "decide" /\ ~stop_OTA_session /\ ~DownloadFailed /\ ~ConnectFailed
  /\ Proceed(IF last_error = "SUCCESS" THEN new_state ELSE row.app_stop, last_error)
  /\ SameCounts

Exit ==
  /\ pc = "exit" /\ Goto("exited")
  /\ timer' = "off"
  /\ ota_event' = ota_event \cup {"RUNNING_EXITING"}
  /\ UNCHANGED <<curr_state, errors, session, link, storage, app, history>>

-----------------------------------------------------------------------------
(* The specification                                                       *)

Callback ==
  \E r \in CallbackResults, supply \in BOOLEAN :
    \/ StartCallback(r, supply)
    \/ GetJobHTTP(r, supply)
    \/ SuccessCallback(r, supply)
    \/ FailureCallback(r, supply)

DownloadEnds ==
  \/ JobArrives \/ JobShutDown
  \/ DataComplete \/ DataFails \/ DataStopped \/ DataShutDown

StateFunction ==
  \/ WaitForStart \/ NoFunction \/ DetermineFlow
  \/ AlreadyConnected \/ ReuseConnection \/ ConnectSucceeds \/ ConnectFails
  \/ DisconnectFunction
  \/ GetJobMQTT \/ JobParse \/ JobRedirect
  \/ OpenFilesystem \/ CloseFunction
  \/ \E r \in CallbackResults : DataDownload(r) \/ ResultSend(r)
  \/ VerifyData \/ ResultRedirect \/ Complete

AgentNext ==
  \/ Alive \/ Initialize \/ Loop \/ Lookup
  \/ Callback \/ StateFunction \/ WakeUp \/ DownloadEnds
  \/ Judge \/ DecideStop \/ DecideDownload \/ DecideConnect \/ DecideOther
  \/ Exit

Next == AppNext \/ AgentNext \/ TimerExpires \/ Reboot

\* The agent's thread runs whenever it is not blocked, every wait for the
\* network is bounded by a timeout, the timer fires, and a call of the
\* application's thread once begun goes on.
Fairness ==
  /\ WF_vars(AgentNext)
  /\ WF_vars(TimerExpires)
  /\ WF_vars(AppNext /\ app \notin {"stopped", "running"})

Spec == Init /\ [][Next]_vars
FairSpec == Spec /\ Fairness

-----------------------------------------------------------------------------
(* Invariants                                                              *)

Places == {"off", "begin", "init", "loop", "lookup", "start_cb", "function",
           "waiting", "downloading", "result", "judge", "failed", "decide",
           "exit", "exited", "reset"}
Events == {"RUNNING_EXITING", "SHUTDOWN_NOW", "START_UPDATE"}

SharedOK ==
  /\ curr_state \in AgentStates /\ ota_event \subseteq Events
  /\ timer \in {"off", "START_UPDATE"}

LocalOK ==
  pc \in Places /\ entry \in TableStates /\ result \in Results /\ new_state \in TableStates

ErrorsOK == last_error \in Results /\ stop_OTA_session \in BOOLEAN

SessionOK ==
  /\ parse_result \in {"SUCCESS", "CHANGING_SERVER"} \cup ParseErrors
  /\ curr_server \in {"initial", "job"}
  /\ download_retry_count \in 0..MaxDownloadTries
  /\ contact_server_retry_count \in 0..ConnectRetries
  /\ reboot_after_sending_result \in BOOLEAN

LinkOK ==
  /\ device_connected \in BOOLEAN /\ connection_established \in BOOLEAN
  /\ connection \in BOOLEAN /\ connection_from_app \in BOOLEAN
  /\ topic \in {"none", "current", "stale"}

StorageOK ==
  /\ storage_open \in BOOLEAN /\ storage_loc \in BOOLEAN /\ written \in BOOLEAN
  /\ image \in {"erased", "partial", "complete"}

AppOK ==
  app \in {"stopped", "starting", "running", "updating", "stopping", "signalled", "joining"}

HistoryOK ==
  verified \in BOOLEAN /\ sent \in {"nothing", "success", "failure"} /\ attempts \in Nat

\* Every variable of the agent, of the session and of the application's thread
\* keeps to its type.
TypeOK ==
  /\ SharedOK /\ LocalOK /\ ErrorsOK /\ SessionOK
  /\ LinkOK /\ StorageOK /\ AppOK /\ HistoryOK

\* The device is reset only for an image this very session verified.  The flag
\* that asks for the reset outlives its session, the last error is forgiven at
\* every connect, and the callbacks may override every step of the way.
RebootsOnlyVerified == pc = "reset" => verified

\* The image the device is reset for is the complete one.
RebootsOnlyComplete == pc = "reset" => image = "complete"

\* A success is reported only for an image this session verified.
ReportsOnlyVerified == sent = "success" => verified

\* However its downloads fail, a session begins at most MaxDownloadTries of them.
BoundedDownloads == attempts <= MaxDownloadTries

\* While the agent takes the device for connected, the transport has the
\* connection: device_connected is what makes cy_ota_connect() and
\* cy_ota_disconnect() skip their work.
ConnectedIsUsable ==
  device_connected => IF Transport = "MQTT" THEN connection_established ELSE connection

\* Data arrives on the topic that was made unique for this very session.
TopicOfThisSession == DownloadingData /\ Transport = "MQTT" => topic = "current"

-----------------------------------------------------------------------------
(* Refinement                                                              *)

\* The phase of OTASession to which a state of the table belongs.
PhaseOf(s) ==
  CASE s \in {"AGENT_WAITING", "EXITING"} -> "idle"
    [] s \in {"DATA_DOWNLOAD", "DATA_DISCONNECT", "STORAGE_CLOSE"} -> "downloading"
    [] s = "VERIFY" -> "verifying"
    [] s \in {"RESULT_REDIRECT", "RESULT_CONNECT", "RESULT_SEND", "RESULT_DISCONNECT"}
         -> "reporting"
    [] s = "OTA_COMPLETE" -> "ending"
    [] OTHER -> "preparing"

Phase ==
  CASE pc \in {"off", "begin", "init", "exit", "exited"} -> "off"
    [] pc = "reset" -> "reset"
    [] OTHER -> PhaseOf(entry)

Session == INSTANCE OTASession WITH Tries <- MaxDownloadTries, phase <- Phase

\* The agent implements the session of OTASession: its phases in their order,
\* and a reset only after a verification.
IsSession == Session!Spec

-----------------------------------------------------------------------------
(* Liveness                                                                *)

\* A session comes to its end: the agent waits again, ends, or resets.
SessionEnds ==
  entry = "START_UPDATE" ~> entry = "AGENT_WAITING" \/ pc \in {"exited", "reset"}

\* The agent never waits for ever: some timer always starts another check, until
\* the application stops the agent.
KeepsChecking ==
  pc = "waiting" ~> pc # "waiting" \/ app \in {"stopping", "signalled", "joining"}

\* A stop that finds the agent waiting ends the thread and frees the context.
StopWhileWaiting ==
  pc = "waiting" /\ "SHUTDOWN_NOW" \in ota_event ~> app = "stopped"

\* cy_ota_agent_stop() returns.
StopReturns == app = "joining" ~> app = "stopped"

=============================================================================
