--------------------------- MODULE OTAAgentProofs ---------------------------
(***************************************************************************)
(* Theorems about the OTA agent of OTAAgent, for every transport, flow,    *)
(* application and number of tries.  Every variable keeps to its type; a   *)
(* session begins a bounded number of downloads whatever interrupts it;    *)
(* what the agent takes for a connection is one; data comes on the topic   *)
(* of its session.  An agent that is not stopped resets the device, or     *)
(* reports a success, only in a session that verified its image, walks the *)
(* phases of OTASession, and resets for a complete image.                  *)
(***************************************************************************)
EXTENDS OTAAgent, TLAPS

-----------------------------------------------------------------------------
(* The state table and its names                                           *)

\* The states that have a row, one by one.
LEMMA TableDomain ==
  TableStates =
    {"AGENT_WAITING", "START_UPDATE", "JOB_CONNECT", "JOB_DOWNLOAD", "JOB_DISCONNECT",
     "JOB_PARSE", "JOB_REDIRECT", "STORAGE_OPEN", "DATA_CONNECT", "DATA_DOWNLOAD",
     "DATA_DISCONNECT", "STORAGE_CLOSE", "VERIFY", "RESULT_REDIRECT", "RESULT_CONNECT",
     "RESULT_SEND", "RESULT_DISCONNECT", "OTA_COMPLETE", "EXITING"}
  BY DEF TableStates, cy_ota_state_table

\* A row of the table leads to rows of the table, and reports a known result.
LEMMA RowTypes ==
  ASSUME NEW s \in TableStates
  PROVE  /\ cy_ota_state_table[s].success \in TableStates
         /\ cy_ota_state_table[s].failure \in TableStates
         /\ cy_ota_state_table[s].app_stop \in TableStates
         /\ cy_ota_state_table[s].failure_result \in Results
<1>1. cy_ota_state_table[s].failure_result \in Results
  BY DEF Results
<1>2. cy_ota_state_table[s].success \in TableStates
  BY TableDomain DEF cy_ota_state_table, Row
<1>3. cy_ota_state_table[s].failure \in TableStates
  BY TableDomain DEF cy_ota_state_table, Row
<1>4. cy_ota_state_table[s].app_stop \in TableStates
  BY TableDomain DEF cy_ota_state_table, Row
<1> QED BY <1>1, <1>2, <1>3, <1>4

\* The results the steps name are results.
LEMMA ResultNames ==
  {"SUCCESS", "DIRECT_FLOW", "CHANGING_SERVER", "APP_RETURNED_STOP", "EXITING",
   "ERROR_CONNECT", "ERROR_GET_JOB", "ERROR_GET_DATA", "ERROR_REDIRECT", "ERROR_SENDING",
   "ERROR_OPEN_STORAGE", "ERROR_CLOSE_STORAGE", "INVALID_VERSION", "BADARG",
   "MALFORMED_JOB_DOC", "EXCEEDED_RETRIES"} \subseteq Results
<1>1. {"INVALID_VERSION", "BADARG", "CHANGING_SERVER", "APP_RETURNED_STOP", "EXCEEDED_RETRIES"}
        \subseteq Results
  BY DEF Results
<1>2. \A s \in TableStates : cy_ota_state_table[s].failure_result \in Results
  BY RowTypes
<1>3. /\ "SUCCESS" \in Results
      /\ "DIRECT_FLOW" \in Results
      /\ "EXITING" \in Results
      /\ "ERROR_CONNECT" \in Results
      /\ "ERROR_GET_JOB" \in Results
      /\ "ERROR_GET_DATA" \in Results
      /\ "ERROR_REDIRECT" \in Results
      /\ "ERROR_SENDING" \in Results
      /\ "ERROR_OPEN_STORAGE" \in Results
      /\ "ERROR_CLOSE_STORAGE" \in Results
      /\ "MALFORMED_JOB_DOC" \in Results
  <2>1. /\ cy_ota_state_table["OTA_COMPLETE"].failure_result = "SUCCESS"
        /\ cy_ota_state_table["START_UPDATE"].failure_result = "DIRECT_FLOW"
        /\ cy_ota_state_table["AGENT_WAITING"].failure_result = "EXITING"
        /\ cy_ota_state_table["JOB_CONNECT"].failure_result = "ERROR_CONNECT"
        /\ cy_ota_state_table["JOB_DOWNLOAD"].failure_result = "ERROR_GET_JOB"
        /\ cy_ota_state_table["DATA_DOWNLOAD"].failure_result = "ERROR_GET_DATA"
        /\ cy_ota_state_table["JOB_REDIRECT"].failure_result = "ERROR_REDIRECT"
        /\ cy_ota_state_table["RESULT_SEND"].failure_result = "ERROR_SENDING"
        /\ cy_ota_state_table["STORAGE_OPEN"].failure_result = "ERROR_OPEN_STORAGE"
        /\ cy_ota_state_table["STORAGE_CLOSE"].failure_result = "ERROR_CLOSE_STORAGE"
        /\ cy_ota_state_table["JOB_PARSE"].failure_result = "MALFORMED_JOB_DOC"
    BY DEF cy_ota_state_table, Row
  <2> QED BY <1>2, <2>1, TableDomain
<1> QED BY <1>1, <1>3

\* The states the steps of the agent name are states of the table.
LEMMA StateNames ==
  {"AGENT_WAITING", "STORAGE_OPEN", "EXITING"} \subseteq TableStates
  BY TableDomain

-----------------------------------------------------------------------------
(* Type correctness                                                        *)


\* The counters may be reset.
LEMMA ZeroCounts == 0 \in 0..MaxDownloadTries /\ 0 \in 0..ConnectRetries
  BY RetryAssumption

\* The cleared context is well typed, whatever becomes of last_error.
LEMMA FreeTypes ==
  StorageOK /\ FreeContext =>
    SharedOK' /\ LocalOK' /\ SessionOK' /\ LinkOK' /\ StorageOK' /\ AppOK' /\ HistoryOK'
<1> SUFFICES ASSUME StorageOK, FreeContext
             PROVE  SharedOK' /\ LocalOK' /\ SessionOK' /\ LinkOK' /\ StorageOK' /\ AppOK'
                    /\ HistoryOK'
  OBVIOUS
<1> USE DEF FreeContext
<1>1. SharedOK' BY DEF SharedOK, AgentStates, EarlyStates
<1>2. LocalOK'  BY ResultNames, StateNames DEF LocalOK, Places
<1>3. SessionOK' BY ZeroCounts DEF SessionOK
<1>4. LinkOK' /\ StorageOK' BY DEF LinkOK, StorageOK
<1>5. AppOK' /\ HistoryOK' BY DEF AppOK, HistoryOK
<1> QED BY <1>1, <1>2, <1>3, <1>4, <1>5

\* What a step leaves alone keeps its type: the state the threads share.
LEMMA SharedKept  == SharedOK /\ UNCHANGED shared => SharedOK'
  BY DEF SharedOK, shared
\* The same for the local variables of cy_ota_agent().
LEMMA LocalKept   == LocalOK /\ UNCHANGED local => LocalOK'
  BY DEF LocalOK, local
\* The same for the error and the stop flag.
LEMMA ErrorsKept  == ErrorsOK /\ UNCHANGED errors => ErrorsOK'
  BY DEF ErrorsOK, errors
\* The same for the session.
LEMMA SessionKept == SessionOK /\ UNCHANGED session => SessionOK'
  BY DEF SessionOK, session
\* The same for the connection.
LEMMA LinkKept    == LinkOK /\ UNCHANGED link => LinkOK'
  BY DEF LinkOK, link
\* The same for the storage.
LEMMA StorageKept == StorageOK /\ UNCHANGED storage => StorageOK'
  BY DEF StorageOK, storage
\* The same for the application's thread.
LEMMA AppKept     == AppOK /\ UNCHANGED app => AppOK'
  BY DEF AppOK
\* The same for the history.
LEMMA HistoryKept == HistoryOK /\ UNCHANGED history => HistoryOK'
  BY DEF HistoryOK, history

\* The helpers of the steps give well-typed values.
LEMMA GotoTypes ==
  ASSUME NEW place \in Places, LocalOK, Goto(place) PROVE LocalOK'
  BY DEF Goto, LocalOK

\* The result of a state function is a result, and leads on in the loop.
LEMMA ReturnTypes ==
  ASSUME NEW r \in Results \cup {"ALREADY_CONNECTED"}, LocalOK, Returns(r)
  PROVE  pc' \in Places /\ result' \in Results
  BY ResultNames DEF Returns, LocalOK, Places

\* cy_ota_set_last_error() records a result.
LEMMA ErrorTypes ==
  ASSUME NEW e \in Results, last_error \in Results PROVE LastError(e) \in Results
  BY ResultNames DEF LastError

\* A call of the application keeps the connection well typed.
LEMMA CallAppTypes ==
  ASSUME NEW r, NEW supply, LinkOK, CallApp(r, supply) PROVE LinkOK'
  BY DEF CallApp, LinkOK

\* Every step of the system keeps every variable in its type.
LEMMA TypeStep == TypeOK /\ [Next]_vars => TypeOK'
<1> SUFFICES ASSUME TypeOK, [Next]_vars PROVE TypeOK'
  OBVIOUS
<1> USE SharedKept, LocalKept, ErrorsKept, SessionKept, LinkKept, StorageKept, AppKept,
        HistoryKept
<1> USE DEF TypeOK
<1>1. CASE UNCHANGED vars
  BY <1>1 DEF vars
<1>2. CASE AppNext
  <2>1. CASE AgentStart
    BY <2>1 DEF AgentStart, SharedOK, AgentStates, EarlyStates, LocalOK, AppOK, Places
  <2>2. CASE AgentStarted
    BY <2>2 DEF AgentStarted, SharedOK, AppOK, unseen
  <2>3. CASE AgentStartTimeout
    BY <2>3 DEF AgentStartTimeout, SharedOK, AgentStates, EarlyStates, AppOK, unseen
  <2>4. CASE GetUpdateNow
    BY <2>4 DEF GetUpdateNow, AppOK, unseen
  <2>5. CASE SetStartUpdate
    BY <2>5 DEF SetStartUpdate, SharedOK, Events, AppOK, unseen
  <2>6. CASE AgentStop
    BY <2>6 DEF AgentStop, SharedOK, AgentStates, EarlyStates, AppOK, unseen
  <2>7. CASE SignalStop
    BY <2>7 DEF SignalStop, SharedOK, Events, AppOK, unseen
  <2>8. CASE AwaitExit
    BY <2>8 DEF AwaitExit, SharedOK, AppOK, unseen
  <2>9. CASE AgentStopped
    BY <2>9, FreeTypes DEF AgentStopped, ErrorsOK, FreeContext
  <2> QED BY <1>2, <2>1, <2>2, <2>3, <2>4, <2>5, <2>6, <2>7, <2>8, <2>9 DEF AppNext
<1>3. CASE TimerExpires
  BY <1>3 DEF TimerExpires, SharedOK, Events, unseen
<1>4. CASE Reboot
  BY <1>4, FreeTypes, ResultNames DEF Reboot, ErrorsOK, FreeContext
<1>5. CASE Alive \/ Loop
  BY <1>5 DEF Alive, Loop, Goto, SharedOK, Events, LocalOK, Places
<1>6. CASE Initialize
  BY <1>6, ResultNames, StateNames
     DEF Initialize, Goto, SharedOK, AgentStates, LocalOK, Places, ErrorsOK
<1>7. CASE Lookup
  <2>1. LocalOK' BY <1>7, ResultNames DEF Lookup, LocalOK, Places
  <2>2. UNCHANGED history \/ (verified' = FALSE /\ sent' = "nothing" /\ attempts' = 0)
    BY <1>7 DEF Lookup
  <2>3. HistoryOK'
    <3>1. CASE UNCHANGED history
      BY <3>1
    <3>2. CASE verified' = FALSE /\ sent' = "nothing" /\ attempts' = 0
      BY <3>2 DEF HistoryOK
    <3> QED BY <2>2, <3>1, <3>2
  <2> QED BY <1>7, <2>1, <2>3 DEF Lookup
<1>8. CASE Callback
  <2> PICK r \in CallbackResults, supply \in BOOLEAN :
           \/ StartCallback(r, supply) \/ GetJobHTTP(r, supply)
           \/ SuccessCallback(r, supply) \/ FailureCallback(r, supply)
    BY <1>8 DEF Callback
  <2> USE CallAppTypes
  <2>1. CASE StartCallback(r, supply)
    BY <2>1, ResultNames
       DEF StartCallback, LocalOK, Places, ErrorsOK, StorageOK, history
  <2>2. CASE GetJobHTTP(r, supply)
    <3>1. LocalOK'
      <4>1. Goto("downloading") \/ \E q \in Results : Returns(q)
        BY <2>2, ResultNames DEF GetJobHTTP
      <4>2. UNCHANGED <<entry, new_state>>
        BY <2>2 DEF GetJobHTTP, unjobbed
      <4> QED BY <4>1, <4>2, GotoTypes, ReturnTypes DEF Places, LocalOK
    <3>2. SharedOK' /\ SessionOK'
      BY <2>2 DEF GetJobHTTP, unjobbed, SharedOK, SessionOK
    <3> QED BY <2>2, <3>1, <3>2 DEF GetJobHTTP, unjobbed
  <2>3. CASE SuccessCallback(r, supply)
    BY <2>3, ResultNames, RowTypes
       DEF SuccessCallback, AtResult, row, LocalOK, Places, ErrorsOK, HistoryOK
  <2>4. CASE FailureCallback(r, supply)
    BY <2>4, ResultNames DEF FailureCallback, AtResult, LocalOK, Places, ErrorsOK, HistoryOK
  <2> QED BY <2>1, <2>2, <2>3, <2>4
<1>9. CASE StateFunction
  <2> USE ReturnTypes, GotoTypes
  <2>1. CASE WaitForStart
    <3>1. SharedOK' /\ LinkOK'
      BY <2>1 DEF WaitForStart, SharedOK, LinkOK
    <3>2. LocalOK' /\ ErrorsOK'
      BY <2>1, ErrorTypes, ResultNames DEF WaitForStart, ErrorsOK, Places
    <3>3. SessionOK'
      BY <2>1, ZeroCounts DEF WaitForStart, SessionOK
    <3> QED BY <2>1, <3>1, <3>2, <3>3 DEF WaitForStart
  <2>2. CASE NoFunction
    BY <2>2, ResultNames DEF NoFunction, LocalOK
  <2>3. CASE DetermineFlow
    BY <2>3, ResultNames DEF DetermineFlow, RestoreServer, LocalOK, SessionOK
  <2>4. CASE AlreadyConnected
    BY <2>4 DEF AlreadyConnected, unlinked, LocalOK, SessionOK
  <2>5. CASE ReuseConnection
    BY <2>5, ResultNames, ErrorTypes, ZeroCounts
       DEF ReuseConnection, unlinked, CleanStart, LocalOK, ErrorsOK, SessionOK
  <2>6. CASE ConnectSucceeds
    BY <2>6, ResultNames, ErrorTypes, ZeroCounts
       DEF ConnectSucceeds, unlinked, CleanStart, LocalOK, ErrorsOK, SessionOK, LinkOK
  <2>7. CASE ConnectFails
    BY <2>7, ResultNames, ErrorTypes, ZeroCounts
       DEF ConnectFails, unlinked, CleanStart, LocalOK, ErrorsOK, SessionOK, LinkOK
  <2>8. CASE DisconnectFunction
    BY <2>8, ResultNames DEF DisconnectFunction, unlinked, Disconnect, LocalOK, SessionOK, LinkOK
  <2>9. CASE GetJobMQTT
    <3>1. LocalOK'
      <4>1. Goto("downloading") \/ \E q \in Results : Returns(q)
        BY <2>9, ResultNames DEF GetJobMQTT
      <4>2. UNCHANGED <<entry, new_state>>
        BY <2>9 DEF GetJobMQTT, unjobbed
      <4> QED BY <4>1, <4>2, GotoTypes, ReturnTypes DEF Places, LocalOK
    <3>2. SharedOK' /\ SessionOK'
      BY <2>9 DEF GetJobMQTT, unjobbed, Cleared, SharedOK, SessionOK
    <3>3. LinkOK'
      BY <2>9 DEF GetJobMQTT, LinkOK
    <3> QED BY <2>9, <3>1, <3>2, <3>3 DEF GetJobMQTT, unjobbed
  <2>10. CASE JobParse
    BY <2>10, ResultNames DEF JobParse, unjobbed, ParseErrors, SharedOK, LocalOK, SessionOK
  <2>11. CASE JobRedirect
    BY <2>11, ResultNames DEF JobRedirect, LocalOK, SessionOK
  <2>12. CASE OpenFilesystem
    BY <2>12, ResultNames DEF OpenFilesystem, unstored, LocalOK, StorageOK
  <2>13. CASE CloseFunction
    BY <2>13, ResultNames
       DEF CloseFunction, unstored, CloseFilesystem, CloseResult, LocalOK, StorageOK
  <2>14. CASE \E r \in CallbackResults : DataDownload(r)
    <3> PICK r \in CallbackResults : DataDownload(r)
      BY <2>14
    <3>1. LocalOK'
      <4>1. Goto("downloading") \/ \E q \in Results : Returns(q)
        BY ResultNames DEF DataDownload, CallbackResults
      <4>2. UNCHANGED <<entry, new_state>>
        BY DEF DataDownload
      <4> QED BY <4>1, <4>2, GotoTypes, ReturnTypes DEF Places, LocalOK
    <3>2. SharedOK'
      BY DEF DataDownload, Cleared, SharedOK
    <3>3. LinkOK' /\ StorageOK'
      BY DEF DataDownload, LinkOK, StorageOK
    <3>4. HistoryOK'
      BY DEF DataDownload, HistoryOK
    <3> QED BY <3>1, <3>2, <3>3, <3>4 DEF DataDownload
  <2>15. CASE \E r \in CallbackResults : ResultSend(r)
    <3> PICK r \in CallbackResults : ResultSend(r)
      BY <2>15
    <3>1. LocalOK'
      <4>1. \E q \in Results : Returns(q)
        BY ResultNames DEF ResultSend, CallbackResults
      <4> QED BY <4>1, ReturnTypes DEF ResultSend, LocalOK
    <3>2. HistoryOK'
      BY DEF ResultSend, HistoryOK
    <3> QED BY <3>1, <3>2 DEF ResultSend
  <2>16. CASE VerifyData
    BY <2>16, ResultNames, SwitchAssumption DEF VerifyData, LocalOK, SessionOK
  <2>17. CASE ResultRedirect
    BY <2>17, ResultNames DEF ResultRedirect, RestoreServer, LocalOK, SessionOK
  <2>18. CASE Complete
    <3>1. LocalOK' /\ SharedOK'
      BY <2>18, ResultNames DEF Complete, SharedOK, LocalOK, Goto, Places
    <3>2. LinkOK' /\ StorageOK'
      BY <2>18 DEF Complete, Disconnect, CloseFilesystem, LinkOK, StorageOK
    <3> QED BY <2>18, <3>1, <3>2 DEF Complete
  <2> QED BY <1>9, <2>1, <2>2, <2>3, <2>4, <2>5, <2>6, <2>7, <2>8, <2>9, <2>10, <2>11,
             <2>12, <2>13, <2>14, <2>15, <2>16, <2>17, <2>18 DEF StateFunction
<1>10. CASE WakeUp
  BY <1>10, ReturnTypes, ResultNames DEF WakeUp, SharedOK, LocalOK
<1>11. CASE DownloadEnds
  <2> USE ReturnTypes, ResultNames
  <2>1. CASE JobArrives
    BY <2>1 DEF JobArrives, unjobbed, SharedOK, LocalOK, SessionOK
  <2>2. CASE JobShutDown
    BY <2>2 DEF JobShutDown, unjobbed, SharedOK, LocalOK, SessionOK
  <2>3. CASE DataComplete
    BY <2>3 DEF DataComplete, undownloaded, LocalOK, StorageOK
  <2>4. CASE DataFails
    BY <2>4 DEF DataFails, undownloaded, LocalOK, StorageOK
  <2>5. CASE DataStopped
    BY <2>5 DEF DataStopped, undownloaded, LocalOK, StorageOK
  <2>6. CASE DataShutDown
    BY <2>6 DEF DataShutDown, undownloaded, LocalOK, StorageOK
  <2> QED BY <1>11, <2>1, <2>2, <2>3, <2>4, <2>5, <2>6 DEF DownloadEnds
<1>12. CASE Judge
  BY <1>12, ResultNames, RowTypes, ErrorTypes
     DEF Judge, Goto, row, LocalOK, Places, ErrorsOK, HistoryOK
<1>13. CASE DecideStop \/ DecideOther
  BY <1>13, RowTypes DEF DecideStop, DecideOther, Proceed, Goto, Places, AgentStates, SameCounts, row, SharedOK, LocalOK, ErrorsOK, SessionOK
<1>14. CASE DecideDownload
  BY <1>14, StateNames, ResultNames, ErrorTypes, RetryAssumption
     DEF DecideDownload, MayRetryDownload, Proceed, Goto, Places, AgentStates, SharedOK, LocalOK, ErrorsOK, SessionOK
<1>15. CASE DecideConnect
  BY <1>15, StateNames, ResultNames, ErrorTypes, RetryAssumption
     DEF DecideConnect, Proceed, Goto, Places, AgentStates, SharedOK, LocalOK, ErrorsOK, SessionOK
<1>16. CASE Exit
  BY <1>16 DEF Exit, Goto, SharedOK, Events, LocalOK, Places
<1> QED
  BY <1>1, <1>2, <1>3, <1>4, <1>5, <1>6, <1>7, <1>8, <1>9, <1>10, <1>11, <1>12, <1>13,
     <1>14, <1>15, <1>16 DEF Next, AgentNext

\* The initial state is well typed.
LEMMA TypeInit == Init => TypeOK
<1> SUFFICES ASSUME Init PROVE TypeOK
  OBVIOUS
<1> USE ResultNames, StateNames, ZeroCounts DEF Init
<1>1. SharedOK /\ AppOK BY DEF SharedOK, AgentStates, EarlyStates, AppOK
<1>2. LocalOK /\ ErrorsOK BY DEF LocalOK, ErrorsOK, Places
<1>3. SessionOK BY DEF SessionOK
<1>4. LinkOK /\ StorageOK /\ HistoryOK BY DEF LinkOK, StorageOK, HistoryOK
<1> QED BY <1>1, <1>2, <1>3, <1>4 DEF TypeOK

\* Every variable keeps to its type, in every behaviour.
THEOREM TypeCorrect == Spec => []TypeOK
  BY TypeInit, TypeStep, PTL DEF Spec

-----------------------------------------------------------------------------
(* A reset only for a verified image.  All of this is about an application *)
(* that does not stop the agent: nobody else then writes curr_state, and   *)
(* it is the state whose row the agent executes.                           *)

InStep == pc \in {"start_cb", "function", "waiting", "downloading", "result", "judge",
                  "failed", "decide"}

\* The state the agent is in, from the loop's test to the next state.
state == IF pc \in {"loop", "lookup"} THEN curr_state ELSE entry
Walking == InStep \/ pc \in {"loop", "lookup"}

\* Only the agent's thread writes curr_state while it walks the table.
Undisturbed ==
  /\ app \in {"stopped", "starting", "running", "updating"}
  /\ app = "stopped" => pc = "off"
  /\ InStep => curr_state = entry
  /\ pc = "waiting" => entry = "AGENT_WAITING"

\* Two rows use a failure_result that counts as a success in cy_ota_complete();
\* it must never become the last error.
NoFalseSuccess ==
  /\ last_error # "DIRECT_FLOW"
  /\ pc \in {"result", "judge"} /\ entry \in {"START_UPDATE", "RESULT_REDIRECT"}
       => result \in {"SUCCESS", "DIRECT_FLOW", "CHANGING_SERVER", "APP_RETURNED_STOP"}

\* Without an error, the agent goes where success leads.
SuccessGoesOn ==
  /\ pc = "judge" => new_state = row.success
  /\ pc = "failed" => new_state = row.failure
                      /\ (last_error = "SUCCESS" => entry = "OTA_COMPLETE")
  /\ pc = "decide" =>
       /\ new_state \in {row.success, row.failure}
       /\ last_error = "SUCCESS" /\ entry \notin {"START_UPDATE", "RESULT_REDIRECT", "OTA_COMPLETE"}
            => new_state = row.success
       /\ last_error = "SUCCESS" /\ entry = "VERIFY" => verified

\* Behind the verification no way without an error avoids it.
VerifiedBehind ==
  /\ Walking /\ state \in {"RESULT_CONNECT", "RESULT_SEND", "RESULT_DISCONNECT"} => verified
  /\ Walking /\ state \in {"RESULT_REDIRECT", "OTA_COMPLETE"}
       /\ last_error = "SUCCESS" /\ ~stop_OTA_session => verified

\* The inductive invariant: in every state of an agent that is not stopped, the
\* way from the verification to a report or a reset is walked by sessions alone
\* that verified their image, or that carry an error with them.
VerifiedInv ==
  /\ TypeOK /\ Undisturbed /\ NoFalseSuccess /\ SuccessGoesOn /\ VerifiedBehind
  /\ RebootsOnlyVerified /\ ReportsOnlyVerified

\* What the rows of the table say about the end of a session.
LEMMA TableFlow ==
  ASSUME NEW s \in TableStates
  PROVE
  LET r == cy_ota_state_table[s] IN
  /\ r.success \in {"RESULT_CONNECT", "RESULT_SEND", "RESULT_DISCONNECT"}
       => s \in {"RESULT_REDIRECT", "RESULT_CONNECT", "RESULT_SEND"}
  /\ r.success \in {"RESULT_REDIRECT", "OTA_COMPLETE"} => s \in {"VERIFY", "RESULT_DISCONNECT"}
  /\ r.failure \in {"RESULT_CONNECT", "RESULT_SEND", "RESULT_DISCONNECT"} => s = "RESULT_SEND"
  /\ r.app_stop \in {"RESULT_CONNECT", "RESULT_SEND", "RESULT_DISCONNECT"} => s = "RESULT_SEND"
  /\ r.failure_result = "SUCCESS" => s = "OTA_COMPLETE"
  /\ r.failure_result = "DIRECT_FLOW" <=> s \in {"START_UPDATE", "RESULT_REDIRECT"}
  /\ s = "START_UPDATE" => r.success = "JOB_CONNECT" /\ r.failure = "STORAGE_OPEN"
  /\ s = "RESULT_REDIRECT" => r.success = "RESULT_CONNECT" /\ r.failure = "OTA_COMPLETE"
  /\ s = "OTA_COMPLETE" => r.success = "AGENT_WAITING" /\ r.failure = "AGENT_WAITING"
  /\ s = "DATA_DOWNLOAD" => r.success = "DATA_DISCONNECT" /\ r.failure = "DATA_DISCONNECT"
  BY TableDomain DEF cy_ota_state_table, Row

\* What every state function does, seen from the end of the session: the state
\* stays, an error is forgiven only in the wait and in the connects, and only the
\* completion of a session without an error resets the device.
FunctionStep ==
  /\ pc \in {"function", "waiting", "downloading"}
  /\ pc' \in {"waiting", "downloading", "result", "exit", "reset"}
  /\ UNCHANGED <<curr_state, entry, new_state, app, verified>>
  /\ pc' = "result" /\ entry \in {"START_UPDATE", "RESULT_REDIRECT"}
       => result' \in {"SUCCESS", "DIRECT_FLOW", "CHANGING_SERVER", "APP_RETURNED_STOP"}
  /\ \/ UNCHANGED <<last_error, stop_OTA_session>>
     \/ /\ entry \in {"AGENT_WAITING"} \cup ConnectStates
        /\ last_error' \in {"SUCCESS", last_error}
  /\ pc' = "waiting" => entry = "AGENT_WAITING"
  /\ pc' = "reset" => entry = "OTA_COMPLETE" /\ MayReboot
  /\ sent' = sent \/ entry = "RESULT_SEND"

\* What every state function does to the loop, the flags and the history.
LEMMA FunctionSteps ==
  ASSUME TypeOK, Undisturbed,
         \/ StateFunction \/ WakeUp \/ DownloadEnds
         \/ \E r \in CallbackResults, supply \in BOOLEAN : GetJobHTTP(r, supply)
  PROVE  FunctionStep
<1> USE DEF FunctionStep, Goto, Returns, errors, history, shared, ConnectStates
<1>1. CASE WaitForStart
  BY <1>1 DEF WaitForStart, Running, LastError
<1>2. CASE NoFunction
  BY <1>2 DEF NoFunction, Running
<1>3. CASE DetermineFlow
  BY <1>3 DEF DetermineFlow, Running
<1>4. CASE AlreadyConnected
  BY <1>4 DEF AlreadyConnected, Connecting, unlinked
<1>5. CASE ReuseConnection
  BY <1>5 DEF ReuseConnection, Connecting, CleanStart, LastError, unlinked
<1>6. CASE ConnectSucceeds
  BY <1>6 DEF ConnectSucceeds, Connecting, CleanStart, LastError, unlinked
<1>7. CASE ConnectFails
  BY <1>7 DEF ConnectFails, Connecting, CleanStart, LastError, unlinked
<1>8. CASE DisconnectFunction
  BY <1>8 DEF DisconnectFunction, DisconnectStates, unlinked
<1>9. CASE GetJobMQTT
  BY <1>9 DEF GetJobMQTT, Running, unjobbed
<1>10. CASE JobParse
  BY <1>10 DEF JobParse, Running, unjobbed
<1>11. CASE JobRedirect
  BY <1>11 DEF JobRedirect, Running
<1>12. CASE OpenFilesystem
  BY <1>12 DEF OpenFilesystem, Running, unstored
<1>13. CASE CloseFunction
  BY <1>13 DEF CloseFunction, Running, unstored
<1>14. CASE \E r \in CallbackResults : DataDownload(r)
  BY <1>14 DEF DataDownload, Running, CallbackResults
<1>15. CASE \E r \in CallbackResults : ResultSend(r)
  BY <1>15 DEF ResultSend, Running, CallbackResults
<1>16. CASE VerifyData
  BY <1>16 DEF VerifyData, Running
<1>17. CASE ResultRedirect
  BY <1>17 DEF ResultRedirect, Running
<1>18. CASE Complete
  BY <1>18 DEF Complete, Running
<1>19. CASE WakeUp
  BY <1>19 DEF WakeUp, Undisturbed
<1>20. CASE JobArrives \/ JobShutDown
  BY <1>20 DEF JobArrives, JobShutDown, unjobbed
<1>21. CASE DataComplete \/ DataFails \/ DataStopped \/ DataShutDown
  BY <1>21 DEF DataComplete, DataFails, DataStopped, DataShutDown, DownloadingData, undownloaded
<1>22. CASE \E r \in CallbackResults, supply \in BOOLEAN : GetJobHTTP(r, supply)
  BY <1>22 DEF GetJobHTTP, Running, unjobbed
<1> QED
  BY <1>1, <1>2, <1>3, <1>4, <1>5, <1>6, <1>7, <1>8, <1>9, <1>10, <1>11, <1>12, <1>13,
     <1>14, <1>15, <1>16, <1>17, <1>18, <1>19, <1>20, <1>21, <1>22
     DEF StateFunction, DownloadEnds

\* A state function keeps the invariant.
LEMMA FunctionKeeps ==
  ASSUME VerifiedInv, FunctionStep
  PROVE  /\ Undisturbed' /\ NoFalseSuccess' /\ SuccessGoesOn' /\ VerifiedBehind'
         /\ RebootsOnlyVerified' /\ ReportsOnlyVerified'
<1> USE DEF VerifiedInv, FunctionStep
<1>1. Undisturbed'
  BY DEF Undisturbed, InStep
<1>2. NoFalseSuccess'
  BY DEF NoFalseSuccess
<1>3. SuccessGoesOn'
  BY DEF SuccessGoesOn
<1>4. VerifiedBehind'
  BY DEF VerifiedBehind, Walking, InStep, state, ConnectStates
<1>5. RebootsOnlyVerified'
  BY DEF RebootsOnlyVerified, MayReboot, VerifiedBehind, Walking, InStep, state, NoFalseSuccess
<1>6. ReportsOnlyVerified'
  BY DEF ReportsOnlyVerified, VerifiedBehind, Walking, InStep, state
<1> QED BY <1>1, <1>2, <1>3, <1>4, <1>5, <1>6

\* So do the application's thread and the timer, ...
LEMMA AppKeeps ==
  ASSUME ~AppStops, VerifiedInv, AppNext \/ TimerExpires
  PROVE  /\ Undisturbed' /\ NoFalseSuccess' /\ SuccessGoesOn' /\ VerifiedBehind'
         /\ RebootsOnlyVerified' /\ ReportsOnlyVerified'
<1> USE DEF VerifiedInv
<1>1. /\ app' \in {"starting", "running", "updating"} \/ app' = app
      /\ UNCHANGED <<entry, result, new_state, last_error, stop_OTA_session, verified, sent>>
      /\ \/ UNCHANGED <<curr_state, pc>>
         \/ pc = "off" /\ pc' = "begin" /\ app' # "stopped"
  <2>1. CASE AgentStart
    BY <2>1 DEF AgentStart, Undisturbed, errors, history
  <2>2. CASE AgentStarted \/ GetUpdateNow \/ SetStartUpdate
    BY <2>2 DEF AgentStarted, GetUpdateNow, SetStartUpdate, unseen, shared, local, errors, history
  <2>3. CASE TimerExpires
    BY <2>3 DEF TimerExpires, unseen, local, errors, history
  <2>4. ~(AgentStartTimeout \/ AgentStop \/ SignalStop \/ AwaitExit \/ AgentStopped)
    BY DEF AgentStartTimeout, AgentStop, SignalStop, AwaitExit, AgentStopped, Undisturbed
  <2> QED BY <2>1, <2>2, <2>3, <2>4 DEF AppNext
<1>2. Undisturbed'
  BY <1>1 DEF Undisturbed, InStep
<1>3. NoFalseSuccess' /\ SuccessGoesOn' /\ VerifiedBehind'
  BY <1>1 DEF NoFalseSuccess, SuccessGoesOn, VerifiedBehind, Walking, InStep, state, row
<1>4. RebootsOnlyVerified' /\ ReportsOnlyVerified'
  BY <1>1 DEF RebootsOnlyVerified, ReportsOnlyVerified
<1> QED BY <1>2, <1>3, <1>4

\* ... the steps up to the state function and the end of the thread, ...
LEMMA LoopKeeps ==
  ASSUME VerifiedInv, Alive \/ Initialize \/ Loop \/ Lookup \/ Exit \/ Reboot
  PROVE  /\ Undisturbed' /\ NoFalseSuccess' /\ SuccessGoesOn' /\ VerifiedBehind'
         /\ RebootsOnlyVerified' /\ ReportsOnlyVerified'
<1> USE DEF VerifiedInv, Undisturbed, NoFalseSuccess, SuccessGoesOn, VerifiedBehind, Walking,
            InStep, state, RebootsOnlyVerified, ReportsOnlyVerified, Goto, errors, history
<1>1. CASE Alive      BY <1>1 DEF Alive
<1>2. CASE Initialize BY <1>2 DEF Initialize
<1>3. CASE Loop       BY <1>3 DEF Loop, shared
<1>4. CASE Lookup     BY <1>4 DEF Lookup, shared
<1>5. CASE Exit       BY <1>5 DEF Exit
<1>6. CASE Reboot     BY <1>6 DEF Reboot, FreeContext
<1> QED BY <1>1, <1>2, <1>3, <1>4, <1>5, <1>6

\* ... the callbacks of the application, ...
LEMMA CallbackKeeps ==
  ASSUME VerifiedInv, NEW r, NEW supply,
         StartCallback(r, supply) \/ SuccessCallback(r, supply) \/ FailureCallback(r, supply)
  PROVE  /\ Undisturbed' /\ NoFalseSuccess' /\ SuccessGoesOn' /\ VerifiedBehind'
         /\ RebootsOnlyVerified' /\ ReportsOnlyVerified'
<1> entry \in TableStates
  BY DEF VerifiedInv, TypeOK, LocalOK
<1> USE DEF VerifiedInv, Undisturbed, NoFalseSuccess, SuccessGoesOn, VerifiedBehind, Walking,
            InStep, state, RebootsOnlyVerified, ReportsOnlyVerified, shared, history
<1>1. CASE StartCallback(r, supply)
  BY <1>1 DEF StartCallback
<1>2. CASE SuccessCallback(r, supply)
  BY <1>2, TableFlow DEF SuccessCallback, AtResult, row
<1>3. CASE FailureCallback(r, supply)
  BY <1>3 DEF FailureCallback, AtResult, row
<1> QED BY <1>1, <1>2, <1>3

\* ... and the judgement on the result.
LEMMA JudgeKeeps ==
  ASSUME VerifiedInv, Judge
  PROVE  /\ Undisturbed' /\ NoFalseSuccess' /\ SuccessGoesOn' /\ VerifiedBehind'
         /\ RebootsOnlyVerified' /\ ReportsOnlyVerified'
<1>1. entry \in TableStates /\ curr_state = entry
  BY DEF VerifiedInv, TypeOK, LocalOK, Undisturbed, InStep, Judge
<1> USE <1>1 DEF VerifiedInv, Judge, Goto, shared
<1>2. Undisturbed'
  BY DEF Undisturbed, InStep
<1>3. NoFalseSuccess'
  BY TableFlow DEF NoFalseSuccess, LastError, row
<1>4. SuccessGoesOn'
  BY TableFlow DEF SuccessGoesOn, LastError, row, Undisturbed
<1>5. VerifiedBehind'
  BY TableFlow DEF VerifiedBehind, Walking, InStep, state, LastError, EarlyStates, ConnectStates, row
<1>6. RebootsOnlyVerified' /\ ReportsOnlyVerified'
  BY DEF RebootsOnlyVerified, ReportsOnlyVerified
<1> QED BY <1>2, <1>3, <1>4, <1>5, <1>6

\* The choice of the next state keeps it too: here the table is what matters.
LEMMA DecideKeeps ==
  ASSUME VerifiedInv, DecideStop \/ DecideDownload \/ DecideConnect \/ DecideOther
  PROVE  /\ Undisturbed' /\ NoFalseSuccess' /\ SuccessGoesOn' /\ VerifiedBehind'
         /\ RebootsOnlyVerified' /\ ReportsOnlyVerified'
<1>1. /\ pc = "decide" /\ entry \in TableStates /\ curr_state = entry
      /\ new_state \in {row.success, row.failure}
  BY DEF VerifiedInv, TypeOK, LocalOK, Undisturbed, InStep, SuccessGoesOn, DecideStop,
         DecideDownload, DecideConnect, DecideOther
<1>2. /\ pc' = "loop"
      /\ UNCHANGED <<entry, result, new_state, stop_OTA_session, app, verified, sent>>
      /\ last_error' # "DIRECT_FLOW"
  BY DEF VerifiedInv, NoFalseSuccess, DecideStop, DecideDownload, DecideConnect, DecideOther,
         Proceed, Goto, history, LastError
<1>3. /\ Undisturbed' /\ NoFalseSuccess' /\ SuccessGoesOn'
      /\ RebootsOnlyVerified' /\ ReportsOnlyVerified'
  BY <1>1, <1>2 DEF VerifiedInv, Undisturbed, InStep, NoFalseSuccess, SuccessGoesOn,
              RebootsOnlyVerified, ReportsOnlyVerified
<1>4. VerifiedBehind'
  <2> USE <1>1, TableFlow DEF VerifiedInv, VerifiedBehind, Walking, InStep, state, Proceed, row
  <2>1. CASE DecideStop
    BY <1>2, <2>1 DEF DecideStop
  <2>2. CASE DecideDownload
    BY <1>2, <2>2 DEF DecideDownload, DownloadFailed, LastError
  <2>3. CASE DecideConnect
    BY <1>2, <2>3 DEF DecideConnect, ConnectFailed, ConnectStates, SuccessGoesOn
  <2>4. CASE DecideOther
    BY <1>2, <2>4 DEF DecideOther, SuccessGoesOn
  <2> QED BY <2>1, <2>2, <2>3, <2>4
<1> QED BY <1>3, <1>4

\* Every step keeps the inductive invariant, ...
LEMMA VerifiedStep ==
  ASSUME ~AppStops PROVE VerifiedInv /\ [Next]_vars => VerifiedInv'
<1> SUFFICES ASSUME VerifiedInv, [Next]_vars PROVE VerifiedInv'
  OBVIOUS
<1>1. TypeOK'
  BY TypeStep DEF VerifiedInv
<1>2. CASE UNCHANGED vars
  BY <1>1, <1>2
     DEF VerifiedInv, Undisturbed, NoFalseSuccess, SuccessGoesOn, VerifiedBehind, Walking,
         InStep, state, row, RebootsOnlyVerified, ReportsOnlyVerified, vars, shared, local,
         errors, history
<1>3. CASE AppNext \/ TimerExpires
  BY <1>1, <1>3, AppKeeps DEF VerifiedInv
<1>4. CASE Alive \/ Initialize \/ Loop \/ Lookup \/ Exit \/ Reboot
  BY <1>1, <1>4, LoopKeeps DEF VerifiedInv
<1>5. CASE StateFunction \/ WakeUp \/ DownloadEnds
  BY <1>1, <1>5, FunctionSteps, FunctionKeeps DEF VerifiedInv
<1>6. CASE Callback
  <2> PICK r \in CallbackResults, supply \in BOOLEAN :
           \/ StartCallback(r, supply) \/ GetJobHTTP(r, supply)
           \/ SuccessCallback(r, supply) \/ FailureCallback(r, supply)
    BY <1>6 DEF Callback
  <2>1. CASE GetJobHTTP(r, supply)
    BY <1>1, <2>1, FunctionSteps, FunctionKeeps DEF VerifiedInv
  <2>2. CASE StartCallback(r, supply) \/ SuccessCallback(r, supply) \/ FailureCallback(r, supply)
    BY <1>1, <2>2, CallbackKeeps DEF VerifiedInv
  <2> QED BY <2>1, <2>2
<1>7. CASE Judge
  BY <1>1, <1>7, JudgeKeeps DEF VerifiedInv
<1>8. CASE DecideStop \/ DecideDownload \/ DecideConnect \/ DecideOther
  BY <1>1, <1>8, DecideKeeps DEF VerifiedInv
<1> QED
  BY <1>2, <1>3, <1>4, <1>5, <1>6, <1>7, <1>8 DEF Next, AgentNext

\* ... which therefore always holds: while nobody stops the agent, no callback, no
\* failure of a transport and no retry brings the loop of cy_ota_agent() into a
\* state of the report, or to the end of a session without an error, unless
\* cy_ota_storage_verify() has accepted the image in this session.
THEOREM VerifiedAlways == ASSUME ~AppStops PROVE Spec => []VerifiedInv
<1>1. Init => VerifiedInv
  <2>1. Init => TypeOK
    BY TypeInit
  <2> QED
    BY <2>1 DEF Init, VerifiedInv, Undisturbed, NoFalseSuccess, SuccessGoesOn, VerifiedBehind,
                Walking, InStep, RebootsOnlyVerified, ReportsOnlyVerified
<1>2. VerifiedInv /\ [Next]_vars => VerifiedInv'
  BY VerifiedStep
<1> QED BY <1>1, <1>2, PTL DEF Spec

\* Whatever the network and the callbacks do: an agent that is not stopped
\* resets the device only in a session that verified its image, ...
THEOREM VerifiedReset == ASSUME ~AppStops PROVE Spec => []RebootsOnlyVerified
<1>1. Spec => []VerifiedInv
  BY VerifiedAlways
<1>2. VerifiedInv => RebootsOnlyVerified
  BY DEF VerifiedInv
<1> QED BY <1>1, <1>2, PTL

\* ... and reports a success only in such a session.
THEOREM VerifiedReport == ASSUME ~AppStops PROVE Spec => []ReportsOnlyVerified
<1>1. Spec => []VerifiedInv
  BY VerifiedAlways
<1>2. VerifiedInv => ReportsOnlyVerified
  BY DEF VerifiedInv
<1> QED BY <1>1, <1>2, PTL

-----------------------------------------------------------------------------
(* A bounded number of downloads, stopped or not                           *)

\* The states a session passes before its download, and returns to from a
\* failed one.
BeforeStates == {"START_UPDATE", "JOB_CONNECT", "JOB_DOWNLOAD", "JOB_DISCONNECT", "JOB_PARSE",
                 "JOB_REDIRECT", "STORAGE_OPEN", "DATA_CONNECT"}

\* The download of this round is still to come.
Ahead ==
  \/ Walking /\ state \in BeforeStates
  \/ pc \in {"loop", "lookup", "start_cb", "function"} /\ state = "DATA_DOWNLOAD"

\* Nobody but a stop disturbs the state whose row is executed.
OnlyStopped == InStep => curr_state \in {entry, "EXITING"}

\* The next state is one the row names.
NextByRow ==
  /\ pc = "judge" => new_state = row.success
  /\ pc = "failed" => new_state = row.failure
  /\ pc = "decide" => new_state \in {row.success, row.failure}

\* Every download begun but the last one was counted when it failed.
TriesCounted ==
  /\ attempts <= MaxDownloadTries
  /\ InStep /\ entry = "AGENT_WAITING" => attempts = 0
  /\ Ahead => attempts <= download_retry_count /\ attempts < MaxDownloadTries
  /\ InStep /\ entry = "DATA_DOWNLOAD" => attempts <= download_retry_count + 1

\* The inductive invariant.
TriesInv == TypeOK /\ OnlyStopped /\ NextByRow /\ TriesCounted

\* What the rows say about the way to the download.
LEMMA TableBefore ==
  ASSUME NEW s \in TableStates
  PROVE
  LET r == cy_ota_state_table[s] IN
  /\ {r.success, r.failure, r.app_stop} \cap (BeforeStates \cup {"DATA_DOWNLOAD"}) # {}
       => s \in BeforeStates \cup {"AGENT_WAITING"}
  /\ s = "DATA_DOWNLOAD" => r.send_start_cb = FALSE
  BY TableDomain DEF cy_ota_state_table, Row, BeforeStates

\* What a state function does to the counts of the downloads.
CountStep ==
  /\ pc \in {"function", "waiting", "downloading"}
  /\ pc' \in {"waiting", "downloading", "result", "exit", "reset"}
  /\ UNCHANGED <<curr_state, entry, new_state>>
  /\ \/ UNCHANGED <<attempts, download_retry_count>>
     \/ entry = "AGENT_WAITING" /\ download_retry_count' = 0 /\ UNCHANGED attempts
     \/ /\ pc = "function" /\ entry = "DATA_DOWNLOAD" /\ pc' \in {"downloading", "result"}
        /\ attempts' = (IF attempts > MaxDownloadTries THEN attempts ELSE attempts + 1)
        /\ UNCHANGED download_retry_count

\* Only the wait clears the count of the failed downloads, only the request for
\* the data begins one.
LEMMA CountSteps ==
  ASSUME \/ StateFunction \/ WakeUp \/ DownloadEnds
         \/ \E r \in CallbackResults, supply \in BOOLEAN : GetJobHTTP(r, supply)
  PROVE  CountStep
<1> USE DEF CountStep, Goto, Returns, session, history, shared
<1>1. CASE WaitForStart
  BY <1>1 DEF WaitForStart, Running
<1>2. CASE NoFunction
  BY <1>2 DEF NoFunction, Running
<1>3. CASE DetermineFlow
  BY <1>3 DEF DetermineFlow, Running
<1>4. CASE AlreadyConnected
  BY <1>4 DEF AlreadyConnected, Connecting, unlinked
<1>5. CASE ReuseConnection
  BY <1>5 DEF ReuseConnection, Connecting, unlinked
<1>6. CASE ConnectSucceeds
  BY <1>6 DEF ConnectSucceeds, Connecting, unlinked
<1>7. CASE ConnectFails
  BY <1>7 DEF ConnectFails, Connecting, unlinked
<1>8. CASE DisconnectFunction
  BY <1>8 DEF DisconnectFunction, unlinked
<1>9. CASE GetJobMQTT
  BY <1>9 DEF GetJobMQTT, Running, unjobbed
<1>10. CASE JobParse
  BY <1>10 DEF JobParse, Running, unjobbed
<1>11. CASE JobRedirect
  BY <1>11 DEF JobRedirect, Running
<1>12. CASE OpenFilesystem
  BY <1>12 DEF OpenFilesystem, Running, unstored
<1>13. CASE CloseFunction
  BY <1>13 DEF CloseFunction, Running, unstored
<1>14. CASE \E r \in CallbackResults : DataDownload(r)
  BY <1>14 DEF DataDownload, Running, CallbackResults
<1>15. CASE \E r \in CallbackResults : ResultSend(r)
  BY <1>15 DEF ResultSend, Running, CallbackResults
<1>16. CASE VerifyData
  BY <1>16 DEF VerifyData, Running
<1>17. CASE ResultRedirect
  BY <1>17 DEF ResultRedirect, Running
<1>18. CASE Complete
  BY <1>18 DEF Complete, Running
<1>19. CASE WakeUp
  BY <1>19 DEF WakeUp
<1>20. CASE JobArrives \/ JobShutDown
  BY <1>20 DEF JobArrives, JobShutDown, unjobbed
<1>21. CASE DataComplete \/ DataFails \/ DataStopped \/ DataShutDown
  BY <1>21 DEF DataComplete, DataFails, DataStopped, DataShutDown, DownloadingData, undownloaded
<1>22. CASE \E r \in CallbackResults, supply \in BOOLEAN : GetJobHTTP(r, supply)
  BY <1>22 DEF GetJobHTTP, Running, unjobbed
<1> QED
  BY <1>1, <1>2, <1>3, <1>4, <1>5, <1>6, <1>7, <1>8, <1>9, <1>10, <1>11, <1>12, <1>13,
     <1>14, <1>15, <1>16, <1>17, <1>18, <1>19, <1>20, <1>21, <1>22
     DEF StateFunction, DownloadEnds

\* A state function keeps the count.
LEMMA CountKeeps ==
  ASSUME TriesInv, CountStep PROVE OnlyStopped' /\ NextByRow' /\ TriesCounted'
<1> USE DEF TriesInv, CountStep
<1>0. attempts \in Nat /\ download_retry_count \in Nat /\ MaxDownloadTries \in Nat \ {0}
  BY RetryAssumption DEF TypeOK, SessionOK, HistoryOK
<1>1. OnlyStopped' /\ NextByRow'
  BY DEF OnlyStopped, NextByRow, InStep
<1>2. TriesCounted'
  BY <1>0 DEF TriesCounted, Ahead, Walking, InStep, state, BeforeStates
<1> QED BY <1>1, <1>2

\* So do the application's thread, which may stop the agent at any time, the
\* timer and the reset, ...
LEMMA AppCounts ==
  ASSUME TriesInv, AppNext \/ TimerExpires \/ Reboot
  PROVE  OnlyStopped' /\ NextByRow' /\ TriesCounted'
<1> USE DEF TriesInv
<1>1. CASE \/ AgentStarted \/ AgentStartTimeout \/ GetUpdateNow \/ SetStartUpdate
           \/ AgentStop \/ SignalStop \/ AwaitExit \/ TimerExpires
  <2>1. /\ UNCHANGED <<pc, entry, result, new_state, download_retry_count, attempts>>
        /\ curr_state' \in {curr_state, "EXITING"}
    BY <1>1 DEF AgentStarted, AgentStartTimeout, GetUpdateNow, SetStartUpdate, AgentStop,
                SignalStop, AwaitExit, TimerExpires, unseen, shared, local, session, history
  <2> QED
    BY <2>1 DEF OnlyStopped, NextByRow, TriesCounted, Ahead, Walking, InStep, state,
                BeforeStates, row
<1>2. CASE AgentStart
  <2>1. /\ UNCHANGED <<entry, new_state, download_retry_count, attempts>> /\ pc' = "begin"
    BY <1>2 DEF AgentStart, session, history
  <2> QED
    BY <2>1 DEF OnlyStopped, NextByRow, TriesCounted, Ahead, Walking, InStep
<1>3. CASE FreeContext
  BY <1>3, RetryAssumption
     DEF FreeContext, OnlyStopped, NextByRow, TriesCounted, Ahead, Walking, InStep
<1> QED BY <1>1, <1>2, <1>3 DEF AppNext, AgentStopped, Reboot

\* ... the steps up to the state function and the end of the thread, ...
LEMMA LoopCounts ==
  ASSUME TriesInv, Alive \/ Initialize \/ Loop \/ Lookup \/ Exit
  PROVE  OnlyStopped' /\ NextByRow' /\ TriesCounted'
<1> USE DEF TriesInv, OnlyStopped, NextByRow, TriesCounted, Ahead, Walking, InStep, state,
            BeforeStates, Goto, history, session, shared
<1>1. CASE Alive      BY <1>1 DEF Alive
<1>2. CASE Initialize BY <1>2 DEF Initialize
<1>3. CASE Loop       BY <1>3 DEF Loop
<1>4. CASE Lookup
  <2>0. /\ attempts \in Nat /\ download_retry_count \in Nat /\ MaxDownloadTries \in Nat \ {0}
    BY RetryAssumption DEF TypeOK, SessionOK, HistoryOK
  <2>1. /\ pc = "lookup" /\ pc' \in {"start_cb", "function"}
        /\ entry' = curr_state /\ curr_state' = curr_state
        /\ UNCHANGED download_retry_count
        /\ \/ curr_state = "AGENT_WAITING" /\ attempts' = 0
           \/ curr_state # "AGENT_WAITING" /\ attempts' = attempts
    BY <1>4 DEF Lookup
  <2>2. OnlyStopped' /\ NextByRow'
    BY <2>1
  <2>3. TriesCounted'
    BY <2>0, <2>1
  <2> QED BY <2>2, <2>3
<1>5. CASE Exit       BY <1>5 DEF Exit
<1> QED BY <1>1, <1>2, <1>3, <1>4, <1>5

\* ... the callbacks and the judgement on the result, ...
LEMMA JudgeCounts ==
  ASSUME TriesInv,
         \/ Judge
         \/ \E r \in CallbackResults, supply \in BOOLEAN :
              \/ StartCallback(r, supply) \/ SuccessCallback(r, supply)
              \/ FailureCallback(r, supply)
  PROVE  OnlyStopped' /\ NextByRow' /\ TriesCounted'
<1> USE DEF TriesInv
<1>1. /\ UNCHANGED <<curr_state, entry, download_retry_count, attempts>>
      /\ pc \in {"start_cb", "result", "judge", "failed"}
      /\ pc' \in {"function", "result", "judge", "failed", "decide"}
      /\ pc' = "function" => pc = "start_cb"
      /\ NextByRow'
  BY DEF Judge, StartCallback, SuccessCallback, FailureCallback, AtResult, Goto, shared,
         session, history, NextByRow, row
<1> QED BY <1>1 DEF OnlyStopped, TriesCounted, Ahead, Walking, InStep, state, BeforeStates

\* ... and the choice of the next state, which counts the failed download.
LEMMA DecideCounts ==
  ASSUME TriesInv, DecideStop \/ DecideDownload \/ DecideConnect \/ DecideOther
  PROVE  OnlyStopped' /\ NextByRow' /\ TriesCounted'
<1>0. /\ attempts \in Nat /\ download_retry_count \in Nat /\ MaxDownloadTries \in Nat \ {0}
      /\ entry \in TableStates
  BY RetryAssumption DEF TriesInv, TypeOK, SessionOK, HistoryOK, LocalOK
<1>1. /\ pc = "decide" /\ curr_state \in {entry, "EXITING"}
      /\ new_state \in {row.success, row.failure}
  BY DEF TriesInv, OnlyStopped, NextByRow, InStep, DecideStop, DecideDownload, DecideConnect,
         DecideOther
<1>2. pc' = "loop" /\ UNCHANGED <<entry, new_state, attempts>>
  BY DEF DecideStop, DecideDownload, DecideConnect, DecideOther, Proceed, Goto, history
<1>3. \/ /\ curr_state' \in {row.success, row.failure, row.app_stop, "AGENT_WAITING"}
         /\ UNCHANGED download_retry_count \/ entry = "DATA_DOWNLOAD"
      \/ /\ entry = "DATA_DOWNLOAD" /\ download_retry_count' = download_retry_count + 1
         /\ download_retry_count + 1 < MaxDownloadTries
  BY <1>1 DEF DecideStop, DecideDownload, DecideConnect, DecideOther, Proceed, SameCounts,
              MayRetryDownload, DownloadFailed
<1>4. OnlyStopped' /\ NextByRow'
  BY <1>2 DEF OnlyStopped, NextByRow, InStep
<1>5. TriesCounted'
  <2>1. attempts' <= MaxDownloadTries /\ ~InStep'
    BY <1>2 DEF TriesInv, TriesCounted, InStep
  <2>2. ASSUME Ahead' PROVE attempts' <= download_retry_count' /\ attempts' < MaxDownloadTries
    <3>1. curr_state' \in BeforeStates \cup {"DATA_DOWNLOAD"}
      BY <1>2, <2>2 DEF Ahead, state
    <3>2. CASE entry = "DATA_DOWNLOAD"
      <4>1. curr_state' \notin {row.success, row.failure, row.app_stop, "AGENT_WAITING"}
        BY <1>0, <3>1, <3>2, TableBefore DEF row, BeforeStates
      <4> QED BY <1>0, <1>1, <1>2, <1>3, <3>2, <4>1 DEF TriesInv, TriesCounted, InStep
    <3>3. CASE entry # "DATA_DOWNLOAD"
      <4>1. entry \in BeforeStates \cup {"AGENT_WAITING"}
        BY <1>0, <1>3, <3>1, <3>3, TableBefore DEF row, BeforeStates
      <4> QED
        BY <1>0, <1>1, <1>2, <1>3, <3>3, <4>1
           DEF TriesInv, TriesCounted, Ahead, Walking, InStep, state
    <3> QED BY <3>2, <3>3
  <2> QED BY <2>1, <2>2 DEF TriesCounted
<1> QED BY <1>4, <1>5

\* Every step keeps the inductive invariant.
LEMMA TriesStep == TriesInv /\ [Next]_vars => TriesInv'
<1> SUFFICES ASSUME TriesInv, [Next]_vars PROVE TriesInv'
  OBVIOUS
<1>1. TypeOK'
  BY TypeStep DEF TriesInv
<1>2. CASE UNCHANGED vars
  BY <1>1, <1>2
     DEF TriesInv, OnlyStopped, NextByRow, TriesCounted, Ahead, Walking, InStep, state, row,
         vars, shared, local, session, history
<1>3. CASE AppNext \/ TimerExpires \/ Reboot
  BY <1>1, <1>3, AppCounts DEF TriesInv
<1>4. CASE Alive \/ Initialize \/ Loop \/ Lookup \/ Exit
  BY <1>1, <1>4, LoopCounts DEF TriesInv
<1>5. CASE \/ StateFunction \/ WakeUp \/ DownloadEnds
           \/ \E r \in CallbackResults, supply \in BOOLEAN : GetJobHTTP(r, supply)
  BY <1>1, <1>5, CountSteps, CountKeeps DEF TriesInv
<1>6. CASE \/ Judge
           \/ \E r \in CallbackResults, supply \in BOOLEAN :
                \/ StartCallback(r, supply) \/ SuccessCallback(r, supply)
                \/ FailureCallback(r, supply)
  BY <1>1, <1>6, JudgeCounts DEF TriesInv
<1>7. CASE DecideStop \/ DecideDownload \/ DecideConnect \/ DecideOther
  BY <1>1, <1>7, DecideCounts DEF TriesInv
<1> QED
  BY <1>2, <1>3, <1>4, <1>5, <1>6, <1>7 DEF Next, AgentNext, Callback

\* The count holds in every behaviour, ...
LEMMA TriesAlways == Spec => []TriesInv
<1>1. Init => TriesInv
  BY TypeInit, RetryAssumption
     DEF Init, TriesInv, OnlyStopped, NextByRow, TriesCounted, Ahead, Walking, InStep
<1> QED BY <1>1, TriesStep, PTL DEF Spec

\* ... and so, however its downloads fail, whatever the callbacks return and
\* whenever the agent is stopped, a session begins at most MaxDownloadTries of
\* them (CY_OTA_MAX_DOWNLOAD_TRIES, compared in cy_ota_agent()).
THEOREM DownloadsBounded == Spec => []BoundedDownloads
<1>1. TriesInv => BoundedDownloads
  BY DEF TriesInv, TriesCounted, BoundedDownloads
<1> QED BY <1>1, TriesAlways, PTL

-----------------------------------------------------------------------------
(* The phases of a session                                                 *)

\* The phases that follow another one in OTASession.
PhaseSteps ==
  {<<"idle", "preparing">>, <<"preparing", "downloading">>, <<"downloading", "preparing">>,
   <<"downloading", "verifying">>, <<"verifying", "reporting">>, <<"preparing", "ending">>,
   <<"downloading", "ending">>, <<"reporting", "ending">>}

\* The agent may go from one state to another one: to rest, or by such a step.
TablePhase(s, t) ==
  \/ PhaseOf(t) \in {PhaseOf(s), "idle"}
  \/ <<PhaseOf(s), PhaseOf(t)>> \in PhaseSteps

\* A thread that has not begun its loop has no session.
Unbegun == pc \in {"off", "begin", "init"} =>
             entry = "AGENT_WAITING" /\ verified = FALSE /\ attempts = 0

\* From the loop's test to the lookup, the state follows the last one by a step
\* of OTASession.
Follows ==
  /\ pc = "lookup" => curr_state # "EXITING"
  /\ pc \in {"loop", "lookup"} => curr_state \in TableStates /\ TablePhase(entry, curr_state)

\* A connect that succeeded after all goes on where success leads.
ConnectGoesOn ==
  /\ pc = "failed" => result # "SUCCESS"
  /\ pc = "decide" /\ result = "SUCCESS" /\ entry \in ConnectStates => new_state = row.success

SessionInv == VerifiedInv /\ TriesInv /\ Unbegun /\ Follows /\ ConnectGoesOn

\* Every way a row offers to a session without an error, or with one, is a step
\* of OTASession.
LEMMA TablePhases ==
  ASSUME NEW s \in TableStates
  PROVE
  LET r == cy_ota_state_table[s] IN
  /\ TablePhase(s, r.success)
  /\ TablePhase(s, r.app_stop)
  /\ s \in {"START_UPDATE", "RESULT_REDIRECT", "OTA_COMPLETE", "DATA_DOWNLOAD"}
       => TablePhase(s, r.failure)
  /\ s = "DATA_DOWNLOAD" => TablePhase(s, "STORAGE_OPEN")
<1> DEFINE r == cy_ota_state_table[s]
           Preparing == {"START_UPDATE", "JOB_CONNECT", "JOB_DOWNLOAD", "JOB_DISCONNECT",
                         "JOB_PARSE", "JOB_REDIRECT", "STORAGE_OPEN", "DATA_CONNECT"}
           Downloading == {"DATA_DOWNLOAD", "DATA_DISCONNECT", "STORAGE_CLOSE"}
           Reporting == {"RESULT_REDIRECT", "RESULT_CONNECT", "RESULT_SEND", "RESULT_DISCONNECT"}
<1>1. /\ \A t \in {"AGENT_WAITING", "EXITING"} : PhaseOf(t) = "idle"
      /\ \A t \in Preparing : PhaseOf(t) = "preparing"
      /\ \A t \in Downloading : PhaseOf(t) = "downloading"
      /\ PhaseOf("VERIFY") = "verifying"
      /\ \A t \in Reporting : PhaseOf(t) = "reporting"
      /\ PhaseOf("OTA_COMPLETE") = "ending"
  BY DEF PhaseOf
<1>2. CASE s \in {"AGENT_WAITING", "EXITING"}
  <2>1. /\ r.success \in {"START_UPDATE", "AGENT_WAITING"}
        /\ r.app_stop \in {"EXITING", "AGENT_WAITING"}
    BY <1>2 DEF cy_ota_state_table, Row
  <2> QED BY <1>1, <1>2, <2>1 DEF TablePhase, PhaseSteps
<1>3. CASE s \in Preparing
  <2>1. /\ r.success \in Preparing \cup {"DATA_DOWNLOAD"}
        /\ r.app_stop \in Preparing \cup {"OTA_COMPLETE"}
        /\ s = "START_UPDATE" => r.failure = "STORAGE_OPEN"
    BY <1>3 DEF cy_ota_state_table, Row
  <2> QED BY <1>1, <1>3, <2>1 DEF TablePhase, PhaseSteps
<1>4. CASE s \in Downloading
  <2>1. /\ r.success \in Downloading \cup {"VERIFY"}
        /\ r.app_stop \in Downloading \cup {"OTA_COMPLETE"}
        /\ s = "DATA_DOWNLOAD" => r.failure = "DATA_DISCONNECT"
    BY <1>4 DEF cy_ota_state_table, Row
  <2> QED BY <1>1, <1>4, <2>1 DEF TablePhase, PhaseSteps
<1>5. CASE s = "VERIFY"
  <2>1. r.success = "RESULT_REDIRECT" /\ r.app_stop = "RESULT_REDIRECT"
    BY <1>5 DEF cy_ota_state_table, Row
  <2> QED BY <1>1, <1>5, <2>1 DEF TablePhase, PhaseSteps
<1>6. CASE s \in Reporting
  <2>1. /\ r.success \in Reporting \cup {"OTA_COMPLETE"}
        /\ r.app_stop \in Reporting \cup {"OTA_COMPLETE"}
        /\ s = "RESULT_REDIRECT" => r.failure = "OTA_COMPLETE"
    BY <1>6 DEF cy_ota_state_table, Row
  <2> QED BY <1>1, <1>6, <2>1 DEF TablePhase, PhaseSteps
<1>7. CASE s = "OTA_COMPLETE"
  <2>1. {r.success, r.app_stop, r.failure} = {"AGENT_WAITING"}
    BY <1>7 DEF cy_ota_state_table, Row
  <2> QED BY <1>1, <1>7, <2>1 DEF TablePhase
<1> QED BY <1>2, <1>3, <1>4, <1>5, <1>6, <1>7, TableDomain

\* The application's thread, the timer and the reset keep the session's invariant, ...
LEMMA AppSession ==
  ASSUME ~AppStops, SessionInv, AppNext \/ TimerExpires \/ Reboot
  PROVE  Unbegun' /\ Follows' /\ ConnectGoesOn'
<1> USE DEF SessionInv
<1>1. CASE AgentStarted \/ GetUpdateNow \/ SetStartUpdate \/ TimerExpires
  <2>1. UNCHANGED <<pc, entry, result, new_state, curr_state, verified, attempts>>
    BY <1>1 DEF AgentStarted, GetUpdateNow, SetStartUpdate, TimerExpires, unseen, shared,
                local, history
  <2> QED BY <2>1 DEF Unbegun, Follows, ConnectGoesOn, row, TablePhase
<1>2. CASE AgentStart
  <2>1. /\ pc = "off" /\ pc' = "begin" /\ UNCHANGED <<entry, verified, attempts>>
    BY <1>2 DEF AgentStart, VerifiedInv, Undisturbed, history
  <2> QED BY <2>1 DEF Unbegun, Follows, ConnectGoesOn
<1>3. CASE Reboot
  BY <1>3 DEF Reboot, FreeContext, Unbegun, Follows, ConnectGoesOn
<1>4. ~(AgentStartTimeout \/ AgentStop \/ SignalStop \/ AwaitExit \/ AgentStopped)
  BY DEF AgentStartTimeout, AgentStop, SignalStop, AwaitExit, AgentStopped, VerifiedInv,
         Undisturbed
<1> QED BY <1>1, <1>2, <1>3, <1>4 DEF AppNext

\* ... the steps up to the state function and the end of the thread, ...
LEMMA LoopSession ==
  ASSUME SessionInv, Alive \/ Initialize \/ Loop \/ Lookup \/ Exit
  PROVE  Unbegun' /\ Follows' /\ ConnectGoesOn'
<1> USE DEF SessionInv, Unbegun, Follows, ConnectGoesOn, Goto, history, shared
<1>1. CASE Alive      BY <1>1 DEF Alive
<1>2. CASE Initialize
  <2>1. pc' = "loop" /\ curr_state' = "AGENT_WAITING" BY <1>2 DEF Initialize
  <2>2. curr_state' \in TableStates /\ PhaseOf(curr_state') = "idle"
    BY <2>1, TableDomain DEF PhaseOf
  <2> QED BY <2>1, <2>2 DEF TablePhase
<1>3. CASE Loop       BY <1>3 DEF Loop, TablePhase
<1>4. CASE Lookup     BY <1>4 DEF Lookup
<1>5. CASE Exit       BY <1>5 DEF Exit
<1> QED BY <1>1, <1>2, <1>3, <1>4, <1>5

\* ... the state functions, ...
LEMMA FunctionSession ==
  ASSUME SessionInv, CountStep
  PROVE  Unbegun' /\ Follows' /\ ConnectGoesOn'
  BY DEF CountStep, Unbegun, Follows, ConnectGoesOn

\* ... the callbacks and the judgement on the result, ...
LEMMA JudgeSession ==
  ASSUME SessionInv,
         \/ Judge
         \/ \E r \in CallbackResults, supply \in BOOLEAN :
              \/ StartCallback(r, supply) \/ SuccessCallback(r, supply)
              \/ FailureCallback(r, supply)
  PROVE  Unbegun' /\ Follows' /\ ConnectGoesOn'
<1> USE DEF SessionInv
<1>1. /\ pc \in {"start_cb", "result", "judge", "failed"}
      /\ pc' \in {"function", "result", "judge", "failed", "decide"}
      /\ UNCHANGED entry
  BY DEF Judge, StartCallback, SuccessCallback, FailureCallback, AtResult, Goto
<1>2. Unbegun' /\ Follows'
  BY <1>1 DEF Unbegun, Follows
<1>3. ConnectGoesOn'
  <2>1. CASE Judge
    <3>1. pc = "judge" => new_state = row.success
      BY DEF TriesInv, NextByRow
    <3>2. curr_state = entry
      BY <2>1 DEF VerifiedInv, Undisturbed, InStep, Judge
    <3>3. CASE result = "SUCCESS"
      BY <2>1, <3>1, <3>3 DEF Judge, ConnectGoesOn, Goto, row
    <3>4. CASE result # "SUCCESS"
      BY <2>1, <3>2, <3>4 DEF Judge, ConnectGoesOn, ConnectStates
    <3> QED BY <3>3, <3>4
  <2>2. CASE \E r \in CallbackResults, supply \in BOOLEAN :
               \/ StartCallback(r, supply) \/ SuccessCallback(r, supply)
               \/ FailureCallback(r, supply)
    BY <2>2 DEF StartCallback, SuccessCallback, FailureCallback, ConnectGoesOn
  <2> QED BY <2>1, <2>2
<1> QED BY <1>2, <1>3

\* ... and the choice of the next state.
LEMMA DecideSession ==
  ASSUME SessionInv, DecideStop \/ DecideDownload \/ DecideConnect \/ DecideOther
  PROVE  Unbegun' /\ Follows' /\ ConnectGoesOn'
<1> USE DEF SessionInv
<1>1. /\ pc = "decide" /\ entry \in TableStates /\ curr_state = entry
      /\ new_state \in {row.success, row.failure}
  BY DEF VerifiedInv, TypeOK, LocalOK, Undisturbed, InStep, SuccessGoesOn, DecideStop,
         DecideDownload, DecideConnect, DecideOther
<1>2. pc' = "loop" /\ UNCHANGED entry
  BY DEF DecideStop, DecideDownload, DecideConnect, DecideOther, Proceed, Goto
<1>3. \/ curr_state' \in {row.success, row.app_stop, "AGENT_WAITING"}
      \/ /\ entry \in {"START_UPDATE", "RESULT_REDIRECT", "OTA_COMPLETE", "DATA_DOWNLOAD"}
         /\ curr_state' = row.failure
      \/ entry = "DATA_DOWNLOAD" /\ curr_state' = "STORAGE_OPEN"
  <2>1. CASE DecideStop
    BY <2>1 DEF DecideStop, Proceed
  <2>2. CASE DecideDownload
    BY <1>1, <2>2 DEF DecideDownload, DownloadFailed, Proceed
  <2>3. CASE DecideConnect
    BY <1>1, <2>3 DEF DecideConnect, ConnectFailed, ConnectGoesOn, Proceed
  <2>4. CASE DecideOther
    BY <1>1, <2>4 DEF DecideOther, VerifiedInv, SuccessGoesOn, Proceed
  <2> QED BY <2>1, <2>2, <2>3, <2>4
<1>4. curr_state' \in TableStates
  BY <1>1, <1>3, RowTypes, StateNames DEF row
<1>5. TablePhase(entry, "AGENT_WAITING")
  BY DEF TablePhase, PhaseOf
<1>6. TablePhase(entry, curr_state')
  BY <1>1, <1>3, <1>5, TablePhases DEF row
<1>7. Follows'
  BY <1>2, <1>4, <1>6 DEF Follows, TablePhase
<1> QED BY <1>2, <1>7 DEF Unbegun, ConnectGoesOn

\* Every step keeps the inductive invariant.
LEMMA SessionStep ==
  ASSUME ~AppStops PROVE SessionInv /\ [Next]_vars => SessionInv'
<1> SUFFICES ASSUME SessionInv, [Next]_vars PROVE SessionInv'
  OBVIOUS
<1>1. VerifiedInv' /\ TriesInv'
  BY VerifiedStep, TriesStep DEF SessionInv
<1>2. CASE UNCHANGED vars
  BY <1>1, <1>2
     DEF SessionInv, Unbegun, Follows, TablePhase, ConnectGoesOn, row, vars, shared, local, history
<1>3. CASE AppNext \/ TimerExpires \/ Reboot
  BY <1>1, <1>3, AppSession DEF SessionInv
<1>4. CASE Alive \/ Initialize \/ Loop \/ Lookup \/ Exit
  BY <1>1, <1>4, LoopSession DEF SessionInv
<1>5. CASE \/ StateFunction \/ WakeUp \/ DownloadEnds
           \/ \E r \in CallbackResults, supply \in BOOLEAN : GetJobHTTP(r, supply)
  BY <1>1, <1>5, CountSteps, FunctionSession DEF SessionInv
<1>6. CASE \/ Judge
           \/ \E r \in CallbackResults, supply \in BOOLEAN :
                \/ StartCallback(r, supply) \/ SuccessCallback(r, supply)
                \/ FailureCallback(r, supply)
  BY <1>1, <1>6, JudgeSession DEF SessionInv
<1>7. CASE DecideStop \/ DecideDownload \/ DecideConnect \/ DecideOther
  BY <1>1, <1>7, DecideSession DEF SessionInv
<1> QED
  BY <1>2, <1>3, <1>4, <1>5, <1>6, <1>7 DEF Next, AgentNext, Callback

\* A step that leaves the phase and the history alone is a stutter of OTASession.
LEMMA Stutters ==
  ASSUME UNCHANGED <<Phase, verified, attempts>>
  PROVE  [Session!Next]_(Session!vars)
  BY DEF Session!vars

\* Within the steps of one pass, the phase is that of the entry.
LEMMA PhaseInStep ==
  /\ InStep \/ pc \in {"loop", "lookup"} => Phase = PhaseOf(entry)
  /\ InStep' \/ pc' \in {"loop", "lookup"} => Phase' = PhaseOf(entry')
  BY DEF Phase, InStep

\* Every step of an agent that is not stopped is a step of OTASession, or none.
LEMMA SessionRefines ==
  ASSUME ~AppStops, SessionInv, [Next]_vars PROVE [Session!Next]_(Session!vars)
<1> USE DEF SessionInv
<1>1. CASE UNCHANGED vars
  BY <1>1, Stutters DEF Phase, PhaseOf, vars, local, history
<1>2. CASE AppNext \/ TimerExpires
  <2>1. CASE AgentStarted \/ GetUpdateNow \/ SetStartUpdate \/ TimerExpires
    <3>1. UNCHANGED <<pc, entry, verified, attempts>>
      BY <2>1 DEF AgentStarted, GetUpdateNow, SetStartUpdate, TimerExpires, unseen, local, history
    <3> QED BY <3>1, Stutters DEF Phase, PhaseOf
  <2>2. CASE AgentStart
    <3>1. /\ pc = "off" /\ pc' = "begin" /\ UNCHANGED <<verified, attempts>>
      BY <2>2 DEF AgentStart, VerifiedInv, Undisturbed, history
    <3> QED BY <3>1, Stutters DEF Phase
  <2>3. ~(AgentStartTimeout \/ AgentStop \/ SignalStop \/ AwaitExit \/ AgentStopped)
    BY DEF AgentStartTimeout, AgentStop, SignalStop, AwaitExit, AgentStopped, VerifiedInv,
           Undisturbed
  <2> QED BY <1>2, <2>1, <2>2, <2>3 DEF AppNext
<1>3. CASE Reboot
  <2>1. Phase' = "off" /\ verified' = FALSE /\ attempts' = 0
    BY <1>3 DEF Reboot, FreeContext, Phase
  <2> QED BY <2>1 DEF Session!Next, Session!Off, Session!Fresh
<1>4. CASE Alive \/ Exit
  <2>1. Phase = "off" /\ Phase' = "off" /\ UNCHANGED <<verified, attempts>>
    BY <1>4 DEF Alive, Exit, Goto, Phase, history
  <2> QED BY <2>1, Stutters
<1>5. CASE Initialize
  <2>1. Phase = "off" /\ Phase' = "idle" /\ verified' = FALSE /\ attempts' = 0
    BY <1>5 DEF Initialize, Unbegun, Goto, Phase, PhaseOf, history
  <2> QED BY <2>1 DEF Session!Next, Session!Rest, Session!Fresh
<1>6. CASE Loop
  <2>1. UNCHANGED <<entry, verified, attempts>> /\ pc = "loop" /\ pc' \in {"exit", "lookup"}
    BY <1>6 DEF Loop, Goto, history
  <2>2. CASE pc' = "exit"
    <3>1. Phase' = "off"
      BY <2>2 DEF Phase
    <3> QED BY <2>1, <3>1 DEF Session!Next, Session!Off
  <2>3. CASE pc' = "lookup"
    BY <2>1, <2>3, PhaseInStep, Stutters DEF PhaseOf
  <2> QED BY <2>1, <2>2, <2>3
<1>7. CASE Lookup
  <2>1. /\ pc = "lookup" /\ pc' \in {"start_cb", "function"} /\ entry' = curr_state
        /\ curr_state # "EXITING" /\ curr_state \in TableStates /\ TablePhase(entry, curr_state)
    BY <1>7 DEF Lookup, Follows
  <2>2. Phase = PhaseOf(entry) /\ Phase' = PhaseOf(curr_state)
    BY <2>1, PhaseInStep DEF InStep
  <2>3. CASE curr_state = "AGENT_WAITING"
    <3>1. Phase' = "idle" /\ verified' = FALSE /\ attempts' = 0
      BY <1>7, <2>2, <2>3 DEF Lookup, PhaseOf
    <3>2. Phase # "reset"
      BY <2>2 DEF PhaseOf
    <3> QED BY <3>1, <3>2 DEF Session!Next, Session!Rest, Session!Fresh
  <2>4. CASE curr_state # "AGENT_WAITING"
    <3>1. UNCHANGED <<verified, attempts>>
      BY <1>7, <2>4 DEF Lookup, history
    <3>2. Phase' # "idle"
      BY <2>1, <2>2, <2>4, TableDomain DEF PhaseOf
    <3>3. CASE Phase' = Phase
      BY <3>1, <3>3, Stutters
    <3>4. CASE <<Phase, Phase'>> \in PhaseSteps
      BY <3>1, <3>4
         DEF PhaseSteps, Session!Next, Session!Begin, Session!Download, Session!Retry,
             Session!Verify, Session!Report, Session!End
    <3> QED BY <2>1, <2>2, <3>2, <3>3, <3>4 DEF TablePhase
  <2> QED BY <2>3, <2>4
<1>8. CASE \/ StateFunction \/ WakeUp \/ DownloadEnds
           \/ \E r \in CallbackResults, supply \in BOOLEAN : GetJobHTTP(r, supply)
  <2>1. FunctionStep /\ CountStep
    BY <1>8, FunctionSteps, CountSteps DEF VerifiedInv
  <2>2. UNCHANGED <<entry, verified>> /\ InStep /\ Phase = PhaseOf(entry)
    BY <2>1, PhaseInStep DEF FunctionStep, InStep
  <2>3. CASE pc' = "exit"
    <3>1. UNCHANGED attempts /\ Phase' = "off"
      BY <2>1, <2>3 DEF CountStep, Phase
    <3> QED BY <2>2, <3>1 DEF Session!Next, Session!Off
  <2>4. CASE pc' = "reset"
    <3>1. entry = "OTA_COMPLETE" /\ UNCHANGED attempts
      BY <2>1, <2>4 DEF FunctionStep, CountStep
    <3>2. verified
      BY <2>1, <2>2, <2>4, FunctionKeeps DEF RebootsOnlyVerified
    <3>3. Phase = "ending" /\ Phase' = "reset"
      BY <2>2, <2>4, <3>1 DEF Phase, PhaseOf
    <3> QED BY <2>2, <3>1, <3>2, <3>3 DEF Session!Next, Session!Reset
  <2>5. CASE pc' \in {"waiting", "downloading", "result"}
    <3>1. Phase' = Phase
      BY <2>2, <2>5, PhaseInStep DEF InStep
    <3>2. CASE UNCHANGED attempts
      BY <2>2, <3>1, <3>2, Stutters
    <3>3. CASE attempts' # attempts
      <4>1. pc = "function" /\ entry = "DATA_DOWNLOAD"
        BY <2>1, <3>3 DEF CountStep
      <4>2. attempts < MaxDownloadTries
        BY <4>1 DEF TriesInv, TriesCounted, Ahead, state
      <4>3. attempts' = attempts + 1
        BY <2>1, <3>3 DEF CountStep
      <4>4. Phase = "downloading"
        BY <2>2, <4>1 DEF PhaseOf
      <4> QED BY <2>2, <3>1, <4>2, <4>3, <4>4 DEF Session!Next, Session!Download
    <3> QED BY <3>2, <3>3
  <2> QED BY <2>1, <2>3, <2>4, <2>5 DEF FunctionStep
<1>9. CASE \/ Judge
           \/ \E r \in CallbackResults, supply \in BOOLEAN :
                \/ StartCallback(r, supply) \/ SuccessCallback(r, supply)
                \/ FailureCallback(r, supply)
  <2>1. /\ InStep /\ InStep' /\ UNCHANGED <<entry, attempts>>
        /\ verified' = verified \/ (entry = "VERIFY" /\ verified' = TRUE)
    <3>1. VerifiedInv /\ verified \in BOOLEAN
      BY DEF VerifiedInv, TypeOK, HistoryOK
    <3>2. CASE Judge
      BY <3>1, <3>2 DEF Judge, Goto, InStep
    <3>3. CASE \E r \in CallbackResults, supply \in BOOLEAN :
                 \/ StartCallback(r, supply) \/ SuccessCallback(r, supply)
                 \/ FailureCallback(r, supply)
      BY <3>3 DEF StartCallback, SuccessCallback, FailureCallback, AtResult, InStep, history
    <3> QED BY <1>9, <3>2, <3>3
  <2>2. Phase = PhaseOf(entry) /\ Phase' = Phase
    BY <2>1, PhaseInStep
  <2>3. CASE UNCHANGED verified
    BY <2>1, <2>2, <2>3, Stutters
  <2>4. CASE entry = "VERIFY" /\ verified' = TRUE
    <3>1. Phase = "verifying"
      BY <2>2, <2>4 DEF PhaseOf
    <3> QED BY <2>1, <2>2, <2>4, <3>1 DEF Session!Next, Session!Verify
  <2> QED BY <2>1, <2>3, <2>4
<1>10. CASE DecideStop \/ DecideDownload \/ DecideConnect \/ DecideOther
  <2>1. pc = "decide" /\ pc' = "loop" /\ UNCHANGED <<entry, verified, attempts>>
    BY <1>10 DEF DecideStop, DecideDownload, DecideConnect, DecideOther, Proceed, Goto, history
  <2> QED BY <2>1, PhaseInStep, Stutters DEF InStep
<1> QED
  BY <1>1, <1>2, <1>3, <1>4, <1>5, <1>6, <1>7, <1>8, <1>9, <1>10 DEF Next, AgentNext, Callback

\* The invariant of the session holds in every behaviour, ...
LEMMA SessionAlways == ASSUME ~AppStops PROVE Spec => []SessionInv
<1>1. Init => Unbegun /\ Follows /\ ConnectGoesOn
  BY DEF Init, Unbegun, Follows, ConnectGoesOn
<1>2. SessionInv <=> VerifiedInv /\ TriesInv /\ Unbegun /\ Follows /\ ConnectGoesOn
  BY DEF SessionInv
<1>3. SessionInv /\ [Next]_vars => SessionInv'
  BY SessionStep
<1> QED BY <1>1, <1>2, <1>3, VerifiedAlways, TriesAlways, PTL DEF Spec

\* ... and an agent that is not stopped implements OTASession: whatever the
\* network, the storage and the callbacks do, it walks the phases of a session in
\* their order, begins no download too many, and resets the device only after a
\* verification in the same session.
THEOREM AgentImplements == ASSUME ~AppStops PROVE Spec => IsSession
<1>1. Init => Session!Init
  BY DEF Init, Session!Init, Phase
<1>2. SessionInv /\ [Next]_vars => [Session!Next]_(Session!vars)
  BY SessionRefines
<1> QED BY <1>1, <1>2, SessionAlways, PTL DEF Spec, IsSession, Session!Spec

-----------------------------------------------------------------------------
(* A reset only for a complete image                                       *)

\* The states from the verification on.
LateStates == {"VERIFY", "RESULT_REDIRECT", "RESULT_CONNECT", "RESULT_SEND",
               "RESULT_DISCONNECT", "OTA_COMPLETE"}

\* A download that succeeded has left the complete image in the slot; ...
DownloadDone ==
  /\ pc = "start_cb" => entry # "DATA_DOWNLOAD"
  /\ pc \in {"result", "judge"} /\ entry = "DATA_DOWNLOAD" /\ result = "SUCCESS"
       => image = "complete"
  /\ pc = "decide" /\ entry = "DATA_DOWNLOAD" /\ last_error = "SUCCESS" => image = "complete"

\* ... it is there on the way to the verification, ...
ImageBehind ==
  /\ Walking /\ state \in {"DATA_DISCONNECT", "STORAGE_CLOSE"}
       /\ last_error = "SUCCESS" /\ ~stop_OTA_session => image = "complete"
  /\ Walking /\ state = "VERIFY" => image = "complete"

\* ... and stays until the session of a verified image has ended.
VerifiedLate ==
  /\ verified => image = "complete"
  /\ verified /\ Walking => state \in LateStates \/ (state = "AGENT_WAITING" /\ ~InStep)

CompleteBehind == DownloadDone /\ ImageBehind /\ VerifiedLate

\* Nobody shuts down a download, which the MQTT transport would take for its end.
NoShutdown == "SHUTDOWN_NOW" \notin ota_event

\* The inductive invariant.
CompleteInv == SessionInv /\ NoShutdown /\ CompleteBehind /\ RebootsOnlyComplete

\* The callback for a block of data may return STOP, which the HTTP transport
\* remembers after its last block only: then the download of a partial image is a
\* success to the agent.  No theorem about complete images holds for that.
StopsAreKept == Transport = "MQTT" \/ "STOP" \notin AppResults

\* What a state function does to the slot.
ImageStep ==
  /\ pc \in {"function", "waiting", "downloading"}
  /\ pc' \in {"waiting", "downloading", "result", "exit", "reset"}
  /\ UNCHANGED image \/ entry \in {"STORAGE_OPEN", "DATA_DOWNLOAD"}
  /\ entry = "DATA_DOWNLOAD" /\ pc' = "result" /\ result' = "SUCCESS" => image' = "complete"
  /\ ota_event' \subseteq ota_event

\* Only the opening of the storage and the download touch the slot, and a
\* download that succeeds leaves the complete image in it.
LEMMA ImageSteps ==
  ASSUME StopsAreKept, NoShutdown, Undisturbed,
         \/ StateFunction \/ WakeUp \/ DownloadEnds
         \/ \E r \in CallbackResults, supply \in BOOLEAN : GetJobHTTP(r, supply)
  PROVE  ImageStep
<1> USE DEF ImageStep, Goto, Returns, storage, shared
<1>1. CASE WaitForStart
  BY <1>1 DEF WaitForStart, Running
<1>2. CASE NoFunction
  BY <1>2 DEF NoFunction, Running
<1>3. CASE DetermineFlow
  BY <1>3 DEF DetermineFlow, Running
<1>4. CASE AlreadyConnected
  BY <1>4 DEF AlreadyConnected, Connecting, ConnectStates, unlinked
<1>5. CASE ReuseConnection
  BY <1>5 DEF ReuseConnection, Connecting, ConnectStates, unlinked
<1>6. CASE ConnectSucceeds
  BY <1>6 DEF ConnectSucceeds, Connecting, ConnectStates, unlinked
<1>7. CASE ConnectFails
  BY <1>7 DEF ConnectFails, Connecting, ConnectStates, unlinked
<1>8. CASE DisconnectFunction
  BY <1>8 DEF DisconnectFunction, DisconnectStates, unlinked
<1>9. CASE GetJobMQTT
  BY <1>9 DEF GetJobMQTT, Running, Cleared, unjobbed
<1>10. CASE JobParse
  BY <1>10 DEF JobParse, Running, unjobbed
<1>11. CASE JobRedirect
  BY <1>11 DEF JobRedirect, Running
<1>12. CASE OpenFilesystem
  BY <1>12 DEF OpenFilesystem, Running, unstored
<1>13. CASE CloseFunction
  BY <1>13 DEF CloseFunction, CloseFilesystem, Running, unstored
<1>14. CASE \E r \in CallbackResults : DataDownload(r)
  BY <1>14 DEF DataDownload, Running, Cleared, CallbackResults
<1>15. CASE \E r \in CallbackResults : ResultSend(r)
  BY <1>15 DEF ResultSend, Running, CallbackResults
<1>16. CASE VerifyData
  BY <1>16 DEF VerifyData, Running
<1>17. CASE ResultRedirect
  BY <1>17 DEF ResultRedirect, Running
<1>18. CASE Complete
  BY <1>18 DEF Complete, CloseFilesystem, Running
<1>19. CASE WakeUp
  BY <1>19 DEF WakeUp, Undisturbed
<1>20. CASE JobArrives \/ JobShutDown
  BY <1>20 DEF JobArrives, JobShutDown, unjobbed
<1>21. CASE DataComplete \/ DataFails
  BY <1>21 DEF DataComplete, DataFails, DownloadingData, undownloaded
<1>22. CASE DataStopped
  BY <1>22 DEF DataStopped, StopsAreKept, DownloadingData, undownloaded
<1>23. CASE \E r \in CallbackResults, supply \in BOOLEAN : GetJobHTTP(r, supply)
  BY <1>23 DEF GetJobHTTP, Running, unjobbed
<1>24. ~DataShutDown
  BY DEF DataShutDown, NoShutdown
<1> QED
  BY <1>1, <1>2, <1>3, <1>4, <1>5, <1>6, <1>7, <1>8, <1>9, <1>10, <1>11, <1>12, <1>13,
     <1>14, <1>15, <1>16, <1>17, <1>18, <1>19, <1>20, <1>21, <1>22, <1>23, <1>24
     DEF StateFunction, DownloadEnds

\* What the rows say about the way from the download to the verification.
LEMMA TableComplete ==
  ASSUME NEW s \in TableStates
  PROVE
  LET r == cy_ota_state_table[s] IN
  /\ r.success \in {"DATA_DISCONNECT", "STORAGE_CLOSE"} => s \in {"DATA_DOWNLOAD", "DATA_DISCONNECT"}
  /\ r.failure \in {"DATA_DISCONNECT", "STORAGE_CLOSE"} => s \in {"DATA_DOWNLOAD", "DATA_DISCONNECT"}
  /\ r.app_stop \in {"DATA_DISCONNECT", "STORAGE_CLOSE"} => s = "DATA_DOWNLOAD"
  /\ r.success = "VERIFY" => s = "STORAGE_CLOSE"
  /\ r.failure # "VERIFY" /\ r.app_stop # "VERIFY"
  /\ s = "DATA_DOWNLOAD" => r.failure_result = "ERROR_GET_DATA"
  BY TableDomain DEF cy_ota_state_table, Row

\* From the verification on, every way leads on to the end.
LEMMA TableLate ==
  ASSUME NEW s \in LateStates
  PROVE
  LET r == cy_ota_state_table[s] IN
  {r.success, r.failure, r.app_stop} \subseteq LateStates \cup {"AGENT_WAITING"}
  BY DEF cy_ota_state_table, Row, LateStates

\* A state function keeps the invariant, ...
LEMMA FunctionComplete ==
  ASSUME CompleteInv, FunctionStep, ImageStep
  PROVE  NoShutdown' /\ CompleteBehind' /\ RebootsOnlyComplete'
<1> USE DEF CompleteInv, FunctionStep, ImageStep
<1>1. NoShutdown'
  BY DEF NoShutdown
<1>2. CompleteBehind'
  BY DEF CompleteBehind, DownloadDone, ImageBehind, VerifiedLate, Walking, InStep, state, ConnectStates, LateStates
<1>3. RebootsOnlyComplete'
  BY DEF RebootsOnlyComplete, CompleteBehind, DownloadDone, ImageBehind, VerifiedLate, SessionInv, VerifiedInv, VerifiedBehind, Walking,
         InStep, state, MayReboot, NoFalseSuccess
<1> QED BY <1>1, <1>2, <1>3

\* ... and so do the application's thread, the timer and the reset, ...
LEMMA AppComplete ==
  ASSUME ~AppStops, CompleteInv, AppNext \/ TimerExpires \/ Reboot
  PROVE  NoShutdown' /\ CompleteBehind' /\ RebootsOnlyComplete'
<1> USE DEF CompleteInv
<1>1. CASE AgentStarted \/ GetUpdateNow \/ SetStartUpdate \/ TimerExpires
  <2>1. UNCHANGED <<pc, entry, result, curr_state, last_error, stop_OTA_session, image, verified>>
    BY <1>1 DEF AgentStarted, GetUpdateNow, SetStartUpdate, TimerExpires, unseen, shared,
                local, errors, storage, history
  <2>2. NoShutdown'
    BY <1>1 DEF AgentStarted, GetUpdateNow, SetStartUpdate, TimerExpires, NoShutdown, shared,
                SessionInv, VerifiedInv, TypeOK, SharedOK
  <2> QED
    BY <2>1, <2>2 DEF CompleteBehind, DownloadDone, ImageBehind, VerifiedLate, RebootsOnlyComplete, Walking, InStep, state
<1>2. CASE AgentStart
  <2>1. pc' = "begin" /\ UNCHANGED <<image, verified, ota_event>>
    BY <1>2 DEF AgentStart, storage, history
  <2> QED
    BY <2>1 DEF NoShutdown, CompleteBehind, DownloadDone, ImageBehind, VerifiedLate, RebootsOnlyComplete, Walking, InStep
<1>3. CASE Reboot
  BY <1>3 DEF Reboot, FreeContext, NoShutdown, CompleteBehind, DownloadDone, ImageBehind, VerifiedLate, RebootsOnlyComplete, Walking, InStep
<1>4. ~(AgentStartTimeout \/ AgentStop \/ SignalStop \/ AwaitExit \/ AgentStopped)
  BY DEF AgentStartTimeout, AgentStop, SignalStop, AwaitExit, AgentStopped, SessionInv,
         VerifiedInv, Undisturbed
<1> QED BY <1>1, <1>2, <1>3, <1>4 DEF AppNext

\* ... the steps up to the state function and the end of the thread, ...
LEMMA LoopComplete ==
  ASSUME CompleteInv, Alive \/ Initialize \/ Loop \/ Lookup \/ Exit
  PROVE  NoShutdown' /\ CompleteBehind' /\ RebootsOnlyComplete'
<1> USE DEF CompleteInv, NoShutdown, CompleteBehind, DownloadDone, ImageBehind, VerifiedLate, RebootsOnlyComplete, Walking, InStep, state,
            Goto, shared, storage, history, errors
<1>1. CASE Alive
  BY <1>1 DEF Alive
<1>2. CASE Initialize
  BY <1>2 DEF Initialize
<1>3. CASE Loop
  BY <1>3 DEF Loop
<1>4. CASE Lookup
  <2>1. /\ pc = "lookup" /\ pc' \in {"start_cb", "function"} /\ entry' = curr_state
        /\ UNCHANGED <<curr_state, ota_event, last_error, stop_OTA_session, image>>
        /\ verified' = verified \/ verified' = FALSE
        /\ curr_state = "AGENT_WAITING" => verified' = FALSE
        /\ curr_state = "DATA_DOWNLOAD" => pc' = "function"
    <3>1. curr_state \in TableStates BY <1>4 DEF Lookup
    <3> QED BY <1>4, <3>1, TableBefore DEF Lookup
  <2>2. DownloadDone' /\ ImageBehind'
    BY <2>1
  <2>3. VerifiedLate'
    BY <2>1
  <2> QED BY <2>1, <2>2, <2>3
<1>5. CASE Exit
  BY <1>5 DEF Exit
<1> QED BY <1>1, <1>2, <1>3, <1>4, <1>5

\* ... the callbacks, ...
LEMMA CallbackComplete ==
  ASSUME CompleteInv, NEW r, NEW supply,
         StartCallback(r, supply) \/ SuccessCallback(r, supply) \/ FailureCallback(r, supply)
  PROVE  NoShutdown' /\ CompleteBehind' /\ RebootsOnlyComplete'
<1> USE DEF CompleteInv, NoShutdown, CompleteBehind, DownloadDone, ImageBehind, VerifiedLate, RebootsOnlyComplete, Walking, InStep, state,
            shared, storage, history, AtResult
<1>1. CASE StartCallback(r, supply)
  BY <1>1 DEF StartCallback, LateStates
<1>2. CASE SuccessCallback(r, supply)
  BY <1>2 DEF SuccessCallback
<1>3. CASE FailureCallback(r, supply)
  BY <1>3 DEF FailureCallback, SessionInv, VerifiedInv, SuccessGoesOn
<1> QED BY <1>1, <1>2, <1>3

\* ... the judgement on the result, ...
LEMMA JudgeComplete ==
  ASSUME CompleteInv, Judge
  PROVE  NoShutdown' /\ CompleteBehind' /\ RebootsOnlyComplete'
<1>1. entry \in TableStates /\ curr_state = entry
  BY DEF CompleteInv, SessionInv, VerifiedInv, TypeOK, LocalOK, Undisturbed, InStep, Judge
<1> USE <1>1 DEF CompleteInv, Judge, Goto, shared, storage
<1>2. NoShutdown' /\ RebootsOnlyComplete'
  BY DEF NoShutdown, RebootsOnlyComplete
<1>3. DownloadDone'
  <2>1. row.failure_result = "ERROR_GET_DATA" \/ entry # "DATA_DOWNLOAD"
    BY TableComplete DEF row
  <2>2. entry = "DATA_DOWNLOAD" /\ result # "SUCCESS" => last_error' # "SUCCESS"
    BY <2>1 DEF LastError
  <2>3. entry = "DATA_DOWNLOAD" /\ result = "SUCCESS" => image = "complete"
    BY DEF CompleteBehind, DownloadDone
  <2>4. pc' \in {"decide", "failed"} /\ UNCHANGED <<entry, image>>
    OBVIOUS
  <2> QED BY <2>2, <2>3, <2>4 DEF DownloadDone
<1>4. ImageBehind'
  <2>1. /\ InStep /\ InStep' /\ UNCHANGED <<entry, image, stop_OTA_session>>
        /\ state = entry /\ state' = entry
    BY DEF InStep, state
  <2>2. entry \in {"DATA_DISCONNECT", "STORAGE_CLOSE"} /\ last_error' = "SUCCESS"
          => last_error = "SUCCESS"
    <3>1. entry \in {"DATA_DISCONNECT", "STORAGE_CLOSE"} => row.failure_result # "SUCCESS"
      BY TableFlow DEF row
    <3> QED BY <3>1 DEF LastError
  <2> QED BY <2>1, <2>2 DEF CompleteBehind, ImageBehind, Walking
<1>5. VerifiedLate'
  <2>1. /\ InStep /\ InStep' /\ UNCHANGED <<entry, image>>
        /\ state = entry /\ state' = entry
    BY DEF InStep, state
  <2>2. CASE UNCHANGED verified
    BY <2>1, <2>2 DEF CompleteBehind, VerifiedLate, Walking
  <2>3. CASE entry = "VERIFY"
    BY <2>1, <2>3 DEF CompleteBehind, ImageBehind, VerifiedLate, Walking, LateStates
  <2>4. verified \in BOOLEAN
    BY DEF SessionInv, VerifiedInv, TypeOK, HistoryOK
  <2> QED BY <2>2, <2>3, <2>4
<1> QED BY <1>2, <1>3, <1>4, <1>5 DEF CompleteBehind

\* ... and the choice of the next state.
LEMMA DecideComplete ==
  ASSUME CompleteInv, DecideStop \/ DecideDownload \/ DecideConnect \/ DecideOther
  PROVE  NoShutdown' /\ CompleteBehind' /\ RebootsOnlyComplete'
<1>1. /\ pc = "decide" /\ entry \in TableStates /\ curr_state = entry
      /\ new_state \in {row.success, row.failure}
  BY DEF CompleteInv, SessionInv, VerifiedInv, TypeOK, LocalOK, Undisturbed, InStep,
         SuccessGoesOn, DecideStop, DecideDownload, DecideConnect, DecideOther
<1>2. /\ pc' = "loop"
      /\ UNCHANGED <<entry, result, new_state, stop_OTA_session, verified, image, ota_event>>
  BY DEF DecideStop, DecideDownload, DecideConnect, DecideOther, Proceed, Goto, history, storage
<1>3. NoShutdown' /\ RebootsOnlyComplete'
  BY <1>2 DEF CompleteInv, NoShutdown, RebootsOnlyComplete
<1>4. DownloadDone'
  BY <1>2 DEF DownloadDone
<1>5. ImageBehind'
  <2>1. InStep /\ state = entry /\ state' = curr_state'
    BY <1>1, <1>2 DEF InStep, state
  <2>2. CASE DecideStop
    BY <1>1, <1>2, <2>1, <2>2, TableComplete DEF DecideStop, Proceed, ImageBehind, row
  <2>3. CASE DecideDownload
    <3>1. \/ curr_state' = "STORAGE_OPEN"
          \/ curr_state' = new_state /\ new_state # "VERIFY" /\ last_error' = "ERROR_GET_DATA"
      BY <1>1, <2>3, TableComplete DEF DecideDownload, DownloadFailed, Proceed, row
    <3> QED BY <1>2, <2>1, <3>1 DEF ImageBehind
  <2>4. CASE DecideConnect
    <3>1. curr_state' \in {row.success, "AGENT_WAITING"} /\ entry \in ConnectStates
      BY <1>1, <2>4 DEF DecideConnect, ConnectFailed, Proceed, CompleteInv, SessionInv,
                        ConnectGoesOn
    <3>2. curr_state' \notin {"DATA_DISCONNECT", "STORAGE_CLOSE", "VERIFY"}
      BY <1>1, <3>1, TableComplete DEF row, ConnectStates
    <3> QED BY <1>2, <2>1, <3>2 DEF ImageBehind
  <2>5. CASE DecideOther
    <3>1. ~stop_OTA_session /\ last_error' = last_error
      BY <2>5 DEF DecideOther, Proceed
    <3>2. CASE last_error = "SUCCESS"
      <4>1. \/ curr_state' = row.success
            \/ /\ entry \in {"START_UPDATE", "RESULT_REDIRECT", "OTA_COMPLETE"}
               /\ curr_state' = row.failure
        BY <1>1, <2>5, <3>2 DEF DecideOther, Proceed, CompleteInv, SessionInv, VerifiedInv,
                                SuccessGoesOn
      <4>2. CASE curr_state' \in {"DATA_DISCONNECT", "STORAGE_CLOSE"}
        <5>1. entry \in {"DATA_DOWNLOAD", "DATA_DISCONNECT"}
          BY <1>1, <4>1, <4>2, TableComplete DEF row
        <5>2. image = "complete"
          BY <1>1, <2>1, <3>1, <3>2, <5>1
             DEF CompleteInv, CompleteBehind, DownloadDone, ImageBehind, Walking
        <5> QED BY <1>2, <5>2 DEF ImageBehind
      <4>3. CASE curr_state' = "VERIFY"
        <5>1. entry = "STORAGE_CLOSE"
          BY <1>1, <4>1, <4>3, TableComplete DEF row
        <5>2. image = "complete"
          BY <2>1, <3>1, <3>2, <5>1 DEF CompleteInv, CompleteBehind, ImageBehind, Walking
        <5> QED BY <1>2, <5>2 DEF ImageBehind
      <4> QED BY <2>1, <4>2, <4>3 DEF ImageBehind
    <3>3. CASE last_error # "SUCCESS"
      <4>1. curr_state' = row.app_stop
        BY <2>5, <3>3 DEF DecideOther, Proceed
      <4> QED BY <1>1, <2>1, <3>1, <3>3, <4>1, TableComplete DEF ImageBehind, row
    <3> QED BY <3>2, <3>3
  <2> QED BY <2>2, <2>3, <2>4, <2>5
<1>6. VerifiedLate'
  <2>1. state = entry /\ state' = curr_state' /\ Walking /\ InStep /\ ~InStep'
    BY <1>1, <1>2 DEF InStep, Walking, state
  <2>2. ASSUME verified PROVE state' \in LateStates \cup {"AGENT_WAITING"}
    <3>1. entry \in LateStates
      BY <2>1, <2>2 DEF CompleteInv, CompleteBehind, VerifiedLate
    <3>2. curr_state' \in {row.success, row.failure, row.app_stop, "AGENT_WAITING"}
      BY <1>1, <3>1 DEF DecideStop, DecideDownload, DecideConnect, DecideOther, Proceed,
                        DownloadFailed, LateStates
    <3> QED BY <2>1, <3>1, <3>2, TableLate DEF row
  <2>3. verified' = verified /\ verified \in BOOLEAN
    BY <1>2 DEF CompleteInv, SessionInv, VerifiedInv, TypeOK, HistoryOK
  <2>4. verified => image' = "complete"
    BY <1>2 DEF CompleteInv, CompleteBehind, VerifiedLate
  <2> QED BY <2>1, <2>2, <2>3, <2>4 DEF VerifiedLate
<1> QED BY <1>3, <1>4, <1>5, <1>6 DEF CompleteBehind

\* Every step keeps the inductive invariant.
LEMMA CompleteStep ==
  ASSUME ~AppStops, StopsAreKept PROVE CompleteInv /\ [Next]_vars => CompleteInv'
<1> SUFFICES ASSUME CompleteInv, [Next]_vars PROVE CompleteInv'
  OBVIOUS
<1>1. SessionInv'
  BY SessionStep DEF CompleteInv
<1>2. CASE UNCHANGED vars
  BY <1>1, <1>2
     DEF CompleteInv, NoShutdown, CompleteBehind, DownloadDone, ImageBehind, VerifiedLate, RebootsOnlyComplete, Walking, InStep, state,
         vars, shared, local, errors, storage, history
<1>3. CASE AppNext \/ TimerExpires \/ Reboot
  BY <1>1, <1>3, AppComplete DEF CompleteInv
<1>4. CASE Alive \/ Initialize \/ Loop \/ Lookup \/ Exit
  BY <1>1, <1>4, LoopComplete DEF CompleteInv
<1>5. CASE \/ StateFunction \/ WakeUp \/ DownloadEnds
           \/ \E r \in CallbackResults, supply \in BOOLEAN : GetJobHTTP(r, supply)
  <2>1. FunctionStep
    BY <1>5, FunctionSteps DEF CompleteInv, SessionInv, VerifiedInv
  <2> QED
    BY <1>1, <1>5, <2>1, ImageSteps, FunctionComplete DEF CompleteInv, SessionInv, VerifiedInv
<1>6. CASE \E r \in CallbackResults, supply \in BOOLEAN :
             \/ StartCallback(r, supply) \/ SuccessCallback(r, supply)
             \/ FailureCallback(r, supply)
  BY <1>1, <1>6, CallbackComplete DEF CompleteInv
<1>7. CASE Judge
  BY <1>1, <1>7, JudgeComplete DEF CompleteInv
<1>8. CASE DecideStop \/ DecideDownload \/ DecideConnect \/ DecideOther
  BY <1>1, <1>8, DecideComplete DEF CompleteInv
<1> QED
  BY <1>2, <1>3, <1>4, <1>5, <1>6, <1>7, <1>8 DEF Next, AgentNext, Callback

\* An agent that is not stopped resets the device only for an image its transport
\* took for complete in this very session, whatever the callbacks take over.  The
\* one exception, a STOP for a block of an HTTP download, is a hypothesis.
THEOREM CompleteReset ==
  ASSUME ~AppStops, StopsAreKept PROVE Spec => []RebootsOnlyComplete
<1>1. Init => NoShutdown /\ CompleteBehind /\ RebootsOnlyComplete
  BY DEF Init, NoShutdown, CompleteBehind, DownloadDone, ImageBehind, VerifiedLate, RebootsOnlyComplete, Walking, InStep
<1>2. CompleteInv <=> SessionInv /\ NoShutdown /\ CompleteBehind /\ RebootsOnlyComplete
  BY DEF CompleteInv
<1>3. CompleteInv /\ [Next]_vars => CompleteInv'
  BY CompleteStep
<1> QED BY <1>1, <1>2, <1>3, SessionAlways, PTL DEF Spec

-----------------------------------------------------------------------------
(* What the agent takes for a connection is one                            *)

\* A call of the application that takes no step over leaves a connection usable.
LEMMA CallAppUsable ==
  ASSUME ConnectedIsUsable, NEW r, NEW supply, r # "APP_SUCCESS",
         CallApp(r, supply)
  PROVE  ConnectedIsUsable'
<1>1. device_connected' = device_connected
  BY DEF CallApp
<1>2. CASE supply
  <2>1. /\ connection' = (Transport = "HTTP")
        /\ connection_established' = (connection_established \/ Transport = "MQTT")
    BY <1>2 DEF CallApp
  <2> QED BY <2>1, TransportAssumption DEF ConnectedIsUsable
<1>3. CASE ~supply
  <2>1. UNCHANGED <<connection, connection_established>>
    BY <1>3 DEF CallApp
  <2> QED BY <1>1, <2>1 DEF ConnectedIsUsable
<1> QED BY <1>2, <1>3
\* Every step leaves a connection usable.
LEMMA UsableStep ==
  ASSUME "APP_SUCCESS" \notin AppResults, ConnectedIsUsable, [Next]_vars
  PROVE  ConnectedIsUsable'
<1>1. CASE UNCHANGED link
  BY <1>1 DEF link, ConnectedIsUsable
<1>2. CASE FreeContext
  BY <1>2 DEF FreeContext, ConnectedIsUsable
<1>3. CASE UNCHANGED vars \/ TimerExpires
  BY <1>1, <1>3 DEF vars, TimerExpires, unseen
<1>4. CASE AppNext \/ Reboot
  BY <1>1, <1>2, <1>4
     DEF AppNext, AgentStart, AgentStarted, AgentStartTimeout, GetUpdateNow, SetStartUpdate,
         AgentStop, SignalStop, AwaitExit, AgentStopped, Reboot, unseen
<1>5. CASE \/ Alive \/ Initialize \/ Loop \/ Lookup \/ Exit \/ Judge \/ WakeUp
           \/ DecideStop \/ DecideDownload \/ DecideConnect \/ DecideOther
  BY <1>1, <1>5
     DEF Alive, Initialize, Loop, Lookup, Exit, Judge, WakeUp, DecideStop, DecideDownload,
         DecideConnect, DecideOther, Proceed
<1>6. CASE Callback
  <2> PICK r \in CallbackResults, supply \in BOOLEAN :
           \/ StartCallback(r, supply) \/ GetJobHTTP(r, supply)
           \/ SuccessCallback(r, supply) \/ FailureCallback(r, supply)
    BY <1>6 DEF Callback
  <2>1. CallApp(r, supply)
    BY DEF StartCallback, GetJobHTTP, SuccessCallback, FailureCallback
  <2>2. r # "APP_SUCCESS"
    BY <2>1 DEF CallApp
  <2> QED BY <2>1, <2>2, CallAppUsable
<1>7. CASE DownloadEnds
  BY <1>1, <1>7
     DEF DownloadEnds, JobArrives, JobShutDown, DataComplete, DataFails, DataStopped,
         DataShutDown, undownloaded
<1>8. CASE StateFunction
  <2>1. CASE \/ NoFunction \/ DetermineFlow \/ AlreadyConnected \/ ReuseConnection \/ JobParse
             \/ JobRedirect \/ OpenFilesystem \/ CloseFunction \/ VerifyData \/ ResultRedirect
             \/ \E r \in CallbackResults : ResultSend(r)
    BY <1>1, <2>1
       DEF NoFunction, DetermineFlow, AlreadyConnected, ReuseConnection, JobParse, JobRedirect,
           OpenFilesystem, CloseFunction, VerifyData, ResultRedirect, ResultSend, unstored
  <2>2. CASE WaitForStart \/ ConnectFails \/ GetJobMQTT \/ \E r \in CallbackResults : DataDownload(r)
    <3>1. /\ UNCHANGED <<device_connected, connection_established>>
          /\ UNCHANGED connection \/ ~device_connected
      BY <2>2 DEF WaitForStart, ConnectFails, GetJobMQTT, DataDownload
    <3> QED BY <3>1 DEF ConnectedIsUsable
  <2>3. CASE ConnectSucceeds
    BY <2>3, TransportAssumption DEF ConnectSucceeds, ConnectedIsUsable
  <2>4. CASE DisconnectFunction \/ Complete
    BY <2>4 DEF DisconnectFunction, Complete, Disconnect, ConnectedIsUsable
  <2> QED BY <1>8, <2>1, <2>2, <2>3, <2>4 DEF StateFunction
<1> QED
  BY <1>3, <1>4, <1>5, <1>6, <1>7, <1>8 DEF Next, AgentNext

\* While the agent takes the device for connected, so that cy_ota_connect() skips
\* its work, the transport has its connection: for every application that leaves
\* the disconnecting to the agent, stopped or not.
THEOREM ConnectionUsable ==
  ASSUME "APP_SUCCESS" \notin AppResults PROVE Spec => []ConnectedIsUsable
<1>1. Init => ConnectedIsUsable
  BY DEF Init, ConnectedIsUsable
<1>2. ConnectedIsUsable /\ [Next]_vars => ConnectedIsUsable'
  BY UsableStep
<1> QED BY <1>1, <1>2, PTL DEF Spec

-----------------------------------------------------------------------------
(* Data comes on the topic of its session.  All of this is about an        *)
(* application whose callback always continues and supplies no connection: *)
(* one that takes over CY_OTA_STATE_OTA_COMPLETE takes over its disconnect *)
(* too.  It may stop the agent at any time.                                *)

\* cy_ota_agent_stop() has begun, and waits for the thread to end.
Stopping == app \in {"stopping", "signalled", "joining"}

\* Until then nobody but the agent's thread writes curr_state.
StopOnly ==
  /\ ~Stopping /\ InStep => curr_state = entry
  /\ pc = "waiting" => entry = "AGENT_WAITING"

\* The rows at whose functions a topic may still be subscribed, and those that
\* may leave one subscribed.
TopicStates == {"JOB_DISCONNECT", "STORAGE_OPEN", "DATA_CONNECT", "DATA_DOWNLOAD",
                "DATA_DISCONNECT", "RESULT_REDIRECT", "RESULT_CONNECT", "RESULT_SEND",
                "RESULT_DISCONNECT", "OTA_COMPLETE"}
KeepStates  == (TopicStates \cup {"JOB_DOWNLOAD"}) \ (DisconnectStates \cup {"OTA_COMPLETE"})
BeforeFunction == pc \in {"loop", "lookup", "start_cb", "function"}
AfterFunction  == pc \in {"downloading", "result", "judge", "failed", "decide"}

\* A topic is subscribed over the agent's own connection only, and while it is,
\* no timer runs.
OwnLink ==
  /\ ~connection_from_app /\ (device_connected <=> connection_established)
  /\ topic # "none" => device_connected /\ timer = "off"
  /\ DownloadingData /\ Transport = "MQTT" => topic # "none"
  /\ pc \in {"off", "begin", "init"} => topic = "none"
  /\ app = "stopped" => pc = "off"

\* To connect while a topic is subscribed is to be connected already.
StayConnected ==
  topic # "none" /\ curr_state \in ConnectStates /\ pc \in {"result", "judge", "failed", "decide"}
    => result = "SUCCESS"

\* Unless it is being stopped, the agent unsubscribes before it waits again ...
TopicBehind ==
  topic # "none" /\ ~Stopping =>
    /\ topic = "current"
    /\ \/ BeforeFunction /\ state \in TopicStates
       \/ AfterFunction /\ entry \in KeepStates

\* ... and if it waits with an old topic, only the stop is left to come.
StaleEnds ==
  topic = "stale" =>
    /\ Stopping /\ entry = "AGENT_WAITING" /\ "START_UPDATE" \notin ota_event
    /\ pc \in {"waiting", "result", "failed", "decide", "loop", "exit", "exited"}
    /\ pc = "result" => result = "EXITING"
    /\ pc \in {"failed", "decide"} => new_state = "EXITING" /\ last_error # "SUCCESS"
    /\ pc = "loop" => curr_state = "EXITING"

TopicParts == StopOnly /\ OwnLink /\ StayConnected /\ TopicBehind /\ StaleEnds

\* The inductive invariant.
TopicInv == TriesInv /\ TopicParts

\* What the rows say about the way of a topic.
LEMMA TableTopic ==
  ASSUME NEW s \in TableStates
  PROVE
  LET r == cy_ota_state_table[s] IN
  /\ s \in KeepStates => {r.success, r.failure, r.app_stop} \subseteq TopicStates
  /\ s = "AGENT_WAITING" => /\ r.failure = "EXITING" /\ r.app_stop = "EXITING"
                            /\ r.failure_result = "EXITING"
  BY TableDomain DEF cy_ota_state_table, Row, KeepStates, TopicStates, DisconnectStates

\* A callback that continues leaves the connection alone.
LEMMA Continues ==
  ASSUME AppResults = {"CONTINUE"}, ~AppConnects, NEW r, NEW supply, CallApp(r, supply)
  PROVE  r = "CONTINUE" /\ UNCHANGED link
  BY DEF CallApp, link

\* The invariant only looks at some variables.
LEMMA TopicKept ==
  ASSUME TopicParts,
         UNCHANGED <<curr_state, ota_event, timer, pc, entry, result, new_state, last_error,
                     device_connected, connection_established, connection_from_app, topic, app>>
  PROVE  TopicParts'
  BY DEF TopicParts, StopOnly, OwnLink, StayConnected, TopicBehind, StaleEnds, Stopping, InStep,
         DownloadingData, BeforeFunction, AfterFunction, state

\* The application's thread, the timer and the reset keep the topic's invariant, ...
LEMMA AppTopic ==
  ASSUME TopicInv, AppNext \/ TimerExpires \/ Reboot PROVE TopicParts'
<1> USE DEF TopicInv, TopicParts
<1>1. CASE FreeContext
  BY <1>1 DEF FreeContext, StopOnly, OwnLink, StayConnected, TopicBehind, StaleEnds, InStep,
              DownloadingData
<1>2. CASE AgentStart
  <2>1. topic = "none"
    BY <1>2 DEF AgentStart, OwnLink
  <2> QED BY <1>2, <2>1
          DEF AgentStart, StopOnly, OwnLink, StayConnected, TopicBehind, StaleEnds, Stopping,
              InStep, DownloadingData, link
<1>3. CASE \/ AgentStarted \/ AgentStartTimeout \/ GetUpdateNow \/ SetStartUpdate
           \/ AgentStop \/ SignalStop \/ AwaitExit \/ TimerExpires
  <2>1. UNCHANGED <<pc, entry, result, new_state, last_error, device_connected,
                    connection_established, connection_from_app, topic>>
    BY <1>3 DEF AgentStarted, AgentStartTimeout, GetUpdateNow, SetStartUpdate, AgentStop,
                SignalStop, AwaitExit, TimerExpires, unseen, local, errors, link
  <2>2. /\ (curr_state' = curr_state) \/ (curr_state' = "EXITING" /\ Stopping')
        /\ Stopping => Stopping'
        /\ (timer' = timer) \/ timer' = "off"
        /\ (app' = app) \/ app' # "stopped"
    BY <1>3 DEF AgentStarted, AgentStartTimeout, GetUpdateNow, SetStartUpdate, AgentStop,
                SignalStop, AwaitExit, TimerExpires, Stopping, shared, unseen
  <2>3. StopOnly' /\ OwnLink' /\ StayConnected'
    BY <2>1, <2>2
       DEF StopOnly, InStep, OwnLink, DownloadingData, StayConnected, ConnectStates
  <2>4. TopicBehind'
    <3>1. ~Stopping' => state' = state
      BY <2>1, <2>2 DEF state
    <3> QED BY <2>1, <2>2, <3>1 DEF TopicBehind, BeforeFunction, AfterFunction
  <2>5. StaleEnds'
    <3>1. ASSUME topic = "stale" PROVE "START_UPDATE" \notin ota_event'
      <4>1. Stopping /\ timer = "off" /\ "START_UPDATE" \notin ota_event
        BY <3>1 DEF StaleEnds, OwnLink
      <4> QED
        BY <1>3, <4>1
           DEF AgentStarted, AgentStartTimeout, GetUpdateNow, SetStartUpdate, AgentStop,
               SignalStop, AwaitExit, TimerExpires, Stopping, shared, unseen
    <3> QED BY <2>1, <2>2, <3>1 DEF StaleEnds
  <2> QED BY <2>3, <2>4, <2>5
<1> QED BY <1>1, <1>2, <1>3 DEF AppNext, AgentStopped, Reboot

\* ... the steps up to the state function and the end of the thread, ...
LEMMA LoopTopic ==
  ASSUME TopicInv, Alive \/ Initialize \/ Loop \/ Lookup \/ Exit PROVE TopicParts'
<1> USE DEF TopicInv, TopicParts
<1>1. UNCHANGED <<curr_state, link, app>> \/ Initialize
  BY DEF Alive, Loop, Lookup, Exit, shared
<1>2. CASE Alive \/ Initialize
  <2>1. topic = "none" /\ pc' \in {"init", "loop"} /\ UNCHANGED <<link, app>>
    BY <1>2 DEF Alive, Initialize, Goto, OwnLink
  <2>2. app # "stopped"
    BY <1>2 DEF Alive, Initialize, OwnLink
  <2> QED BY <2>1, <2>2 DEF StopOnly, OwnLink, StayConnected, TopicBehind, StaleEnds, InStep, DownloadingData, link
<1>3. CASE Loop
  BY <1>1, <1>3 DEF Loop, Goto, StopOnly, OwnLink, StayConnected, TopicBehind, StaleEnds, InStep, DownloadingData, link,
              shared, errors, Stopping, BeforeFunction, AfterFunction, state, TopicStates
<1>4. CASE Lookup
  <2>1. /\ pc = "lookup" /\ pc' \in {"start_cb", "function"} /\ entry' = curr_state
        /\ UNCHANGED <<curr_state, ota_event, timer, link, app, last_error>>
    BY <1>4 DEF Lookup, shared, errors
  <2> QED BY <2>1 DEF StopOnly, OwnLink, StayConnected, TopicBehind, StaleEnds, InStep, DownloadingData, link,
              Stopping, BeforeFunction, AfterFunction, state
<1>5. CASE Exit
  BY <1>1, <1>5 DEF Exit, Goto, StopOnly, OwnLink, StayConnected, TopicBehind, StaleEnds, InStep, DownloadingData, link,
              Stopping, BeforeFunction, AfterFunction, state
<1> QED BY <1>2, <1>3, <1>4, <1>5

\* ... the functions that leave the connection alone, ...
LEMMA PlainTopic ==
  ASSUME TopicInv,
         \/ NoFunction \/ DetermineFlow \/ JobParse \/ JobRedirect \/ OpenFilesystem
         \/ CloseFunction \/ VerifyData \/ ResultRedirect
         \/ \E r \in CallbackResults : ResultSend(r)
  PROVE  TopicParts'
<1> USE DEF TopicInv, TopicParts
<1>1. /\ pc = "function" /\ pc' = "result"
      /\ UNCHANGED <<curr_state, ota_event, timer, entry, link, app>>
      /\ entry \notin ConnectStates \cup DisconnectStates \cup {"OTA_COMPLETE", "AGENT_WAITING"}
  <2> USE DEF Running, Returns, shared, ConnectStates, DisconnectStates
  <2>1. CASE NoFunction \/ DetermineFlow
    BY <2>1 DEF NoFunction, DetermineFlow
  <2>2. CASE JobParse \/ JobRedirect
    BY <2>2 DEF JobParse, JobRedirect, unjobbed, ParseErrors
  <2>3. CASE OpenFilesystem \/ CloseFunction
    BY <2>3 DEF OpenFilesystem, CloseFunction, CloseResult, unstored
  <2>4. CASE VerifyData \/ ResultRedirect
    BY <2>4 DEF VerifyData, ResultRedirect
  <2>5. CASE \E r \in CallbackResults : ResultSend(r)
    BY <2>5 DEF ResultSend, CallbackResults
  <2> QED BY <2>1, <2>2, <2>3, <2>4, <2>5
<1>2. curr_state \notin ConnectStates
  BY <1>1 DEF TriesInv, OnlyStopped, InStep, ConnectStates
<1>3. StopOnly' /\ OwnLink'
  BY <1>1 DEF StopOnly, OwnLink, InStep, DownloadingData, link, Stopping
<1>4. TopicBehind'
  BY <1>1 DEF TopicBehind, BeforeFunction, AfterFunction, Stopping, state, KeepStates, link
<1>5. StayConnected' /\ StaleEnds'
  BY <1>1, <1>2 DEF StayConnected, StaleEnds, link
<1> QED BY <1>3, <1>4, <1>5

\* ... connecting and disconnecting, ...
LEMMA LinkTopic ==
  ASSUME TopicInv,
         \/ AlreadyConnected \/ ReuseConnection \/ ConnectSucceeds \/ ConnectFails
         \/ DisconnectFunction \/ Complete
  PROVE  TopicParts'
<1> USE DEF TopicInv, TopicParts
<1>1. /\ pc = "function" /\ pc' \in {"result", "reset", "exit"}
      /\ UNCHANGED <<curr_state, ota_event, entry, app, connection_from_app>>
  BY DEF AlreadyConnected, ReuseConnection, ConnectSucceeds, ConnectFails, DisconnectFunction,
         Complete, Connecting, Running, Returns, Goto, unlinked, shared, link, Disconnect
<1>2. StopOnly'
  BY <1>1 DEF StopOnly, InStep, Stopping
<1>3. CASE AlreadyConnected
  <2>1. UNCHANGED <<timer, link>>
    BY <1>3 DEF AlreadyConnected, unlinked, shared
  <2>2. /\ pc' = "result" /\ entry \in ConnectStates
        /\ curr_state \in ConnectStates => result' = "SUCCESS"
    BY <1>3 DEF AlreadyConnected, Connecting, Returns
  <2>3. OwnLink' /\ StayConnected'
    BY <1>1, <2>1, <2>2 DEF OwnLink, DownloadingData, StayConnected, link
  <2>4. TopicBehind'
    BY <1>1, <2>1, <2>2
       DEF TopicBehind, BeforeFunction, AfterFunction, Stopping, state, KeepStates, link,
           ConnectStates, DisconnectStates
  <2>5. StaleEnds'
    BY <1>1, <2>1 DEF StaleEnds, link
  <2> QED BY <1>2, <2>3, <2>4, <2>5
<1>4. CASE \/ ReuseConnection \/ ConnectSucceeds \/ ConnectFails
           \/ DisconnectFunction \/ Complete
  <2>1. /\ topic' = "none"
        /\ device_connected' <=> connection_established'
    <3>1. CASE ReuseConnection
      BY <3>1 DEF ReuseConnection, OwnLink, link
    <3>2. CASE ConnectSucceeds
      BY <3>2 DEF ConnectSucceeds, OwnLink
    <3>3. CASE ConnectFails
      BY <3>3 DEF ConnectFails, OwnLink
    <3>4. CASE DisconnectFunction \/ Complete
      <4>1. Disconnect
        BY <3>4 DEF DisconnectFunction, Complete
      <4> QED BY <4>1 DEF Disconnect, OwnLink
    <3> QED BY <1>4, <3>1, <3>2, <3>3, <3>4
  <2> QED
    BY <1>1, <1>2, <2>1
       DEF OwnLink, StayConnected, TopicBehind, StaleEnds, DownloadingData
<1> QED BY <1>3, <1>4

\* ... the wait for the next session and its end, ...
LEMMA WaitTopic ==
  ASSUME TopicInv, WaitForStart \/ WakeUp PROVE TopicParts'
<1> USE DEF TopicInv, TopicParts
<1>1. CASE WaitForStart
  <2>1. /\ pc = "function" /\ entry = "AGENT_WAITING" /\ pc' = "waiting"
        /\ "START_UPDATE" \notin ota_event'
        /\ topic' = (IF topic = "current" THEN "stale" ELSE topic)
        /\ UNCHANGED <<curr_state, timer, entry, device_connected, connection_established,
                       connection_from_app, app>>
    BY <1>1 DEF WaitForStart, Running, Goto
  <2>2. topic # "none" => Stopping
    BY <2>1 DEF TopicBehind, BeforeFunction, AfterFunction, state, TopicStates
  <2>3. StopOnly' /\ OwnLink' /\ StayConnected' /\ TopicBehind'
    BY <2>1, <2>2
       DEF StopOnly, InStep, OwnLink, StayConnected, TopicBehind, DownloadingData, Stopping
  <2>4. StaleEnds'
    BY <2>1, <2>2 DEF StaleEnds, Stopping
  <2> QED BY <2>3, <2>4
<1>2. CASE WakeUp
  <2>1. /\ pc = "waiting" /\ pc' \in {"result", "exit"}
        /\ UNCHANGED <<curr_state, entry, link, app>>
        /\ (timer' = timer) \/ timer' = "off"
        /\ "START_UPDATE" \notin ota_event'
        /\ "START_UPDATE" \in ota_event \/ pc' = "exit" \/ result' = "EXITING"
    BY <1>2 DEF WakeUp, Returns
  <2>2. curr_state \notin ConnectStates
    BY <2>1 DEF StopOnly, TriesInv, OnlyStopped, InStep, ConnectStates
  <2> QED
    BY <2>1, <2>2
       DEF StopOnly, InStep, OwnLink, StayConnected, TopicBehind, DownloadingData, Stopping,
           StaleEnds, BeforeFunction, AfterFunction, link
<1> QED BY <1>1, <1>2

\* ... the two downloads, which subscribe, and their ends, ...
LEMMA DownloadTopic ==
  ASSUME TopicInv,
         GetJobMQTT \/ DownloadEnds \/ \E r \in CallbackResults : DataDownload(r)
  PROVE  TopicParts'
<1> USE DEF TopicInv, TopicParts
<1>1. CASE GetJobMQTT \/ \E r \in CallbackResults : DataDownload(r)
  <2>1. /\ pc = "function" /\ pc' \in {"downloading", "result"}
        /\ entry \in {"JOB_DOWNLOAD", "DATA_DOWNLOAD"}
        /\ timer' = "off"
        /\ UNCHANGED <<curr_state, entry, device_connected, connection_established,
                       connection_from_app, app>>
        /\ (topic' = topic) \/ (topic = "none" /\ topic' = "current" /\ connection_established)
        /\ pc' = "downloading" /\ entry = "DATA_DOWNLOAD" /\ Transport = "MQTT" => topic' # "none"
    <3>1. CASE GetJobMQTT
      BY <3>1 DEF GetJobMQTT, Running, Goto, Returns, unjobbed
    <3>2. CASE \E r \in CallbackResults : DataDownload(r)
      BY <3>2 DEF DataDownload, Running, Goto, Returns, CallbackResults
    <3> QED BY <1>1, <3>1, <3>2
  <2>2. curr_state \notin ConnectStates
    BY <2>1 DEF TriesInv, OnlyStopped, InStep, ConnectStates
  <2>3. topic # "stale" /\ topic' # "stale"
    BY <2>1 DEF StaleEnds
  <2>4. StopOnly' /\ StayConnected' /\ StaleEnds'
    BY <2>1, <2>2, <2>3 DEF StopOnly, InStep, StayConnected, StaleEnds, Stopping
  <2>5. OwnLink'
    BY <2>1 DEF OwnLink, DownloadingData
  <2>6. topic' = "none" \/ topic' = "current"
    BY <2>1, <2>3 DEF TriesInv, TypeOK, LinkOK
  <2>7. TopicBehind'
    BY <2>1, <2>6
       DEF TopicBehind, AfterFunction, KeepStates, TopicStates, DisconnectStates
  <2> QED BY <2>4, <2>5, <2>7
<1>2. CASE DownloadEnds
  <2>1. /\ pc = "downloading" /\ pc' = "result" /\ entry \in {"JOB_DOWNLOAD", "DATA_DOWNLOAD"}
        /\ UNCHANGED <<shared, entry, link, app>>
    BY <1>2 DEF DownloadEnds, JobArrives, JobShutDown, DataComplete, DataFails, DataStopped,
                DataShutDown, DownloadingData, undownloaded, unjobbed, Returns, shared
  <2>2. curr_state \notin ConnectStates
    BY <2>1 DEF TriesInv, OnlyStopped, InStep, ConnectStates
  <2>3. StopOnly' /\ StayConnected' /\ StaleEnds'
    BY <2>1, <2>2 DEF StopOnly, InStep, StayConnected, StaleEnds, Stopping, shared, link
  <2>4. OwnLink' /\ TopicBehind'
    BY <2>1 DEF OwnLink, TopicBehind, DownloadingData, BeforeFunction, AfterFunction, Stopping,
                shared, link
  <2> QED BY <2>3, <2>4
<1> QED BY <1>1, <1>2

\* ... the callbacks, ...
LEMMA CallbackTopic ==
  ASSUME TopicInv, AppResults = {"CONTINUE"}, ~AppConnects, Callback PROVE TopicParts'
<1> USE DEF TopicInv, TopicParts
<1> PICK r \in CallbackResults, supply \in BOOLEAN :
         \/ StartCallback(r, supply) \/ GetJobHTTP(r, supply)
         \/ SuccessCallback(r, supply) \/ FailureCallback(r, supply)
  BY DEF Callback
<1>1. r = "CONTINUE" /\ UNCHANGED link
  BY Continues DEF StartCallback, GetJobHTTP, SuccessCallback, FailureCallback
<1>2. UNCHANGED <<curr_state, ota_event, entry, last_error, app>>
  BY DEF StartCallback, GetJobHTTP, SuccessCallback, FailureCallback, AtResult, shared, unjobbed,
         Goto, Returns, errors
<1>3. CASE StartCallback(r, supply) \/ GetJobHTTP(r, supply)
  <2>1. /\ pc \in {"start_cb", "function"} /\ pc' \in {"function", "downloading"}
        /\ (timer' = timer) \/ timer' = "off"
        /\ \/ pc = "function" /\ entry = "JOB_DOWNLOAD" /\ pc' = "downloading"
           \/ pc = "start_cb" /\ pc' = "function"
    BY <1>1, <1>3 DEF StartCallback, GetJobHTTP, Running, Goto, Returns, shared
  <2>2. StopOnly' /\ OwnLink' /\ StayConnected' /\ StaleEnds'
    BY <1>1, <1>2, <2>1
       DEF StopOnly, InStep, OwnLink, DownloadingData, StayConnected, StaleEnds, Stopping, link
  <2>3. TopicBehind'
    BY <1>1, <1>2, <2>1
       DEF TopicBehind, BeforeFunction, AfterFunction, state, Stopping, TopicStates, link
  <2> QED BY <2>2, <2>3
<1>4. CASE SuccessCallback(r, supply)
  <2>1. pc = "result" /\ pc' = "judge" /\ result = "SUCCESS" /\ result' = "SUCCESS" /\ timer' = timer
    BY <1>1, <1>4 DEF SuccessCallback, AtResult, shared
  <2> QED
    BY <1>1, <1>2, <2>1
       DEF StopOnly, InStep, OwnLink, DownloadingData, StayConnected, TopicBehind, StaleEnds,
           BeforeFunction, AfterFunction, state, Stopping, link
<1>5. CASE FailureCallback(r, supply)
  <2>1. pc = "failed" /\ pc' = "decide" /\ UNCHANGED <<result, new_state, timer>>
    BY <1>1, <1>5 DEF FailureCallback, AtResult, shared
  <2> QED
    BY <1>1, <1>2, <2>1
       DEF StopOnly, InStep, OwnLink, DownloadingData, StayConnected, TopicBehind, StaleEnds,
           BeforeFunction, AfterFunction, state, Stopping, link
<1> QED BY <1>3, <1>4, <1>5

\* ... the judgement on the result, ...
LEMMA JudgeTopic ==
  ASSUME TopicInv, Judge PROVE TopicParts'
<1> USE DEF TopicInv, TopicParts
<1>0. entry \in TableStates
  BY DEF TriesInv, TypeOK, LocalOK
<1>1. /\ pc \in {"result", "judge"} /\ pc' \in {"failed", "decide"}
      /\ UNCHANGED <<shared, entry, link, app>>
      /\ result = "SUCCESS" => result' = "SUCCESS"
      /\ pc = "judge" \/ result # "SUCCESS"
  BY DEF Judge, Goto
<1>2. StopOnly' /\ OwnLink' /\ StayConnected'
  BY <1>1 DEF StopOnly, InStep, OwnLink, DownloadingData, StayConnected, Stopping, shared, link
<1>3. TopicBehind'
  BY <1>1 DEF TopicBehind, BeforeFunction, AfterFunction, state, Stopping, shared, link
<1>4. StaleEnds'
  <2> SUFFICES ASSUME topic = "stale" PROVE StaleEnds'
    BY <1>1 DEF StaleEnds, link
  <2>1. pc = "result" /\ result = "EXITING" /\ entry = "AGENT_WAITING"
    BY <1>1 DEF StaleEnds
  <2>2. curr_state \notin {"START_UPDATE", "RESULT_REDIRECT"}
    BY <2>1 DEF TriesInv, OnlyStopped, InStep
  <2>3. new_state' = row.failure /\ last_error' = LastError(row.failure_result)
    BY <2>1, <2>2 DEF Judge
  <2>4. row.failure = "EXITING" /\ row.failure_result = "EXITING"
    BY <1>0, <2>1, TableTopic DEF row
  <2>5. last_error' # "SUCCESS"
    BY <2>3, <2>4 DEF LastError
  <2> QED BY <1>1, <2>1, <2>3, <2>4, <2>5 DEF StaleEnds, Stopping, shared, link
<1> QED BY <1>2, <1>3, <1>4

\* ... and the choice of the next state.
LEMMA DecideTopic ==
  ASSUME TopicInv, DecideStop \/ DecideDownload \/ DecideConnect \/ DecideOther
  PROVE  TopicParts'
<1> USE DEF TopicInv, TopicParts
<1>0. entry \in TableStates
  BY DEF TriesInv, TypeOK, LocalOK
<1>1. /\ pc = "decide" /\ pc' = "loop"
      /\ UNCHANGED <<ota_event, entry, link, app>>
  BY DEF DecideStop, DecideDownload, DecideConnect, DecideOther, Proceed, Goto
<1>2. new_state \in {row.success, row.failure} /\ curr_state \in {entry, "EXITING"}
  BY <1>1 DEF TriesInv, NextByRow, OnlyStopped, InStep
<1>3. topic # "none" =>
        /\ timer' = timer
        /\ \/ curr_state' \in {row.success, row.failure, row.app_stop}
           \/ entry = "DATA_DOWNLOAD" /\ curr_state' = "STORAGE_OPEN"
  <2> SUFFICES ASSUME topic # "none" PROVE <1>3!2
    OBVIOUS
  <2>1. CASE DecideStop \/ DecideOther
    BY <1>2, <2>1 DEF DecideStop, DecideOther, Proceed, SameCounts
  <2>2. CASE DecideDownload
    BY <1>2, <2>2 DEF DecideDownload, DownloadFailed, Proceed
  <2>3. CASE DecideConnect
    <3>1. result = "SUCCESS"
      BY <2>3 DEF DecideConnect, ConnectFailed, StayConnected
    <3> QED BY <1>2, <2>3, <3>1 DEF DecideConnect, Proceed
  <2> QED BY <2>1, <2>2, <2>3
<1>4. StopOnly' /\ OwnLink' /\ StayConnected'
  BY <1>1, <1>3 DEF StopOnly, InStep, OwnLink, DownloadingData, StayConnected, Stopping, link
<1>5. TopicBehind'
  <2> SUFFICES ASSUME topic # "none", ~Stopping PROVE topic' = "current" /\ curr_state' \in TopicStates
    BY <1>1 DEF TopicBehind, Stopping, BeforeFunction, state, link
  <2>1. topic = "current" /\ entry \in KeepStates
    BY <1>1 DEF TopicBehind, BeforeFunction, AfterFunction
  <2>2. {row.success, row.failure, row.app_stop} \subseteq TopicStates
    BY <1>0, <2>1, TableTopic DEF row
  <2> QED BY <1>1, <1>3, <2>1, <2>2 DEF TopicStates, link
<1>6. StaleEnds'
  <2> SUFFICES ASSUME topic = "stale" PROVE StaleEnds'
    BY <1>1 DEF StaleEnds, link
  <2>1. entry = "AGENT_WAITING" /\ new_state = "EXITING" /\ last_error # "SUCCESS" /\ Stopping
    BY <1>1 DEF StaleEnds
  <2>2. row.app_stop = "EXITING"
    BY <1>0, <2>1, TableTopic DEF row
  <2>3. ~DownloadFailed /\ ~ConnectFailed
    BY <1>2, <2>1 DEF DownloadFailed, ConnectFailed, ConnectStates
  <2>4. curr_state' = "EXITING"
    BY <2>1, <2>2, <2>3 DEF DecideStop, DecideDownload, DecideConnect, DecideOther, Proceed
  <2> QED BY <1>1, <2>1, <2>4 DEF StaleEnds, Stopping, link
<1> QED BY <1>4, <1>5, <1>6

\* Every step keeps the inductive invariant.
LEMMA TopicStep ==
  ASSUME AppResults = {"CONTINUE"}, ~AppConnects, TopicInv, [Next]_vars PROVE TopicInv'
<1>1. TriesInv'
  BY TriesStep DEF TopicInv
<1>2. CASE UNCHANGED vars
  BY <1>1, <1>2, TopicKept DEF TopicInv, vars, shared, local, errors, link
<1>3. CASE AppNext \/ TimerExpires \/ Reboot
  BY <1>1, <1>3, AppTopic DEF TopicInv
<1>4. CASE Alive \/ Initialize \/ Loop \/ Lookup \/ Exit
  BY <1>1, <1>4, LoopTopic DEF TopicInv
<1>5. CASE StateFunction \/ WakeUp \/ DownloadEnds
  BY <1>1, <1>5, PlainTopic, LinkTopic, WaitTopic, DownloadTopic DEF TopicInv, StateFunction
<1>6. CASE Callback \/ Judge
  BY <1>1, <1>6, CallbackTopic, JudgeTopic DEF TopicInv
<1>7. CASE DecideStop \/ DecideDownload \/ DecideConnect \/ DecideOther
  BY <1>1, <1>7, DecideTopic DEF TopicInv
<1> QED
  BY <1>2, <1>3, <1>4, <1>5, <1>6, <1>7 DEF Next, AgentNext

\* Whatever fails, and whenever the agent is stopped, the data of a session over
\* MQTT comes on the topic that cy_ota_wait_for_start() named for this very session:
\* no way through the table leads from one session to the next with the old topic
\* still subscribed, but that of a stop, whose agent downloads no more.
THEOREM DataOnOwnTopic ==
  ASSUME AppResults = {"CONTINUE"}, ~AppConnects PROVE Spec => []TopicOfThisSession
<1>1. Init => TopicParts
  BY DEF Init, TopicParts, StopOnly, OwnLink, StayConnected, TopicBehind, StaleEnds, InStep,
         DownloadingData
<1>2. TopicInv /\ [Next]_vars => TopicInv'
  BY TopicStep
<1>3. TopicInv => TopicOfThisSession
  BY DEF TopicInv, TopicParts, TriesInv, TypeOK, LinkOK, OwnLink, StaleEnds, TopicOfThisSession,
         DownloadingData
<1>4. TopicInv <=> TriesInv /\ TopicParts
  BY DEF TopicInv
<1>5. Init => TopicInv
  BY <1>1, <1>4, TypeInit, RetryAssumption
     DEF Init, TriesInv, OnlyStopped, NextByRow, TriesCounted, Ahead, Walking, InStep
<1> QED BY <1>2, <1>3, <1>5, PTL DEF Spec
=============================================================================
