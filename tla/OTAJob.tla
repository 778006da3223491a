------------------------------- MODULE OTAJob -------------------------------
(* Which server the agent talks to (cy_ota_agent.c): the job document is      *)
(* fetched from the initial connection, names the version, the board and the  *)
(* server of the data, and the result goes back to the initial connection.    *)
(* The agent keeps a type (curr_connect_type) and a pointer (curr_server) to  *)
(* its own parameters or into the parsed job, which every wait clears.        *)
(* OTAAgent has the rest of the sessions: callbacks, events, link, storage.   *)
EXTENDS Integers, Sequences

CONSTANTS
  Initial,       \* network_params.initial_connection: "MQTT", "HTTP" or "HTTPS"
  Params,        \* network_params: [mqtt |-> [host, port], http |-> [host, port]]
  Documents,     \* the job documents a server may answer
  AppVersion,    \* APP_VERSION_MAJOR, _MINOR, _BUILD
  Board,         \* CY_TARGET_BOARD_STRING
  Word,          \* of a version's part and of a port, 2^16 in the code
  SendResult     \* ~do_not_send_result

Types == {"MQTT", "HTTP", "HTTPS"}

ASSUME JobAssumption ==
  /\ Initial \in Types /\ SendResult \in BOOLEAN
  /\ Word \in Nat \ {0}
  /\ AppVersion \in [1..3 -> 0..(Word - 1)]
  /\ \A doc \in Documents :
       /\ doc.version \in Seq(Nat)
       /\ doc.connection \in Types \cup {"absent", "", "other"}
       /\ doc.port \in Nat \cup {-1}

VARIABLES
  curr_state,          \* the row of cy_ota_state_table
  curr_connect_type,
  curr_server,         \* what the pointer points to: "mqtt", "http" or "job"
  job_doc,             \* the document received, or NoDocument
  parsed_job           \* what was parsed of it, or Cleared

vars == <<curr_state, curr_connect_type, curr_server, job_doc, parsed_job>>

NoDocument == [version |-> <<>>, board |-> "", connection |-> "", host |-> "", port |-> -2]
Cleared == [version |-> <<0, 0, 0>>, board |-> "", connect_type |-> "UNKNOWN",
            host |-> "NULL", port |-> 0, parse_result |-> "SUCCESS"]

\* The host and port behind the pointer.
Server == IF curr_server = "job" THEN [host |-> parsed_job.host, port |-> parsed_job.port]
          ELSE Params[curr_server]

Init ==
  /\ curr_state = "AGENT_WAITING"
  /\ curr_connect_type = Initial
  /\ curr_server = IF Initial = "MQTT" THEN "mqtt" ELSE "http"
  /\ job_doc = NoDocument
  /\ parsed_job = Cleared

GoesTo(state) == curr_state' = state
Stays == UNCHANGED <<curr_connect_type, curr_server, job_doc, parsed_job>>

------------------------------------------------------------------------------
\* The server the parameters give for a type.
HomeOf(type) == IF type = "MQTT" THEN "mqtt" ELSE "http"

\* cy_ota_wait_for_start(): forgets the last job, then waits for its event.
WaitForStart ==
  /\ curr_state = "AGENT_WAITING"
  /\ GoesTo("START_UPDATE")
  /\ job_doc' = NoDocument /\ parsed_job' = Cleared
  /\ UNCHANGED <<curr_connect_type, curr_server>>

\* Mutant of DetermineFlow: the server stays as the last session left it.
DetermineFlowKeeps == curr_state = "START_UPDATE" /\ GoesTo("JOB_CONNECT") /\ Stays

\* cy_ota_determine_flow(): the parameters' server for the type as it is now.
DetermineFlow ==
  /\ curr_state = "START_UPDATE"
  /\ GoesTo("JOB_CONNECT")
  /\ curr_server' = HomeOf(curr_connect_type)
  /\ UNCHANGED <<curr_connect_type, job_doc, parsed_job>>

\* Connecting for the job, the data or the result: a failure waits to retry.
Connect ==
  /\ \/ curr_state = "JOB_CONNECT" /\ curr_state' \in {"JOB_DOWNLOAD", "AGENT_WAITING"}
     \/ curr_state = "DATA_CONNECT" /\ curr_state' \in {"DATA_DOWNLOAD", "AGENT_WAITING"}
     \/ curr_state = "RESULT_CONNECT" /\ curr_state' \in {"RESULT_SEND", "AGENT_WAITING"}
  /\ Stays

\* The document arrives or does not; the disconnect that follows may fail.
JobDownload ==
  /\ curr_state = "JOB_DOWNLOAD"
  /\ job_doc' \in Documents \cup {NoDocument}
  /\ curr_state' \in {"JOB_PARSE", "OTA_COMPLETE"}
  /\ UNCHANGED <<curr_connect_type, curr_server, parsed_job>>

\* Mutant of TooOld: an older part refuses, wherever it is.
TooOldByParts(v) == \E i \in 1..3 : AppVersion[i] > v[i]
\* The comparison with the application's version: the lowest part must differ.
TooOld(v) ==
  \/ AppVersion[1] > v[1]
  \/ AppVersion[1] = v[1] /\ AppVersion[2] + 1 > v[2] + 1
  \/ AppVersion[1] = v[1] /\ AppVersion[2] = v[2] /\ AppVersion[3] + 1 >= v[3] + 1

\* The fields as cy_OTA_JSON_callback() takes them: a version needs two dots, a
\* number wraps, and a connection is compared as far as its text goes, so that
\* an empty one is MQTT.
Malformed(doc) == Len(doc.version) \in {1, 2} \/ doc.connection = "other"
VersionOf(doc) == IF doc.version = <<>> THEN <<0, 0, 0>> ELSE [i \in 1..3 |-> doc.version[i] % Word]
TypeOf(doc) ==
  IF doc.connection = "absent" THEN curr_connect_type
  ELSE IF doc.connection = "" THEN "MQTT" ELSE doc.connection
HostOf(doc) == IF doc.host = "" THEN Server.host ELSE doc.host
PortOf(doc) == IF doc.port = -1 THEN Server.port ELSE doc.port % Word

\* No change: the same type, and a host and port that are ours or not given.
SameServer(doc) ==
  /\ TypeOf(doc) = curr_connect_type
  /\ HostOf(doc) = Server.host
  /\ PortOf(doc) \in {0, Server.port}

\* cy_ota_parse_job_info(): the first check that fails is the result.
ParseResult(doc) ==
  IF doc = NoDocument THEN "BADARG"
  ELSE IF Malformed(doc) THEN "MALFORMED"
  ELSE IF TooOld(VersionOf(doc)) THEN "INVALID_VERSION"
  ELSE IF doc.board # Board THEN "WRONG_BOARD"
  ELSE IF SameServer(doc) THEN "SUCCESS"
  ELSE "CHANGING_SERVER"

JobParse ==
  /\ curr_state = "JOB_PARSE"
  /\ LET result == ParseResult(job_doc)
     IN  /\ parsed_job' =
              IF result \in {"BADARG", "MALFORMED"} THEN [parsed_job EXCEPT !.parse_result = result]
              ELSE [version |-> VersionOf(job_doc), board |-> job_doc.board,
                    connect_type |-> TypeOf(job_doc), host |-> HostOf(job_doc),
                    port |-> IF result = "SUCCESS" THEN Server.port ELSE PortOf(job_doc),
                    parse_result |-> result]
         /\ GoesTo(IF result \in {"SUCCESS", "CHANGING_SERVER"} THEN "JOB_REDIRECT" ELSE "RESULT_REDIRECT")
  /\ UNCHANGED <<curr_connect_type, curr_server, job_doc>>

\* Mutant of Moves: the host alone decides whether the pointer moves.
MovesByHost == parsed_job.host # Server.host
\* cy_ota_setup_connection_type() in JOB_REDIRECT: a new host or a new port.
Moves == parsed_job.host # Server.host \/ parsed_job.port # Server.port

JobRedirect ==
  /\ curr_state = "JOB_REDIRECT"
  /\ GoesTo("STORAGE_OPEN")
  /\ IF parsed_job.parse_result = "CHANGING_SERVER"
     THEN /\ curr_connect_type' = parsed_job.connect_type
          /\ curr_server' = IF Moves THEN "job" ELSE curr_server
     ELSE UNCHANGED <<curr_connect_type, curr_server>>
  /\ UNCHANGED <<job_doc, parsed_job>>

\* The slot is opened, or the session goes on to its report.
StorageOpen ==
  /\ curr_state = "STORAGE_OPEN"
  /\ curr_state' \in {"DATA_CONNECT", "RESULT_REDIRECT"}
  /\ Stays

\* The download, up to its retry or the verification; a disconnect may fail.
DataDownload ==
  /\ curr_state = "DATA_DOWNLOAD"
  /\ curr_state' \in {"STORAGE_OPEN", "RESULT_REDIRECT"}
  /\ Stays

\* cy_ota_result_redirect(): back to the initial connection, unless nothing is
\* to be sent.  A pointer that moved is no success, and skips the report.
ResultRedirect ==
  /\ curr_state = "RESULT_REDIRECT"
  /\ IF SendResult
     THEN /\ curr_connect_type' = Initial
          /\ curr_server' = HomeOf(Initial)
          /\ GoesTo(IF curr_server' = curr_server THEN "RESULT_CONNECT" ELSE "OTA_COMPLETE")
     ELSE GoesTo("OTA_COMPLETE") /\ UNCHANGED <<curr_connect_type, curr_server>>
  /\ UNCHANGED <<job_doc, parsed_job>>

ResultSend == curr_state = "RESULT_SEND" /\ GoesTo("OTA_COMPLETE") /\ Stays

\* cy_ota_complete(): waits for the next check, or resets the device.
Complete ==
  /\ curr_state = "OTA_COMPLETE"
  /\ GoesTo("AGENT_WAITING")
  /\ \/ Stays
     \/ /\ curr_connect_type' = Initial /\ curr_server' = HomeOf(Initial)
        /\ job_doc' = NoDocument /\ parsed_job' = Cleared

\* The application's callback stops the session: app_stop_state, whose rows
\* lead to the end without another redirect.
AppStops ==
  /\ curr_state \notin {"AGENT_WAITING", "OTA_COMPLETE"}
  /\ GoesTo("OTA_COMPLETE")
  /\ Stays

Next ==
  \/ WaitForStart \/ DetermineFlow \/ Connect \/ JobDownload \/ JobParse \/ JobRedirect
  \/ StorageOpen \/ DataDownload \/ ResultRedirect \/ ResultSend \/ Complete \/ AppStops

Spec == Init /\ [][Next]_vars

------------------------------------------------------------------------------
(* Properties                                                                 *)

States == {"AGENT_WAITING", "START_UPDATE", "JOB_CONNECT", "JOB_DOWNLOAD", "JOB_PARSE",
           "JOB_REDIRECT", "STORAGE_OPEN", "DATA_CONNECT", "DATA_DOWNLOAD",
           "RESULT_REDIRECT", "RESULT_CONNECT", "RESULT_SEND", "OTA_COMPLETE"}
Storing == {"STORAGE_OPEN", "DATA_CONNECT", "DATA_DOWNLOAD"}

\* The agent's row, its type and its pointer stay within their ranges.
TypeOK ==
  /\ curr_state \in States
  /\ curr_connect_type \in Types
  /\ curr_server \in {"mqtt", "http", "job"}

\* The server in use is the one that the job names: its type, its host and its
\* port, each where it is named; without any of them, the job's own server.
IsNamedServer ==
  /\ job_doc.connection \in Types => curr_connect_type = job_doc.connection
  /\ job_doc.host # "" => Server.host = job_doc.host
  /\ job_doc.port \in 1..(Word - 1) => Server.port = job_doc.port
  /\ job_doc.connection = "absent" /\ job_doc.host = "" /\ job_doc.port \in {-1, 0}
       => Server = Params[HomeOf(curr_connect_type)]

\* Data is taken only from the server that the job names
\* (cy_ota_parse_job_info, cy_ota_job_redirect).
DataFromJobServer == curr_state = "DATA_DOWNLOAD" => IsNamedServer

\* The first part that differs decides.
Newer(v, w) == \E i \in 1..3 : v[i] > w[i] /\ \A j \in 1..(i - 1) : v[j] = w[j]

\* The slot is opened and written only for a job for this board with a version
\* above the application's, whatever is missing in it or wraps
\* (the checks of cy_ota_parse_job_info).
UpdatesAreNewer ==
  curr_state \in Storing =>
    /\ job_doc.board = Board
    /\ Len(job_doc.version) >= 3 => Newer(job_doc.version, AppVersion)
    /\ Len(job_doc.version) < 3 => Newer(<<0, 0, 0>>, AppVersion)

\* A session never uses a server that the wait has cleared; a job is asked for
\* at the parameters' server of the current type, and a result is sent to the
\* initial connection (cy_ota_determine_flow, cy_ota_result_redirect).
KnowsItsServer ==
  /\ curr_state \notin {"AGENT_WAITING", "START_UPDATE", "OTA_COMPLETE"} /\ curr_server = "job"
       => parsed_job.parse_result = "CHANGING_SERVER"
  /\ curr_state \in {"JOB_CONNECT", "JOB_DOWNLOAD", "JOB_PARSE"}
       => curr_server = HomeOf(curr_connect_type)
  /\ curr_state \in {"RESULT_CONNECT", "RESULT_SEND"}
       => curr_connect_type = Initial /\ curr_server = HomeOf(Initial)

\* The job is asked for over the initial connection (README.md of the library,
\* on initial_connection).  It is not, after a session that a job redirected to
\* another type and that ended without cy_ota_result_redirect().
JobFromInitial == curr_state = "JOB_DOWNLOAD" => curr_connect_type = Initial
=============================================================================
