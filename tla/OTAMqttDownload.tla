-------------------------- MODULE OTAMqttDownload --------------------------
(***************************************************************************)
(* One download of the data over MQTT, source/cy_ota_mqtt.c: the agent's   *)
(* thread in cy_ota_mqtt_get_data(), the MQTT library's thread that brings *)
(* every packet to cy_ota_mqtt_callback(), the two timers, and the bits of *)
(* ctx->ota_event by which they all speak to the agent's thread.           *)
(*                                                                         *)
(* Every packet carries one unit of the image: packets differ in nothing   *)
(* but their number.                                                       *)
(***************************************************************************)
EXTENDS Naturals, FiniteSets

CONSTANTS
  NumPackets,       \* total_num_payloads of the image
  MaxPackets,       \* CY_OTA_MAX_PACKETS, the size of received_packets
  TallyRange,       \* 256: received_packets holds uint8_t
  AppResults,       \* what the application's callback may return
  PacketTimeout,    \* packet_timeout_sec > 0
  DataTimeout,      \* data_check_timeout_sec > 0
  EarlyPackets,     \* may packets arrive before the tally is cleared
  BadPackets,       \* may packets arrive that are no chunk, or of an old version
  AppStops,         \* may the application stop the agent
  Deliveries        \* bound: packets that arrive in one download

CallbackResults == {"CONTINUE", "STOP", "APP_SUCCESS", "APP_FAILED"}

ASSUME PacketsAssumption ==
  /\ NumPackets \in Nat \ {0} /\ MaxPackets \in Nat /\ TallyRange \in Nat \ {0, 1}
  /\ Deliveries \in Nat
ASSUME SwitchAssumption ==
  {PacketTimeout, DataTimeout, EarlyPackets, BadPackets, AppStops} \subseteq BOOLEAN
ASSUME AppAssumption == AppResults \subseteq CallbackResults

Packets == 0..(NumPackets - 1)
Tallied == {p \in Packets : p < MaxPackets}

VARIABLES
  \* shared by the threads
  ota_event,            \* the bits of CY_OTA_EVENT_MQTT_EVENTS set
  sub_callback_mutex_inited,
  received_packets,     \* how often each packet came, modulo TallyRange
  total_image_size, total_bytes_written,
  more_packets,         \* num_packets_received > last_num_packets_received
  writes,               \* history: how often each packet was written
  \* the agent's thread
  pc, taken, result,
  \* the callback's thread
  cb, packet, cb_result,
  \* the timers, the broker and the application
  packet_timer, data_timer, broker, stopping,
  delivered             \* history: packets that arrived, see Deliveries

agent    == <<pc, taken, result>>
callback == <<cb, packet, cb_result>>
counts   == <<total_image_size, total_bytes_written>>
world    == <<packet_timer, data_timer, broker, stopping, delivered>>
vars     == <<ota_event, sub_callback_mutex_inited, received_packets, counts,
              more_packets, writes, agent, callback, world>>

\* The statistics are cleared and so are the events; the tally is not yet, it
\* still holds an earlier download's, if there was one.
Init ==
  /\ ota_event = {} /\ sub_callback_mutex_inited = TRUE
  /\ received_packets \in {[p \in Tallied |-> n] : n \in {0, 1}}
  /\ total_image_size = 0 /\ total_bytes_written = 0
  /\ more_packets \in BOOLEAN
  /\ writes = [p \in Packets |-> 0]
  /\ pc = "request" /\ taken = {} /\ result = "SUCCESS"
  /\ cb = "idle" /\ packet = 0 /\ cb_result = "SUCCESS"
  /\ packet_timer = FALSE /\ data_timer = DataTimeout
  /\ broker = TRUE /\ stopping = FALSE /\ delivered = 0

-----------------------------------------------------------------------------
(* The agent's thread: cy_ota_mqtt_get_data()                              *)

Set(event) == ota_event' = ota_event \cup {event}

\* Mutant of Return: the mutex is not marked as gone.
ReturnKeepsMutex(r) ==
  /\ pc' = "done" /\ result' = r /\ taken' = {}
  /\ packet_timer' = FALSE /\ UNCHANGED sub_callback_mutex_inited

\* The end of the function: timer and mutex are given up, whoever holds it.
Return(r) ==
  /\ pc' = "done" /\ result' = r /\ taken' = {}
  /\ packet_timer' = FALSE /\ sub_callback_mutex_inited' = FALSE

unasked == <<ota_event, received_packets, counts, more_packets, callback,
             data_timer, broker, stopping, delivered>>

\* The application is asked first, and may fetch the image itself.
Request(r) ==
  /\ pc = "request" /\ r \in AppResults
  /\ CASE r = "CONTINUE"    -> \/ /\ pc' = "clear"
                                  /\ UNCHANGED <<taken, result, packet_timer,
                                                 sub_callback_mutex_inited>>
                               \/ Return("ERROR_MQTT_PUBLISH")
       [] r = "STOP"        -> Return("APP_RETURNED_STOP")
       [] r = "APP_SUCCESS" -> Return("SUCCESS")
       [] r = "APP_FAILED"  -> Return("ERROR_GET_DATA")
  /\ writes' = IF r = "APP_SUCCESS" THEN [p \in Packets |-> 1] ELSE writes
  /\ UNCHANGED unasked

\* The tally is cleared after the request is out.
ClearTally ==
  /\ pc = "clear"
  /\ received_packets' = [p \in Tallied |-> 0]
  /\ pc' = "loop" /\ packet_timer' = PacketTimeout
  /\ UNCHANGED <<ota_event, sub_callback_mutex_inited, counts, more_packets, writes,
                 taken, result, callback, data_timer, broker, stopping, delivered>>

\* cy_rtos_waitbits_event() takes all the bits at once.
TakeEvents ==
  /\ pc = "loop" /\ ota_event # {}
  /\ pc' = "handle" /\ taken' = ota_event /\ ota_event' = {}
  /\ UNCHANGED <<sub_callback_mutex_inited, received_packets, counts, more_packets,
                 writes, result, callback, world>>

unhandled == <<received_packets, counts, writes, callback, data_timer, broker,
               stopping, delivered>>

\* The bits that end the download at once, in the order the code looks at them,
\* and what each makes of it.
Ends ==
  <<[event |-> "SHUTDOWN_NOW",          result |-> "SUCCESS"],
    [event |-> "DATA_DOWNLOAD_TIMEOUT", result |-> "NO_UPDATE_AVAILABLE"],
    [event |-> "STORAGE_ERROR",         result |-> "ERROR_WRITE_STORAGE"],
    [event |-> "APP_STOPPED_OTA",       result |-> "APP_RETURNED_STOP"]>>

Firsts == {Ends[i].event : i \in 1..4}

HandleEnd ==
  /\ pc = "handle"
  /\ \E i \in 1..4 :
       /\ Ends[i].event \in taken
       /\ \A j \in 1..(i - 1) : Ends[j].event \notin taken
       /\ Return(Ends[i].result)
  /\ ota_event' = ota_event \cup (taken \cap {"SHUTDOWN_NOW"})
  /\ UNCHANGED <<unhandled, more_packets>>

\* Mutant of AllWritten: one packet too early.
AllButOneWritten == total_bytes_written + 1 >= total_image_size

AllWritten == total_bytes_written >= total_image_size

\* Whatever other bits were taken with this one are dropped.
HandleGotData ==
  /\ pc = "handle" /\ taken \cap Firsts = {} /\ "GOT_DATA" \in taken
  /\ IF AllWritten
     THEN Set("DATA_DONE") /\ packet_timer' = FALSE
     ELSE UNCHANGED ota_event /\ packet_timer' = PacketTimeout
  /\ pc' = "loop" /\ taken' = {}
  /\ UNCHANGED <<unhandled, sub_callback_mutex_inited, more_packets, result>>

\* Mutant of StillReceiving: the packets are not forgotten.
StillReceivingForEver ==
  /\ pc = "handle" /\ taken \cap (Firsts \cup {"GOT_DATA"}) = {}
  /\ "PACKET_TIMEOUT" \in taken /\ more_packets
  /\ packet_timer' = PacketTimeout
  /\ pc' = "loop" /\ taken' = {}
  /\ UNCHANGED <<unhandled, ota_event, sub_callback_mutex_inited, result, more_packets>>

\* The packets' timer only counts when none came since the last time; and then
\* the bits taken with it are dropped as well.
StillReceiving ==
  /\ pc = "handle" /\ taken \cap (Firsts \cup {"GOT_DATA"}) = {}
  /\ "PACKET_TIMEOUT" \in taken /\ more_packets
  /\ more_packets' = FALSE /\ packet_timer' = PacketTimeout
  /\ pc' = "loop" /\ taken' = {}
  /\ UNCHANGED <<unhandled, ota_event, sub_callback_mutex_inited, result>>

\* The other bits, in their order; a lost packet is a DATA_FAIL of the next pass.
Lasts ==
  <<[event |-> "DATA_DONE",       result |-> "SUCCESS"],
    [event |-> "INVALID_VERSION", result |-> "INVALID_VERSION"],
    [event |-> "DATA_FAIL",       result |-> "ERROR_GET_DATA"],
    [event |-> "DROPPED_US",      result |-> "ERROR_SERVER_DROPPED"]>>

HandleLast ==
  /\ pc = "handle" /\ taken \cap (Firsts \cup {"GOT_DATA"}) = {}
  /\ "PACKET_TIMEOUT" \in taken => ~more_packets
  /\ IF "PACKET_TIMEOUT" \in taken THEN Set("DATA_FAIL") ELSE UNCHANGED ota_event
  /\ \/ \E i \in 1..4 :
          /\ Lasts[i].event \in taken
          /\ \A j \in 1..(i - 1) : Lasts[j].event \notin taken
          /\ Return(Lasts[i].result)
     \/ /\ taken = {"PACKET_TIMEOUT"}
        /\ pc' = "loop" /\ taken' = {}
        /\ UNCHANGED <<result, packet_timer, sub_callback_mutex_inited>>
  /\ UNCHANGED <<unhandled, more_packets>>

AgentNext ==
  \/ \E r \in CallbackResults : Request(r)
  \/ ClearTally \/ TakeEvents
  \/ HandleEnd \/ HandleGotData \/ StillReceiving \/ HandleLast

-----------------------------------------------------------------------------
(* The callback's thread: cy_ota_mqtt_callback()                           *)

unreceived == <<agent, sub_callback_mutex_inited, packet_timer, data_timer, broker,
                stopping>>

\* A packet comes, is expected, and waits for the mutex.  (The broker may send
\* any packet, and a packet more than once; this includes packets that an
\* earlier request asked for.)
Arrive(p) ==
  /\ cb = "idle" /\ broker /\ delivered < Deliveries
  /\ sub_callback_mutex_inited /\ ~stopping
  /\ pc \in {"request", "clear"} => EarlyPackets
  /\ cb' = "admitted" /\ packet' = p /\ delivered' = delivered + 1
  /\ UNCHANGED <<ota_event, received_packets, counts, more_packets, writes, cb_result,
                 unreceived>>

\* Nobody else wants the mutex; but it may be gone by now, and then it may seem
\* to be had, or not.
NoMutex ==
  /\ cb = "admitted" /\ ~sub_callback_mutex_inited
  /\ cb' = "idle"
  /\ UNCHANGED <<ota_event, received_packets, counts, more_packets, writes, packet,
                 cb_result, delivered, unreceived>>

\* cy_ota_mqtt_parse_chunk() refuses the packet, or the state has changed.
Refuse ==
  /\ cb = "admitted" /\ (BadPackets \/ stopping)
  /\ cb' = "signal"
  /\ cb_result' \in IF stopping THEN {"SUCCESS"} ELSE {"NOT_A_HEADER", "INVALID_VERSION"}
  /\ UNCHANGED <<ota_event, received_packets, counts, more_packets, writes, packet,
                 delivered, unreceived>>

\* Mutant of Duplicate: the second time is not one.
DuplicateLate(count) == count > 2

Duplicate(count) == count > 1

\* cy_ota_mqtt_write_chunk_to_flash() up to the callback: the tally.
Tally ==
  /\ cb = "admitted" /\ ~stopping
  /\ total_image_size' = IF total_image_size = 0 THEN NumPackets ELSE total_image_size
  /\ more_packets' = TRUE
  /\ IF packet \in Tallied
     THEN /\ received_packets' = [received_packets EXCEPT ![packet] = (@ + 1) % TallyRange]
          /\ cb' = IF Duplicate(received_packets'[packet]) THEN "signal" ELSE "write"
     ELSE UNCHANGED received_packets /\ cb' = "write"
  /\ cb_result' = "SUCCESS"
  /\ UNCHANGED <<ota_event, total_bytes_written, writes, packet, delivered, unreceived>>

\* The packet is written by the agent (CONTINUE) or the application (APP_SUCCESS).
WriteChunk(r) ==
  /\ cb = "write" /\ r \in AppResults \cap {"CONTINUE", "APP_SUCCESS"}
  /\ writes' = [writes EXCEPT ![packet] = @ + 1]
  /\ total_bytes_written' = total_bytes_written + 1
  /\ cb' = "signal"
  /\ UNCHANGED <<ota_event, received_packets, total_image_size, more_packets, packet,
                 cb_result, delivered, unreceived>>

\* It is not written: the write fails, or the application fails or stops it.
WriteFails(r) ==
  /\ cb = "write" /\ r \in AppResults \ {"APP_SUCCESS"}
  /\ cb' = "signal"
  /\ cb_result' = IF r = "STOP" THEN "APP_RETURNED_STOP" ELSE "ERROR_WRITE_STORAGE"
  /\ IF r = "CONTINUE" THEN Set("DATA_FAIL") ELSE UNCHANGED ota_event
  /\ UNCHANGED <<received_packets, counts, more_packets, writes, packet, delivered,
                 unreceived>>

\* The callback's result becomes an event, and the mutex is released.
Signal ==
  /\ cb = "signal"
  /\ Set(CASE cb_result = "ERROR_WRITE_STORAGE" -> "STORAGE_ERROR"
           [] cb_result = "APP_RETURNED_STOP"   -> "APP_STOPPED_OTA"
           [] cb_result = "INVALID_VERSION"     -> "INVALID_VERSION"
           [] cb_result = "NOT_A_HEADER"        -> "DATA_FAIL"
           [] OTHER                             -> "GOT_DATA")
  /\ cb' = "idle" /\ packet' = 0 /\ cb_result' = "SUCCESS"
  /\ UNCHANGED <<received_packets, counts, more_packets, writes, delivered, unreceived>>

CallbackNext ==
  \/ NoMutex \/ Refuse \/ Tally \/ Signal
  \/ \E r \in CallbackResults : WriteChunk(r) \/ WriteFails(r)

-----------------------------------------------------------------------------
(* The timers, the broker, the application                                 *)

undisturbed == <<sub_callback_mutex_inited, received_packets, counts, more_packets,
                 writes, agent, callback, delivered>>

\* cy_ota_mqtt_timer_callback()
PacketTimer ==
  /\ packet_timer
  /\ packet_timer' = FALSE /\ Set("PACKET_TIMEOUT")
  /\ UNCHANGED <<undisturbed, data_timer, broker, stopping>>

\* The timer cy_ota_data_download() started, and stops when the download is over.
DataTimer ==
  /\ data_timer /\ pc # "done"
  /\ data_timer' = FALSE /\ Set("DATA_DOWNLOAD_TIMEOUT")
  /\ UNCHANGED <<undisturbed, packet_timer, broker, stopping>>

\* A disconnect of the broker, which the state DATA_DOWNLOAD reports.
BrokerDown ==
  /\ broker /\ cb = "idle" /\ ~stopping
  /\ broker' = FALSE /\ Set("DROPPED_US")
  /\ UNCHANGED <<undisturbed, packet_timer, data_timer, stopping>>

\* cy_ota_agent_stop(): the state is CY_OTA_STATE_EXITING, and the event.
ShutDown ==
  /\ AppStops /\ ~stopping
  /\ stopping' = TRUE /\ Set("SHUTDOWN_NOW")
  /\ UNCHANGED <<undisturbed, packet_timer, data_timer, broker>>

Next ==
  \/ AgentNext \/ CallbackNext \/ \E p \in Packets : Arrive(p)
  \/ PacketTimer \/ DataTimer \/ BrokerDown \/ ShutDown

Spec == Init /\ [][Next]_vars

\* The two threads run, and the timers fire; nobody has to send anything.
FairSpec ==
  /\ Spec
  /\ WF_vars(AgentNext) /\ WF_vars(CallbackNext)
  /\ WF_vars(PacketTimer) /\ WF_vars(DataTimer)

-----------------------------------------------------------------------------
(* Properties                                                              *)

Events == {"SHUTDOWN_NOW", "DATA_DOWNLOAD_TIMEOUT", "STORAGE_ERROR", "APP_STOPPED_OTA",
           "GOT_DATA", "PACKET_TIMEOUT", "DATA_DONE", "INVALID_VERSION", "DATA_FAIL",
           "DROPPED_US"}

\* Every variable of the download keeps to its type.
TypeOK ==
  /\ ota_event \subseteq Events /\ taken \subseteq Events
  /\ sub_callback_mutex_inited = (pc # "done")
  /\ received_packets \in [Tallied -> 0..(TallyRange - 1)]
  /\ total_image_size \in {0, NumPackets} /\ total_bytes_written \in 0..Deliveries
  /\ more_packets \in BOOLEAN /\ writes \in [Packets -> 0..Deliveries + 1]
  /\ pc \in {"request", "clear", "loop", "handle", "done"}
  /\ result \in {Ends[i].result : i \in 1..4} \cup {Lasts[i].result : i \in 1..4}
                 \cup {"ERROR_MQTT_PUBLISH"}
  /\ cb \in {"idle", "admitted", "write", "signal"} /\ packet \in Packets
  /\ cb_result \in {"SUCCESS", "APP_RETURNED_STOP", "ERROR_WRITE_STORAGE",
                    "NOT_A_HEADER", "INVALID_VERSION"}
  /\ packet_timer \in BOOLEAN /\ data_timer \in BOOLEAN
  /\ broker \in BOOLEAN /\ stopping \in BOOLEAN /\ delivered \in 0..Deliveries

\* However often a packet arrives, it is written once ("do not write twice").
WrittenOnce == \A p \in Packets : writes[p] <= 1

Outcome == IF pc # "done" THEN "none" ELSE IF result = "SUCCESS" THEN "success" ELSE "failure"

Download == INSTANCE OTADownload
              WITH parts <- Packets,
                   stored <- {p \in Packets : writes[p] > 0},
                   outcome <- Outcome

\* The MQTT download implements OTADownload: with packets lost, repeated and in
\* any order, and with writes that fail, it succeeds only with the whole image.
IsDownload == Download!Spec

\* With its timers, the download ends whatever the broker does.
DownloadEnds == <>(pc = "done")
=============================================================================
