------------------------ MODULE OTAMqttDownloadProofs ------------------------
(***************************************************************************)
(* Theorems about the MQTT download of OTAMqttDownload, for every number   *)
(* of packets and every order, loss and repetition of them: its variables  *)
(* keep to their types, no packet is written twice, and the download is a  *)
(* success only with the whole image.                                      *)
(***************************************************************************)
EXTENDS OTAMqttDownload, FiniteSetTheorems, TLAPS

-----------------------------------------------------------------------------
(* Type correctness                                                        *)

Results == {"SUCCESS", "NO_UPDATE_AVAILABLE", "ERROR_WRITE_STORAGE", "APP_RETURNED_STOP",
            "INVALID_VERSION", "ERROR_GET_DATA", "ERROR_SERVER_DROPPED", "ERROR_MQTT_PUBLISH"}

\* The results of the two tables of events are results of the download.
LEMMA ResultsAre ==
  {Ends[i].result : i \in 1..4} \cup {Lasts[i].result : i \in 1..4}
    \cup {"ERROR_MQTT_PUBLISH"} = Results
<1>1. 1..4 = {1, 2, 3, 4}
  OBVIOUS
<1>2. {Ends[i].result : i \in 1..4} =
        {"SUCCESS", "NO_UPDATE_AVAILABLE", "ERROR_WRITE_STORAGE", "APP_RETURNED_STOP"}
  BY <1>1 DEF Ends
<1>3. {Lasts[i].result : i \in 1..4} =
        {"SUCCESS", "INVALID_VERSION", "ERROR_GET_DATA", "ERROR_SERVER_DROPPED"}
  BY <1>1 DEF Lasts
<1> QED BY <1>2, <1>3 DEF Results

\* Packets that were let in and not yet tallied or written.
InHand == IF cb \in {"admitted", "write"} THEN 1 ELSE 0

\* What was written is no more than what arrived, and the application's own
\* download is one write more.
CountsOK ==
  /\ total_bytes_written + InHand <= delivered
  /\ \A p \in Packets : writes[p] <= total_bytes_written + 1

TypeInv == TypeOK /\ CountsOK

LEMMA TypeInit == Init => TypeInv
<1> SUFFICES ASSUME Init PROVE TypeInv
  OBVIOUS
<1>1. 0 \in Packets
  BY PacketsAssumption DEF Packets
<1>2. received_packets \in [Tallied -> 0..(TallyRange - 1)]
  BY PacketsAssumption DEF Init
<1>3. writes \in [Packets -> 0..Deliveries + 1] /\ total_bytes_written \in 0..Deliveries
      /\ delivered \in 0..Deliveries
  BY PacketsAssumption DEF Init
<1>4. CountsOK
  BY DEF Init, CountsOK, InHand
<1>5. result \in {Ends[i].result : i \in 1..4} \cup {Lasts[i].result : i \in 1..4}
                   \cup {"ERROR_MQTT_PUBLISH"}
  BY ResultsAre DEF Init, Results
<1> QED BY <1>1, <1>2, <1>3, <1>4, <1>5, SwitchAssumption DEF Init, TypeInv, TypeOK

\* What a step of the agent's thread does to the variables of the others.
LEMMA AgentTypes == ASSUME TypeInv, AgentNext PROVE TypeInv'
<1> USE DEF TypeInv, CountsOK, InHand
<1>1. /\ ota_event \subseteq Events /\ taken \subseteq Events
      /\ sub_callback_mutex_inited = (pc # "done")
      /\ result \in Results
      /\ pc \in {"request", "clear", "loop", "handle", "done"}
      /\ packet_timer \in BOOLEAN /\ more_packets \in BOOLEAN
      /\ received_packets \in [Tallied -> 0..(TallyRange - 1)]
      /\ writes \in [Packets -> 0..Deliveries + 1]
  BY ResultsAre DEF TypeOK
<1>2. /\ ota_event' \subseteq Events /\ taken' \subseteq Events
      /\ sub_callback_mutex_inited' = (pc' # "done")
      /\ pc' \in {"request", "clear", "loop", "handle", "done"}
      /\ result' \in Results
      /\ packet_timer' \in BOOLEAN /\ more_packets' \in BOOLEAN
      /\ received_packets' \in [Tallied -> 0..(TallyRange - 1)]
      /\ writes' \in [Packets -> 0..Deliveries + 1]
      /\ writes' = writes \/ writes' = [p \in Packets |-> 1]
      /\ UNCHANGED <<counts, callback, data_timer, broker, stopping, delivered>>
  <2>1. CASE \E r \in CallbackResults : Request(r)
    <3> PICK r \in CallbackResults : Request(r)
      BY <2>1
    <3>1. \/ \E q \in Results : Return(q)
          \/ pc' = "clear" /\ UNCHANGED <<taken, result, packet_timer, sub_callback_mutex_inited>>
      BY DEF Request, CallbackResults, Results
    <3>2. writes' = writes \/ writes' = [p \in Packets |-> 1]
      BY DEF Request
    <3>3. writes' \in [Packets -> 0..Deliveries + 1]
      BY <1>1, <3>2, PacketsAssumption
    <3>4. pc = "request" /\ UNCHANGED unasked
      BY DEF Request
    <3> QED BY <1>1, <3>1, <3>2, <3>3, <3>4 DEF Return, unasked
  <2>2. CASE ClearTally
    BY <1>1, <2>2, PacketsAssumption, SwitchAssumption DEF ClearTally, counts
  <2>3. CASE TakeEvents
    BY <1>1, <2>3 DEF TakeEvents, world
  <2>4. CASE HandleEnd
    <3>1. /\ \E r \in Results : Return(r)
          /\ ota_event' \subseteq Events
      BY <1>1, <2>4, ResultsAre DEF HandleEnd
    <3> QED BY <1>1, <2>4, <3>1 DEF HandleEnd, Return, unhandled
  <2>5. CASE HandleGotData
    BY <1>1, <2>5, SwitchAssumption DEF HandleGotData, unhandled, Set, Events
  <2>6. CASE StillReceiving
    BY <1>1, <2>6, SwitchAssumption DEF StillReceiving, unhandled
  <2>7. CASE HandleLast
    <3>1. /\ \/ \E r \in Results : Return(r)
             \/ /\ pc' = "loop" /\ taken' = {}
                /\ UNCHANGED <<result, packet_timer, sub_callback_mutex_inited>>
          /\ ota_event' \subseteq Events
          /\ pc = "handle"
      BY <1>1, <2>7, ResultsAre DEF HandleLast, Set, Events
    <3> QED BY <1>1, <2>7, <3>1 DEF HandleLast, Return, unhandled
  <2> QED BY <2>1, <2>2, <2>3, <2>4, <2>5, <2>6, <2>7 DEF AgentNext
<1>3. CountsOK'
  BY <1>2 DEF TypeOK, counts, callback
<1> QED BY <1>2, <1>3, ResultsAre DEF TypeOK, counts, callback

\* The callback's thread.
LEMMA CallbackTypes == ASSUME TypeInv, CallbackNext PROVE TypeInv'
<1> USE DEF TypeInv, CountsOK, InHand, TypeOK, unreceived, agent, counts
<1>0. 0 \in Packets
  BY PacketsAssumption DEF Packets
<1>1. CASE NoMutex
  BY <1>1 DEF NoMutex
<1>2. CASE Refuse
  BY <1>2 DEF Refuse
<1>3. CASE Tally
  <2>1. received_packets' \in [Tallied -> 0..(TallyRange - 1)]
    <3>1. \A n \in 0..(TallyRange - 1) : (n + 1) % TallyRange \in 0..(TallyRange - 1)
      BY PacketsAssumption
    <3> QED BY <1>3, <3>1 DEF Tally
  <2> QED BY <1>3, <2>1 DEF Tally
<1>4. CASE Signal
  BY <1>0, <1>4 DEF Signal, Set, Events
<1>5. ASSUME NEW r \in CallbackResults, WriteChunk(r) PROVE TypeInv'
  <2>1. total_bytes_written' \in 0..Deliveries /\ delivered' = delivered
        /\ total_bytes_written' = total_bytes_written + 1 /\ total_bytes_written' <= delivered
    BY <1>5, PacketsAssumption DEF WriteChunk
  <2>2. \A p \in Packets : writes'[p] \in 0..Deliveries + 1 /\ writes'[p] <= total_bytes_written' + 1
    BY <1>5, <2>1, PacketsAssumption DEF WriteChunk
  <2>3. writes' \in [Packets -> 0..Deliveries + 1]
    BY <1>5, <2>2 DEF WriteChunk
  <2> QED BY <1>5, <2>1, <2>2, <2>3 DEF WriteChunk
<1>6. ASSUME NEW r \in CallbackResults, WriteFails(r) PROVE TypeInv'
  <2>1. /\ cb' = "signal" /\ ota_event' \subseteq Events
        /\ cb_result' \in {"APP_RETURNED_STOP", "ERROR_WRITE_STORAGE"}
    BY <1>6 DEF WriteFails, Set, Events
  <2>2. /\ UNCHANGED <<received_packets, counts, more_packets, writes, packet, delivered>>
        /\ UNCHANGED unreceived
    BY <1>6 DEF WriteFails
  <2> QED BY <2>1, <2>2
<1> QED BY <1>1, <1>2, <1>3, <1>4, <1>5, <1>6 DEF CallbackNext

\* The broker, the timers and the application.
LEMMA WorldTypes ==
  ASSUME TypeInv,
         (\E p \in Packets : Arrive(p)) \/ PacketTimer \/ DataTimer \/ BrokerDown \/ ShutDown
  PROVE  TypeInv'
<1> USE DEF TypeInv, CountsOK, InHand, TypeOK
<1>1. ASSUME NEW p \in Packets, Arrive(p) PROVE TypeInv'
  <2>1. delivered' \in 0..Deliveries /\ delivered' = delivered + 1
    BY <1>1, PacketsAssumption DEF Arrive
  <2>2. CountsOK'
    BY <1>1, <2>1 DEF Arrive, counts
  <2>3. cb' = "admitted" /\ packet' \in Packets
    BY <1>1 DEF Arrive
  <2>4. /\ UNCHANGED <<ota_event, received_packets, total_image_size, total_bytes_written>>
        /\ UNCHANGED <<more_packets, writes, cb_result, pc, taken, result>>
        /\ UNCHANGED <<sub_callback_mutex_inited, packet_timer, data_timer, broker, stopping>>
    BY <1>1 DEF Arrive, unreceived, agent, counts
  <2> QED BY <2>1, <2>2, <2>3, <2>4
<1>2. ASSUME PacketTimer \/ DataTimer \/ BrokerDown \/ ShutDown PROVE TypeInv'
  <2>1. /\ ota_event' \subseteq Events
        /\ packet_timer' \in BOOLEAN /\ data_timer' \in BOOLEAN
        /\ broker' \in BOOLEAN /\ stopping' \in BOOLEAN
    BY <1>2 DEF PacketTimer, DataTimer, BrokerDown, ShutDown, Set, Events
  <2>2. UNCHANGED undisturbed
    BY <1>2 DEF PacketTimer, DataTimer, BrokerDown, ShutDown
  <2> QED BY <2>1, <2>2 DEF undisturbed, agent, counts, callback
<1> QED BY <1>1, <1>2

\* Every step of the download keeps every variable in its type.
LEMMA TypeStep == TypeInv /\ [Next]_vars => TypeInv'
<1> SUFFICES ASSUME TypeInv, [Next]_vars PROVE TypeInv'
  OBVIOUS
<1>1. CASE UNCHANGED vars
  BY <1>1 DEF vars, agent, callback, counts, world, TypeInv, TypeOK, CountsOK, InHand
<1> QED BY <1>1, AgentTypes, CallbackTypes, WorldTypes DEF Next

\* Every variable of the download keeps to its type, whatever arrives and
\* whatever the application and the timers do.
THEOREM MqttTypeCorrect == Spec => []TypeOK
<1>1. Init => TypeInv
  BY TypeInit
<1>2. TypeInv /\ [Next]_vars => TypeInv'
  BY TypeStep
<1>3. TypeInv => TypeOK
  BY DEF TypeInv
<1> QED BY <1>1, <1>2, <1>3, PTL DEF Spec

-----------------------------------------------------------------------------
(* No packet is written twice: when no packet arrives before the tally is  *)
(* cleared, the tally has a place for every packet, and no packet comes so *)
(* often that its count wraps.                                             *)

\* A download that runs, or one that is over with a callback still on its way.
Active == pc \in {"loop", "handle"} \/ (pc = "done" /\ cb # "idle")

\* No packet came as often as its tally can count.
TallyHolds == Active => \A p \in Tallied : received_packets[p] < TallyRange - 1

\* Before the loop nothing has come; in it, the tally knows what was written,
\* and a packet that is about to be written was not.
TallyInv ==
  /\ pc \in {"request", "clear"} => cb = "idle" /\ \A p \in Packets : writes[p] = 0
  /\ Active => \A p \in Packets : writes[p] > 0 => received_packets[p] > 0
  /\ cb = "write" => writes[packet] = 0 /\ received_packets[packet] > 0

OnceInv == TypeInv /\ TallyInv /\ WrittenOnce

LEMMA OnceInit == Init => OnceInv
<1> SUFFICES ASSUME Init PROVE OnceInv
  OBVIOUS
<1>1. TypeInv
  BY TypeInit
<1>2. TallyInv
  BY DEF Init, TallyInv, Active
<1>3. WrittenOnce
  BY DEF Init, WrittenOnce
<1> QED BY <1>1, <1>2, <1>3 DEF OnceInv

\* What the agent's thread does to the writes: nothing but the application's
\* own download, of everything and only before the loop.
LEMMA AgentSteps ==
  ASSUME AgentNext
  PROVE  /\ UNCHANGED <<callback, counts>>
         /\ pc = "request" =>
              \/ pc' = "clear" /\ writes' = writes
              \/ pc' = "done" /\ writes' \in {writes, [p \in Packets |-> 1]}
         /\ pc # "request" => writes' = writes /\ pc \in {"clear", "loop", "handle"}
         /\ pc = "clear" => pc' = "loop"
         /\ pc \in {"loop", "handle"} =>
              received_packets' = received_packets /\ pc' \in {"loop", "handle", "done"}
<1>1. CASE \E r \in CallbackResults : Request(r)
  <2> PICK r \in CallbackResults : Request(r)
    BY <1>1
  <2>1. pc = "request" /\ UNCHANGED <<callback, counts>>
    BY DEF Request, unasked
  <2>2. (pc' = "clear" /\ r = "CONTINUE") \/ pc' = "done"
    BY DEF Request, Return, CallbackResults
  <2>3. writes' = IF r = "APP_SUCCESS" THEN [p \in Packets |-> 1] ELSE writes
    BY DEF Request
  <2> QED BY <2>1, <2>2, <2>3
<1>2. CASE ClearTally
  BY <1>2 DEF ClearTally
<1>3. CASE TakeEvents
  BY <1>3 DEF TakeEvents
<1>4. CASE HandleEnd
  BY <1>4 DEF HandleEnd, Return, unhandled
<1>5. CASE HandleGotData \/ StillReceiving
  BY <1>5 DEF HandleGotData, StillReceiving, unhandled
<1>6. CASE HandleLast
  BY <1>6 DEF HandleLast, Return, unhandled
<1> QED BY <1>1, <1>2, <1>3, <1>4, <1>5, <1>6 DEF AgentNext

LEMMA AgentOnce ==
  ASSUME OnceInv, AgentNext
  PROVE  TallyInv' /\ WrittenOnce'
<1> USE DEF OnceInv, TallyInv, WrittenOnce, Active
<1>1. cb' = cb /\ packet' = packet
  BY AgentSteps DEF callback
<1>2. CASE pc = "request"
  BY <1>1, <1>2, AgentSteps
<1>3. CASE pc = "clear"
  BY <1>1, <1>3, AgentSteps
<1>4. CASE pc \in {"loop", "handle"}
  BY <1>1, <1>4, AgentSteps
<1> QED BY <1>2, <1>3, <1>4, AgentSteps

LEMMA CallbackOnce ==
  ASSUME ~EarlyPackets, NumPackets <= MaxPackets, OnceInv, TallyHolds, CallbackNext
  PROVE  TallyInv' /\ WrittenOnce'
<1> USE DEF OnceInv, TallyInv, WrittenOnce, Active
<1>1. cb # "idle" /\ pc \notin {"request", "clear"} /\ pc' = pc /\ packet \in Packets
  BY DEF CallbackNext, NoMutex, Refuse, Tally, Signal, WriteChunk, WriteFails, unreceived, agent,
         TypeInv, TypeOK
<1>2. CASE NoMutex \/ Refuse \/ Signal
  BY <1>1, <1>2 DEF NoMutex, Refuse, Signal
<1>3. ASSUME NEW r \in CallbackResults, WriteFails(r) PROVE TallyInv' /\ WrittenOnce'
  BY <1>1, <1>3 DEF WriteFails
<1>4. ASSUME NEW r \in CallbackResults, WriteChunk(r) PROVE TallyInv' /\ WrittenOnce'
  <2>1. writes' = [writes EXCEPT ![packet] = 1] /\ writes \in [Packets -> 0..Deliveries + 1]
    BY <1>1, <1>4 DEF WriteChunk, TypeInv, TypeOK
  <2>2. cb = "write" /\ cb' = "signal" /\ received_packets' = received_packets
    BY <1>4 DEF WriteChunk
  <2>3. \A p \in Packets : writes'[p] > 0 => received_packets[p] > 0
    BY <1>1, <2>1, <2>2 DEF TypeInv, TypeOK
  <2>4. WrittenOnce'
    BY <1>1, <2>1
  <2> QED BY <1>1, <2>2, <2>3, <2>4
<1>5. CASE Tally
  <2>1. packet \in Tallied /\ received_packets \in [Tallied -> 0..(TallyRange - 1)]
    BY <1>1, PacketsAssumption DEF Tallied, Packets, TypeInv, TypeOK
  <2>2. received_packets[packet] < TallyRange - 1 /\ received_packets[packet] \in 0..(TallyRange - 1)
    BY <1>1, <2>1 DEF TallyHolds, TypeInv, TypeOK
  <2>3. (received_packets[packet] + 1) % TallyRange = received_packets[packet] + 1
    BY <2>2, PacketsAssumption
  <2>4. received_packets' = [received_packets EXCEPT ![packet] = @ + 1]
    BY <1>5, <2>1, <2>3 DEF Tally
  <2>5. \A p \in Packets : received_packets[p] > 0 => received_packets'[p] > 0
    BY <2>1, <2>2, <2>4, PacketsAssumption DEF Tallied, Packets
  <2>6. received_packets'[packet] = received_packets[packet] + 1
    BY <2>1, <2>4
  <2>7. cb' = (IF received_packets'[packet] > 1 THEN "signal" ELSE "write")
        /\ writes' = writes /\ packet' = packet
    BY <1>5, <2>1 DEF Tally, Duplicate
  <2>8. cb' = "write" => received_packets[packet] = 0 /\ writes[packet] = 0
    <3>1. writes[packet] \in Nat
      BY <1>1, PacketsAssumption DEF TypeInv, TypeOK
    <3>2. cb' = "write" => received_packets[packet] = 0
      BY <2>2, <2>6, <2>7, PacketsAssumption
    <3>3. Active
      BY <1>1 DEF TypeInv, TypeOK
    <3> QED BY <1>1, <3>1, <3>2, <3>3
  <2>9. cb' = "write" => received_packets'[packet] > 0
    BY <2>2, <2>6
  <2> QED BY <1>1, <2>5, <2>7, <2>8, <2>9
<1> QED BY <1>2, <1>3, <1>4, <1>5 DEF CallbackNext

LEMMA WorldOnce ==
  ASSUME ~EarlyPackets, OnceInv,
         (\E p \in Packets : Arrive(p)) \/ PacketTimer \/ DataTimer \/ BrokerDown \/ ShutDown
  PROVE  TallyInv' /\ WrittenOnce'
<1> USE DEF OnceInv, TallyInv, WrittenOnce, Active
<1>1. ASSUME NEW p \in Packets, Arrive(p) PROVE TallyInv' /\ WrittenOnce'
  <2>1. pc \notin {"request", "clear", "done"} /\ cb' = "admitted"
    BY <1>1 DEF Arrive, TypeInv, TypeOK
  <2>2. UNCHANGED <<pc, writes, received_packets>>
    BY <1>1 DEF Arrive, unreceived, agent
  <2>3. pc \in {"loop", "handle"}
    BY <2>1 DEF TypeInv, TypeOK
  <2> QED BY <2>1, <2>2, <2>3
<1>2. CASE PacketTimer \/ DataTimer \/ BrokerDown \/ ShutDown
  BY <1>2 DEF PacketTimer, DataTimer, BrokerDown, ShutDown, undisturbed, agent, callback
<1> QED BY <1>1, <1>2

LEMMA OnceStep ==
  ASSUME ~EarlyPackets, NumPackets <= MaxPackets
  PROVE  OnceInv /\ TallyHolds /\ [Next]_vars => OnceInv'
<1> SUFFICES ASSUME OnceInv, TallyHolds, [Next]_vars PROVE OnceInv'
  OBVIOUS
<1>1. TypeInv'
  BY TypeStep DEF OnceInv
<1>2. CASE UNCHANGED vars
  BY <1>1, <1>2 DEF vars, agent, callback, OnceInv, TallyInv, Active, WrittenOnce
<1> QED BY <1>1, <1>2, AgentOnce, CallbackOnce, WorldOnce DEF Next, OnceInv

\* However often and in whatever order the packets arrive, no packet is written
\* twice ("do not write twice"), as long as no count of the tally wraps.
THEOREM MqttWrittenOnce ==
  ASSUME ~EarlyPackets, NumPackets <= MaxPackets
  PROVE  Spec /\ []TallyHolds => []WrittenOnce
<1>1. Init => OnceInv
  BY OnceInit
<1>2. OnceInv /\ TallyHolds /\ [Next]_vars => OnceInv'
  BY OnceStep
<1>3. OnceInv => WrittenOnce
  BY DEF OnceInv
<1> QED BY <1>1, <1>2, <1>3, PTL DEF Spec

\* The tally counts what arrived.
CountInv ==
  /\ TypeInv
  /\ pc \in {"request", "clear"} => cb = "idle"
  /\ Active => \A p \in Tallied :
                 received_packets[p] + (IF cb = "admitted" THEN 1 ELSE 0) <= delivered

LEMMA CountStep ==
  ASSUME ~EarlyPackets
  PROVE  CountInv /\ [Next]_vars => CountInv'
<1> SUFFICES ASSUME CountInv, [Next]_vars PROVE CountInv'
  OBVIOUS
<1>0. TypeInv'
  BY TypeStep DEF CountInv
<1>1. \A p \in Tallied : received_packets[p] \in 0..(TallyRange - 1)
  BY DEF CountInv, TypeInv, TypeOK
<1>2. delivered \in 0..Deliveries /\ pc \in {"request", "clear", "loop", "handle", "done"}
  BY DEF CountInv, TypeInv, TypeOK
<1> USE DEF CountInv, Active
<1>3. CASE AgentNext
  <2>1. UNCHANGED <<cb, delivered>>
    <3>1. CASE \E r \in CallbackResults : Request(r)
      BY <3>1 DEF Request, unasked, callback
    <3>2. CASE ClearTally \/ TakeEvents
      BY <3>2 DEF ClearTally, TakeEvents, callback, world
    <3>3. CASE HandleEnd \/ HandleGotData \/ StillReceiving \/ HandleLast
      BY <3>3 DEF HandleEnd, HandleGotData, StillReceiving, HandleLast, unhandled, callback
    <3> QED BY <1>3, <3>1, <3>2, <3>3 DEF AgentNext
  <2>2. CASE pc = "clear"
    <3>1. received_packets' = [p \in Tallied |-> 0] /\ cb = "idle" /\ pc' = "loop"
      BY <1>3, <2>2 DEF AgentNext, Request, ClearTally, TakeEvents, HandleEnd, HandleGotData,
                        StillReceiving, HandleLast
    <3> QED BY <1>0, <1>2, <2>1, <3>1, PacketsAssumption
  <2>3. CASE pc = "request"
    BY <1>0, <1>3, <2>1, <2>3, AgentSteps
  <2>4. CASE pc \in {"loop", "handle"}
    BY <1>0, <1>3, <2>1, <2>4, AgentSteps
  <2> QED BY <1>3, <2>2, <2>3, <2>4, AgentSteps
<1>4. CASE CallbackNext
  <2>1. /\ pc' = pc /\ delivered' = delivered /\ cb # "idle" /\ cb' # "admitted"
        /\ received_packets' = received_packets \/ Tally
    BY <1>4 DEF CallbackNext, NoMutex, Refuse, Tally, Signal, WriteChunk, WriteFails, unreceived,
                agent
  <2>2. CASE Tally
    <3>1. cb = "admitted" /\ delivered' = delivered
      BY <2>2 DEF Tally
    <3>2. ASSUME NEW p \in Tallied PROVE received_packets'[p] <= received_packets[p] + 1
      <4>1. (received_packets[p] + 1) % TallyRange <= received_packets[p] + 1
        BY <1>1, PacketsAssumption
      <4>2. received_packets'[p] \in {received_packets[p], (received_packets[p] + 1) % TallyRange}
        BY <2>2 DEF Tally, TypeInv, TypeOK
      <4> QED BY <1>1, <4>1, <4>2
    <3>3. \A p \in Tallied : received_packets'[p] \in 0..(TallyRange - 1)
      BY <1>0 DEF TypeInv, TypeOK
    <3>4. Active
      BY <1>2, <2>1
    <3>5. \A p \in Tallied : received_packets'[p] <= delivered
      BY <1>1, <1>2, <3>1, <3>2, <3>3, <3>4, PacketsAssumption
    <3> QED BY <1>0, <1>2, <2>1, <3>3, <3>5, PacketsAssumption
  <2>3. CASE received_packets' = received_packets
    BY <1>0, <1>1, <1>2, <2>1, <2>3, PacketsAssumption
  <2> QED BY <2>1, <2>2, <2>3
<1>5. ASSUME NEW p \in Packets, Arrive(p) PROVE CountInv'
  <2>1. /\ pc \in {"loop", "handle"} /\ pc' = pc /\ cb = "idle" /\ cb' = "admitted"
        /\ received_packets' = received_packets /\ delivered' = delivered + 1
    BY <1>2, <1>5 DEF Arrive, unreceived, agent, TypeInv, TypeOK
  <2> QED BY <1>0, <1>1, <1>2, <2>1, PacketsAssumption
<1>6. CASE PacketTimer \/ DataTimer \/ BrokerDown \/ ShutDown
  BY <1>0, <1>6 DEF PacketTimer, DataTimer, BrokerDown, ShutDown, undisturbed, agent, callback
<1>7. CASE UNCHANGED vars
  BY <1>0, <1>7 DEF vars, agent, callback, world
<1> QED BY <1>3, <1>4, <1>5, <1>6, <1>7 DEF Next

\* A download in which fewer packets arrive than one place of the tally counts
\* is one in which the tally holds.
THEOREM MqttTallyHolds ==
  ASSUME ~EarlyPackets, Deliveries < TallyRange - 1
  PROVE  Spec => []TallyHolds
<1>1. Init => CountInv
  BY TypeInit DEF Init, CountInv, Active
<1>2. CountInv /\ [Next]_vars => CountInv'
  BY CountStep
<1>3. CountInv => TallyHolds
  BY PacketsAssumption DEF CountInv, TallyHolds, TypeInv, TypeOK
<1> QED BY <1>1, <1>2, <1>3, PTL DEF Spec

-----------------------------------------------------------------------------
(* A success is the whole image.  The application must not stop the agent: *)
(* the shutdown's event ends the download as a success.                    *)

Written == {p \in Packets : writes[p] > 0}
Bits == ota_event \cup taken

\* The bytes written are the packets written, of an image whose size is known
\* as soon as a packet is; and what promises the end of the image keeps it.
WholeInv ==
  /\ ~stopping /\ "SHUTDOWN_NOW" \notin Bits
  /\ pc \in {"request", "clear"} =>
       total_bytes_written = 0 /\ {"GOT_DATA", "DATA_DONE"} \cap Bits = {}
  /\ Active => total_bytes_written = Cardinality(Written)
  /\ \/ "GOT_DATA" \in Bits \/ cb = "write" \/ (cb = "signal" /\ cb_result = "SUCCESS")
       => total_image_size = NumPackets
  /\ "DATA_DONE" \in Bits => Written = Packets
  /\ pc = "done" /\ result = "SUCCESS" => Written = Packets

\* As many packets as the image has are the packets of the image.
LEMMA AllPackets ==
  ASSUME NEW S \in SUBSET Packets
  PROVE  /\ IsFiniteSet(S) /\ Cardinality(S) \in Nat
         /\ Cardinality(S) >= NumPackets => S = Packets
<1>1. IsFiniteSet(Packets) /\ Cardinality(Packets) = NumPackets
  BY PacketsAssumption, FS_Interval DEF Packets
<1>2. IsFiniteSet(S) /\ Cardinality(S) <= Cardinality(Packets)
      /\ (Cardinality(Packets) = Cardinality(S) => Packets = S)
  BY <1>1, FS_Subset
<1>3. Cardinality(S) \in Nat
  BY <1>2, FS_CardinalityType
<1> QED BY <1>1, <1>2, <1>3, PacketsAssumption

LEMMA WholeInit == Init => WholeInv
<1> SUFFICES ASSUME Init PROVE WholeInv
  OBVIOUS
<1>1. ~Active
  BY DEF Init, Active
<1> QED BY <1>1 DEF Init, WholeInv, Bits

\* The agent's thread: the end of the download with success is either the
\* application's own or that of DATA_DONE.
LEMMA AgentWhole ==
  ASSUME OnceInv, WholeInv, AgentNext
  PROVE  WholeInv'
<1> USE DEF WholeInv, Bits
<1>0. /\ total_bytes_written \in 0..Deliveries /\ total_image_size \in {0, NumPackets}
      /\ writes \in [Packets -> 0..Deliveries + 1]
      /\ sub_callback_mutex_inited = (pc # "done")
  BY DEF OnceInv, TypeInv, TypeOK
<1>1. CASE \E r \in CallbackResults : Request(r)
  <2> PICK r \in CallbackResults : Request(r)
    BY <1>1
  <2>1. /\ pc = "request" /\ cb = "idle" /\ UNCHANGED <<ota_event, callback, counts, stopping>>
        /\ taken' \in {taken, {}}
    BY DEF Request, Return, unasked, OnceInv, TallyInv, CallbackResults
  <2>2. \/ pc' = "clear"
        \/ pc' = "done" /\ (result' = "SUCCESS" => writes' = [p \in Packets |-> 1])
    BY DEF Request, Return, CallbackResults
  <2>3. ~Active'
    BY <2>1, <2>2 DEF Active, callback
  <2>4. writes' = [p \in Packets |-> 1] => Written' = Packets
    BY DEF Written
  <2> QED BY <2>1, <2>2, <2>3, <2>4 DEF callback, counts
<1>2. CASE ClearTally
  <2>1. /\ pc = "clear" /\ pc' = "loop" /\ Written' = Written
        /\ UNCHANGED <<ota_event, taken, counts, callback, stopping>>
    BY <1>2 DEF ClearTally, Written
  <2>2. Written = {} /\ cb = "idle"
    BY <2>1 DEF OnceInv, TallyInv, Written
  <2>3. total_bytes_written = Cardinality(Written)
    BY <2>1, <2>2, FS_EmptySet
  <2> QED BY <2>1, <2>2, <2>3 DEF callback, counts
<1>3. CASE TakeEvents
  BY <1>3 DEF TakeEvents, Written, Active, callback, counts, world
<1>4. ASSUME pc = "handle", Written' = Written, UNCHANGED <<counts, callback, stopping>>,
             Bits' \subseteq Bits \cup {"DATA_FAIL", "DATA_DONE"},
             "DATA_DONE" \in Bits' \ Bits => Written = Packets,
             pc' \in {"loop", "done"},
             pc' = "done" => (result' = "SUCCESS" => "DATA_DONE" \in taken)
      PROVE  WholeInv'
  <2>1. Active
    BY <1>4 DEF Active
  <2> QED BY <1>4, <2>1 DEF callback, counts
<1>5. CASE HandleEnd
  <2>1. PICK i \in 1..4 : Ends[i].event \in taken /\ Return(Ends[i].result)
    BY <1>5 DEF HandleEnd
  <2>2. Ends[i].result # "SUCCESS"
    <3>1. i \in {1, 2, 3, 4}
      OBVIOUS
    <3>2. i # 1
      BY <2>1 DEF Ends
    <3> QED BY <3>1, <3>2 DEF Ends
  <2> QED BY <1>4, <1>5, <2>1, <2>2 DEF HandleEnd, Return, unhandled, Written
<1>6. CASE HandleGotData
  <2>1. total_image_size = NumPackets /\ total_bytes_written = Cardinality(Written)
    BY <1>6 DEF HandleGotData, Active
  <2>2. AllWritten => Written = Packets
    BY <2>1, AllPackets DEF AllWritten, Written
  <2> QED BY <1>4, <1>6, <2>2 DEF HandleGotData, unhandled, Written, Set
<1>7. CASE StillReceiving
  BY <1>4, <1>7 DEF StillReceiving, unhandled, Written
<1>8. CASE HandleLast
  <2>1. \/ \E i \in 1..4 : Lasts[i].event \in taken /\ Return(Lasts[i].result)
        \/ pc' = "loop" /\ taken' = {}
    BY <1>8 DEF HandleLast
  <2>2. \A i \in 1..4 : Lasts[i].result = "SUCCESS" => Lasts[i].event = "DATA_DONE"
    <3>1. \A i \in 1..4 : i \in {1, 2, 3, 4}
      OBVIOUS
    <3> QED BY <3>1 DEF Lasts
  <2>3. pc' = "done" => (result' = "SUCCESS" => "DATA_DONE" \in taken)
    BY <2>1, <2>2 DEF Return
  <2> QED BY <1>4, <1>8, <2>1, <2>3 DEF HandleLast, Return, unhandled, Written, Set
<1> QED BY <1>1, <1>2, <1>3, <1>5, <1>6, <1>7, <1>8 DEF AgentNext

\* The callback's thread: one more packet is one more that is written.
LEMMA CallbackWhole ==
  ASSUME OnceInv, WholeInv, CallbackNext
  PROVE  WholeInv'
<1> USE DEF WholeInv, Bits
<1>0. /\ pc \notin {"request", "clear"} /\ cb # "idle" /\ Active
      /\ UNCHANGED <<pc, taken, result, stopping>>
  BY DEF CallbackNext, NoMutex, Refuse, Tally, Signal, WriteChunk, WriteFails, unreceived, agent,
         OnceInv, TallyInv, TypeInv, TypeOK, Active
<1>1. /\ writes \in [Packets -> 0..Deliveries + 1] /\ packet \in Packets
      /\ total_image_size \in {0, NumPackets}
  BY DEF OnceInv, TypeInv, TypeOK
<1>2. CASE NoMutex \/ Refuse
  BY <1>0, <1>2 DEF NoMutex, Refuse, counts, Written, Active
<1>3. CASE Tally
  BY <1>0, <1>1, <1>3 DEF Tally, Written, Active
<1>4. CASE Signal
  <2>1. ota_event' \subseteq ota_event \cup (Events \ {"SHUTDOWN_NOW", "DATA_DONE"})
    BY <1>4 DEF Signal, Set, Events, OnceInv, TypeInv, TypeOK
  <2>2. "GOT_DATA" \in ota_event' => "GOT_DATA" \in ota_event \/ cb_result = "SUCCESS"
    BY <1>4 DEF Signal, Set, OnceInv, TypeInv, TypeOK
  <2> QED BY <1>0, <1>4, <2>1, <2>2 DEF Signal, counts, Written, Active
<1>5. ASSUME NEW r \in CallbackResults, WriteFails(r) PROVE WholeInv'
  <2>1. ota_event' \subseteq ota_event \cup {"DATA_FAIL"}
        /\ cb' = "signal" /\ cb_result' # "SUCCESS" /\ Written' = Written /\ UNCHANGED counts
    BY <1>5 DEF WriteFails, Set, Written
  <2> QED BY <1>0, <2>1 DEF counts, Active
<1>6. ASSUME NEW r \in CallbackResults, WriteChunk(r) PROVE WholeInv'
  <2>1. /\ writes' = [writes EXCEPT ![packet] = 1] /\ writes[packet] = 0
        /\ total_bytes_written' = total_bytes_written + 1
        /\ cb = "write" /\ cb' = "signal"
        /\ UNCHANGED <<ota_event, total_image_size, cb_result>>
    BY <1>1, <1>6 DEF WriteChunk, OnceInv, TallyInv
  <2>2. Written' = Written \cup {packet} /\ packet \notin Written
    BY <1>1, <2>1 DEF Written
  <2>3. Written \in SUBSET Packets
    BY DEF Written
  <2>4. Cardinality(Written') = Cardinality(Written) + 1
    BY <2>2, <2>3, AllPackets, FS_AddElement
  <2>5. Written # Packets
    BY <1>1, <2>2
  <2> QED BY <1>0, <2>1, <2>2, <2>4, <2>5 DEF Active
<1> QED BY <1>2, <1>3, <1>4, <1>5, <1>6 DEF CallbackNext

\* The world: a packet only arrives when the download runs.
LEMMA WorldWhole ==
  ASSUME ~AppStops, OnceInv, WholeInv,
         (\E p \in Packets : Arrive(p)) \/ PacketTimer \/ DataTimer \/ BrokerDown \/ ShutDown
  PROVE  WholeInv'
<1> USE DEF WholeInv, Bits
<1>1. ASSUME NEW p \in Packets, Arrive(p) PROVE WholeInv'
  <2>1. pc # "done" /\ cb = "idle" /\ cb' = "admitted"
    BY <1>1 DEF Arrive, OnceInv, TypeInv, TypeOK
  <2>2. UNCHANGED <<ota_event, pc, taken, result, counts, writes, stopping>>
    BY <1>1 DEF Arrive, unreceived, agent
  <2> QED BY <2>1, <2>2 DEF Written, Active, counts
<1>2. CASE PacketTimer \/ DataTimer \/ BrokerDown
  BY <1>2 DEF PacketTimer, DataTimer, BrokerDown, Set, undisturbed, agent, callback, counts,
              Written, Active
<1>3. ~ShutDown
  BY DEF ShutDown
<1> QED BY <1>1, <1>2, <1>3

LEMMA WholeStep ==
  ASSUME ~AppStops
  PROVE  OnceInv /\ WholeInv /\ [Next]_vars => WholeInv'
<1> SUFFICES ASSUME OnceInv, WholeInv, [Next]_vars PROVE WholeInv'
  OBVIOUS
<1>1. CASE UNCHANGED vars
  BY <1>1 DEF vars, agent, callback, counts, world, WholeInv, Bits, Active, Written
<1> QED BY <1>1, AgentWhole, CallbackWhole, WorldWhole DEF Next

\* Every step of the download is a step of OTADownload or leaves it alone: a
\* write is of a packet that was missing, so that the download is no success yet.
LEMMA DownloadStep ==
  OnceInv /\ WholeInv /\ WholeInv' /\ [Next]_vars
    => [Download!Next]_(Download!vars)
<1> SUFFICES ASSUME OnceInv, WholeInv, WholeInv', [Next]_vars
             PROVE  [Download!Next]_(Download!vars)
  OBVIOUS
<1> USE DEF Written, Outcome, Download!vars
<1>1. writes \in [Packets -> 0..Deliveries + 1]
  BY DEF OnceInv, TypeInv, TypeOK
<1>2. CASE AgentNext
  <2>1. pc # "done"
    BY <1>2, AgentSteps
  <2>2. \/ writes' = writes
        \/ writes' = [p \in Packets |-> 1] /\ (\A p \in Packets : writes[p] = 0)
    BY <1>2, AgentSteps DEF OnceInv, TallyInv
  <2>3. Written \subseteq Written' /\ Written' \in SUBSET Packets
    BY <2>2
  <2>4. CASE pc' # "done"
    <3>1. writes' = writes
      BY <1>2, <2>4, AgentSteps
    <3> QED BY <2>1, <2>4, <3>1
  <2>5. CASE pc' = "done" /\ result' = "SUCCESS"
    <3>1. Written' = Packets
      BY <2>5 DEF WholeInv
    <3> QED BY <2>1, <2>5, <3>1 DEF Download!Next, Download!Succeed
  <2>6. CASE pc' = "done" /\ result' # "SUCCESS"
    BY <2>1, <2>3, <2>6 DEF Download!Next, Download!Fail
  <2> QED BY <2>4, <2>5, <2>6
<1>3. CASE CallbackNext
  <2>1. UNCHANGED <<pc, result>>
    BY <1>3 DEF CallbackNext, NoMutex, Refuse, Tally, Signal, WriteChunk, WriteFails, unreceived,
                agent
  <2>2. CASE writes' = writes
    BY <2>1, <2>2
  <2>3. ASSUME NEW r \in CallbackResults, WriteChunk(r)
        PROVE  Download!Store
    <3>1. /\ writes' = [writes EXCEPT ![packet] = 1] /\ writes[packet] = 0 /\ packet \in Packets
      BY <1>1, <2>3 DEF WriteChunk, OnceInv, TallyInv, TypeInv, TypeOK
    <3>2. Written' = Written \cup {packet} /\ Written # Packets
      BY <1>1, <3>1
    <3>3. Outcome # "success"
      BY <3>2 DEF WholeInv
    <3> QED BY <2>1, <3>1, <3>2, <3>3 DEF Download!Store
  <2>4. writes' = writes \/ \E r \in CallbackResults : WriteChunk(r)
    BY <1>3 DEF CallbackNext, NoMutex, Refuse, Tally, Signal, WriteFails
  <2> QED BY <2>2, <2>3, <2>4 DEF Download!Next
<1>4. CASE UNCHANGED <<pc, result, writes>>
  BY <1>4
<1>5. CASE \/ \E p \in Packets : Arrive(p)
           \/ PacketTimer \/ DataTimer \/ BrokerDown \/ ShutDown \/ UNCHANGED vars
  BY <1>4, <1>5 DEF Arrive, PacketTimer, DataTimer, BrokerDown, ShutDown, unreceived, undisturbed,
              agent, vars
<1> QED BY <1>2, <1>3, <1>5 DEF Next

\* With packets lost, repeated and in any order, and with writes that fail, the
\* MQTT download implements OTADownload: it succeeds only with the whole image.
THEOREM MqttImplements ==
  ASSUME ~EarlyPackets, NumPackets <= MaxPackets, ~AppStops
  PROVE  Spec /\ []TallyHolds => IsDownload
<1>1. Init => OnceInv /\ WholeInv
  BY OnceInit, WholeInit
<1>2. OnceInv /\ WholeInv /\ TallyHolds /\ [Next]_vars => OnceInv' /\ WholeInv'
  BY OnceStep, WholeStep
<1>3. Init => Download!Init
  BY DEF Init, Download!Init, Outcome
<1>4. OnceInv /\ WholeInv /\ WholeInv' /\ [Next]_vars
        => [Download!Next]_(Download!vars)
  BY DownloadStep
<1> QED BY <1>1, <1>2, <1>3, <1>4, PTL DEF Spec, IsDownload, Download!Spec
=============================================================================
