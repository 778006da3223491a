# TLA+ models of the Infineon OTA middleware

This directory holds TLA+ specifications of the over-the-air update middleware
(`src/source/`, `src/include/`), configurations that check them with TLC on
small instances, and theorems checked by TLAPS for every value of the
constants. All line numbers refer to the sources of this repository; where a
definition's code is found is listed, definition by definition, in the `map` of
`PROJECT.json`.

## 1. The system

A device runs the OTA agent beside an application. The agent asks a server for
a *job* (a JSON document that names an image), downloads the image into the
*secondary slot* of the flash, marks it for the boot loader, reports the result
and resets the device. The application decides when; by its callback it can
also take over, fail or stop every single step.

| Part | Source | State it keeps | Operations | Interacts by |
|---|---|---|---|---|
| Agent | `source/cy_ota_agent.c` | `cy_ota_context_t`: `curr_state`, the event group `ota_event`, one one-shot timer, retry counters, `stop_OTA_session`, `reboot_after_sending_result`, connection flags; globals `cy_ota_last_error`, `ota_context_only_one` | `cy_ota_agent_start/stop`, `cy_ota_get_update_now`, the thread `cy_ota_agent()` with its state table | its own thread, the application's thread, the timer's callback, all on one context, no lock |
| Application callback | in the application; called by `cy_ota_internal_call_cb()` | may fill in a connection, may close it | returns CONTINUE, STOP, APP_SUCCESS, APP_FAILED | synchronous call out of the agent's (and the MQTT library's) thread |
| MQTT transport | `source/cy_ota_mqtt.c` | connection, unique topic, tally of packets, a mutex, a packet timer | connect, get job, get data, write chunk, report, disconnect | the MQTT library's thread calls back for every packet; event bits to the agent |
| HTTP transport | `source/cy_ota_http.c` | connection, ranges of the next request | the same, with ranged GETs | synchronous; a disconnect callback sets an event bit |
| Job document | `source/cy_ota_agent.c` (`cy_ota_parse_job_info`, the version and board checks, the redirects) | `parsed_job`, `curr_connect_type`, `curr_server` (a pointer, perhaps into `parsed_job`) | parse, compare, redirect to another server and back | JSON library's callback |
| Storage | `source/cy_ota_storage.c` | open area, bytes written | open (erases), write, close, verify (writes the magic), validated | called by the agent and by the transports |
| Untar | `source/cy_ota_untar.c`, `port_support/untar/untar.c` | position in an archive, current file, coalesce buffer, the flag that the download is an archive | streaming parse of blocks of any size | called by the storage |
| Bluetooth LE | `source/cy_ota_ble.c` | statistics, CRC | prepare, download, write, verify, abort | commands of the peer |
| Boot utilities | `COMPONENT_OTA_MCUBOOT_20829/mcuboot/bootutil/` | trailers at the end of the slots, a status partition of records in copies | read the state of a swap, pending, confirmed, the status of a swap | the storage, the application and the boot loader, one after the other, with a reset or a power failure between |
| Flash back ends | `COMPONENT_OTA_MCUBOOT_*/mcuboot/cy_flash_pal/`, `port_support/serial_flash` | none but the flash | read, write, erase of an area | called by the storage and the boot utilities |
| Signature arithmetic | `COMPONENT_OTA_BLUETOOTH/` | none | arithmetic on words, on the field, on points | called by the verification over Bluetooth |
| Scripts | `scripts/` | none | publisher and subscriber for trials | the environment of the transports |

What is hard here:

* **Two threads and a timer on one context.** `cy_ota_agent_stop()` writes
  `curr_state`, which the agent's thread reads many times in one pass of its
  loop and writes at its end. Events are set after a check of a state that has
  changed meanwhile; the agent clears "lingering" events at several places.
* **State that outlives the session it belongs to**: the last error, the flag
  that asks for a reset, the connection flags, the subscribed topic, counters.
* **Overriding callbacks**: any step may be replaced by a success, a failure or
  a stop, and the next state is computed from table row, result and last error
  together.
* **A lossy network**: packets lost, repeated and reordered, answers short or
  missing, a broker that goes; completeness is decided from a count of bytes.
* **Arithmetic**: end-inclusive unsigned ranges with a last one of any length,
  rows and sectors that an area shares with its neighbours, versions in words,
  carries that are read off wrapped words.
* **A stream cut anywhere**: headers and files of an archive in pieces of any
  size, from a peer that repeats, restarts or loses them.
* **Power failures**: between any two writes of the trailers that the library
  and the boot loader take turns to write, and in the middle of each.
* **A server that a job chooses**, remembered by a type, a pointer and a parsed
  job that are cleared and reset at different times.

The correctness properties that follow, per part:

* agent: a reset (and a report of success) only for an image that *this*
  session verified and that is complete; bounded tries; every session ends;
  the agent never waits for ever; a stop ends it; connection flags tell the
  truth; data is taken from the topic of the session;
* transports: bytes come into their places, none is lost again, success means
  all of them; each packet is written once; a download ends;
* job: data comes from the server that the job names, an image is newer than the
  one that runs, a pointer into a job never outlives it;
* untar and Bluetooth: what is extracted equals the layout of the archive however
  it is cut into blocks; no order of commands verifies what was not stored; the
  parser returns unless the list is bad;
* boot utilities: an update of the status happens whole or not at all, whenever
  the power fails; a request to update is not lost, an image on trial is taken
  back, a confirmed one stays, and the loader comes to an end;
* arithmetic and flash: results equal their definition, neighbours are kept.

## 2. The modules

| Module | Models | Relation |
|---|---|---|
| `OTASession` | what the agent promises: the phases of a session in their order, a bounded number of downloads, no reset without a verification | abstract |
| `OTAAgent` | the agent's thread, the application's thread, the timer, the event group, the callback; transports and storage as the outcomes of their calls | implements `OTASession` (`IsSession`) |
| `OTADownload` | what a download promises the agent | abstract |
| `OTAHttpDownload` | `cy_ota_http_get_data()` byte by byte | implements `OTADownload` (`IsDownload`) |
| `OTAMqttDownload` | `cy_ota_mqtt_get_data()` and `cy_ota_mqtt_callback()` packet by packet | implements `OTADownload` (`IsDownload`) |
| `OTAJob` | the job document, the server in use and where the session goes | a view of the agent for jobs that redirect |
| `OTAUntar` | `cy_ota_write_incoming_data_block()` and `cy_untar_parse()`, byte by byte | used by `OTABle` |
| `OTABle` | the five calls of a Bluetooth download and the peer | extends `OTAUntar` |
| `StatusPartition` | what the status partition promises: updates whole or not at all | abstract |
| `SwapStatus` | the records, copies, counters and CRCs of `swap_status_part.c` | implements `StatusPartition` (`UpdatesAreAtomic`) |
| `BootTrailer` | the hand-over of an image: storage, library and boot loader, with power failures | extends `SwapStatus` |
| `MultiPrecision`, `CurvePoints`, `FlashAreas` | pure algorithms as operators | compared with their definitions in `MCAlgorithms` |
| `MCJob`, `MCBle`, `MCBootTrailer`, `MCAlgorithms` | documents, archives, records and inputs for the runs | extend the modules they instantiate |
| `OTAAgentProofs`, `OTAHttpDownloadProofs`, `OTAMqttDownloadProofs`, `OTAJobProofs`, `OTABleProofs`, `BootTrailerProofs`, `BootHandoverProofs`, `AlgorithmProofs` | theorems | extend the modules they are about; `AlgorithmProofs` extends `MCAlgorithms`, `BootHandoverProofs` extends `BootTrailerProofs` |

The agent uses a download through the outcomes `DataComplete`, `DataFails`,
`DataStopped` and `DataShutDown`; the two download modules open that step. What
`OTADownload` promises ("success is the whole image") is what `DataComplete`
assumes. A shutdown and a stop are successes of their own in the agent
(`DataShutDown`, the last disjunct of `DataStopped`), since the code returns
success there with part of the image.

### 2.1 OTAAgent

The thread's pass through its loop is cut wherever it reads what another thread
writes; `pc` says where it is:

    begin -> init -> loop -> lookup -> start_cb -> function -> result -> judge
                      ^                              |  ^         |        |
                      |                       waiting, downloading|     failed
                      +--------------------- decide <-------------+--------+
    loop -> exit -> exited;      function (OTA_COMPLETE) -> reset

* `entry` is the state whose row is executed (the code's `curr_state_entry`),
  while `curr_state` is the context's field: they differ after a stop.
* `Row` / `cy_ota_state_table` is the table itself (agent.c:117-249).
  `Judge` and the four `Decide...` actions are lines 1925-2070: which results
  count as errors, what is recorded as the last error, and which of the
  success, failure and app_stop states follows; `DecideDownload` and
  `DecideConnect` are the two retries.
* `CallApp(r, supply)` is every call of the callback: `r` is what it returns,
  `supply` that it filled in a connection.
* Each state function is one action up to where it blocks: `WaitForStart` and
  `WakeUp`, `GetJobMQTT`/`GetJobHTTP` and `JobArrives`, `DataDownload` and the
  four ends of a download. A blocked call ends with one of its outcomes.
* The application's calls are cut at their own checks: `GetUpdateNow` (the test
  of the state) and `SetStartUpdate` (the event); `AgentStop`, `SignalStop`,
  `AwaitExit`, `AgentStopped` are the four steps of `cy_ota_agent_stop()`.
* `image` (erased, partial, complete) is the secondary slot; it survives
  `Reboot`, which ends the life of everything else.
* `verified`, `sent` and `attempts` are history variables: they are cleared
  when a pass finds the agent waiting, and no guard reads them.

Constants that are switches of the code: `Flow` (`use_get_job_flow`),
`SendResult` (`do_not_send_result`), `RebootUponCompletion`,
`MaxDownloadTries` and `ConnectRetries` (both 3 by default). Constants that
bound the environment: `AppResults` (what the callback returns), `AppConnects`
(whether it supplies connections), `AppStops` (whether the application stops
the agent), and `TimerIsSlow`: no timer expires before the agent is back in its
wait. The last one is a fact about seconds against instructions (the timer is
set for at least a second just before the agent turns to its wait) which the
model cannot derive.

### 2.2 OTAHttpDownload

One thread, requests one after the other: `Unfinished` is the loop's condition,
`Answered` / `NotAnswered` are `cy_ota_http_send_get_response()`, `WriteChunk`,
`WriteStopped`, `WriteFails` are `cy_ota_http_write_chunk_to_flash()` with the
rest of the pass, `NextRange` is the arithmetic (`% Word` for `uint32_t`).
`slot[o]` is the place in the image that the byte at offset `o` came from, so
that a shift of a chunk is seen, not only a wrong count. The timer of the HTTP
download sets an event that nobody reads and is left out.

### 2.3 OTAMqttDownload

Two threads and two timers that speak by event bits. The agent's thread takes
all bits at once (`TakeEvents`) and acts on the first of them in the order of
the code (`Ends`, `HandleGotData`, `StillReceiving`, `Lasts`). The callback's
thread is cut at the mutex (`Arrive` -> `Tally` -> `WriteChunk` -> `Signal`).
Every packet carries one unit of data; packets may come in any order, more than
once, or never. `EarlyPackets` lets them come before the agent has cleared the
tally (mqtt.c:1316), `BadPackets` lets them be no chunk or of an old version.
`Deliveries` bounds how many packets arrive in one download.

### 2.4 OTAJob

The same rows of the state table as in `OTAAgent`, one action per row, with the
three things that name a server kept apart as the code keeps them:
`curr_connect_type`, `curr_server` (`"job"` is a pointer into `parsed_job`) and
`parsed_job`, which `cy_ota_wait_for_start()` clears. `ParseResult` is the order
of the checks of `cy_ota_parse_job_info()`; `VersionOf`, `TypeOf`, `HostOf` and
`PortOf` are what the JSON callback makes of a field that is missing, empty, too
short or too large. What the rest of the agent contributes is a choice: every
row may fail, and `AppStops` is the callback. (A callback that takes over a
step with APP_SUCCESS is in `OTAAgent` only.)

What the code does that a reader may not expect, and the model has: a change of
type alone keeps the host and port of the old server; `"Port": ""` beside a new
host gives port 0; an empty `Connection` is MQTT (the comparison ends with the
text); the missing version counts as 0.0.0; the pointer that
`cy_ota_result_redirect()` moves back is not a success, so that the report of a
redirected session is skipped.

### 2.5 OTAUntar and OTABle

A byte is a record of where it was in what was sent, so that a byte in a wrong
place is seen whatever its value. One action of `Parse` is one turn of a loop of
`cy_untar_parse()`: fill the coalesce buffer (`Collect`), ask for a block, skip
padding, take a header, take the list of components, write a piece of a file.
`Stored` is `write_data_to_flash()`: whole rows as they come, the rest through
`block_buffer`. `ListFails` returns a result that is not one the caller stops
for; `ParseReturns` compares what one call consumed with the size of the whole
block. Both are modelled as written.

The peer (in `OTABle`) prepares, starts, sends its stream in pieces, may lose
some, start again, verify early or twice, abort. It writes only after it has
started. `peer.clean` and `overrun` are history variables: the transfer began on
an erased slot at offset 0; bytes went past the end of `block_buffer`. The CRC is
the number of bytes received as long as they are the stream's first ones in
order.

The slot of image 1 is written by an archive but never erased by
`cy_ota_storage_open()`, and only the slot of image 0 gets the magic. The model
is of a release build, where the `CY_ASSERT` of untar.c:324 is empty, and of
the 20829's flash map, which refuses an access past its area (the PSoC map only
asserts).

### 2.6 SwapStatus, StatusPartition, BootTrailer

A record is a row of the flash in two copies; `BeginUpdate` (read the newest
copy, erase the one after it) and `EndUpdate` (write it) are two steps, and
`CutErase`, `CutWrite`, `CutArea`, `CutBetween` are the power failing in the
middle of an erase, of a write, of the erase of a whole area, and between two
accesses. A torn row keeps its magic and has a wrong CRC, or reads as erased.

`BootTrailer` is one program that runs alone (boot loader, then application)
until the power fails or it restarts. `todo` holds the accesses that the running
function still makes; a function takes its branches when it starts, from what it
reads, since nobody else writes. `Decision` and `LoaderSteps` are the boot
loader as far as this library shows it: MCUboot itself is not in the repository.
`slot` is the trailer at the end of a slot, `image` what is in it (by number).
`asked`, `trial`, `confirmed` and `harm` are history variables; no guard reads
them. `harm` says what the status partition went through: a record's very first
write torn, the erase of an area cut, a download that replaced the image to go
back to.

### 2.7 MultiPrecision, CurvePoints, FlashAreas

Operators without state. `MultiPrecision` keeps the code's way to read a carry
off a wrapped word, at any word size above the carries of a column;
`FastMod_P256` is its eight columns with what each adds and takes. `CurvePoints`
is the ladder over signed digits with its representations of infinity and the
uninitialised `z` of an affine point (`behind`). `FlashAreas` is rows of the
internal flash, sectors of the external one, and the bounds check of the flash
map with the width of its sum.

## 3. The runs

Each passing run's constants give the hard cases room at the smallest size:
two tries (a first one, and one that is counted), images of up to five chunks
and a half of four bytes, three packets with four deliveries (so that one is
repeated or one is missing), two power failures with two downloads, archives
with a list, two files and an empty one.

| Run | Module, spec | Instance | Checks |
|---|---|---|---|
| `agent_mqtt` | OTAAgent, Spec | MQTT, job flow; callback continues, stops, fails, supplies connections (no APP_SUCCESS) | `RebootsOnlyVerified`, `RebootsOnlyComplete`, `ConnectedIsUsable`, `IsSession` |
| `agent_http` | OTAAgentProofs, FairSpec | HTTP, job flow; callback continues, stops, fails (no APP_SUCCESS) | `VerifiedInv` (the inductive invariant), `ReportsOnlyVerified`, `BoundedDownloads`, `SessionEnds` |
| `agent_stops` | OTAAgent, FairSpec | MQTT, job flow; the application stops and restarts the agent at any moment | `TypeOK`, `TopicOfThisSession`, `KeepsChecking`, `StopWhileWaiting` |
| `http_download` | OTAHttpDownload, FairSpec | exact answers and errors; sizes 1..22 but 5, 9, 13, 17, 21 | `TypeOK`, `PrefixInPlace`, `SuccessIsComplete`, `IsDownload` |
| `http_any` | OTAHttpDownload, FairSpec | short answers, errors, stops; sizes of every remainder | `DownloadEnds` |
| `mqtt_download` | OTAMqttDownload, Spec | 3 packets, 4 deliveries, both timers, write errors, stops by the callback | `TypeOK`, `WrittenOnce`, `IsDownload` |
| `mqtt_ends` | OTAMqttDownload, FairSpec | early and bad packets, a broker that goes, a shutdown; packet timer only | `DownloadEnds` |
| `boot` | MCBootTrailer, FairSpec | two downloads, two calls of the application, two power failures anywhere | `TypeOK`, `WritesObsoleteCopy`, `RequestNotLost`, `MagicIsLast`, `ResumesOwnSwap`, `ConfirmedStays`, `TrialReverts`, `NoPanic`, `UpdatesAreAtomic`, `BootEnds` |
| `archive` | MCBle, FairSpec | an image and four archives, pieces of 3 and 7 bytes and any end, four events (prepare, start, abort, a loss) | `TypeOK`, `CoalesceInOrder`, `VerifiedIsStored`, `CallsReturn` |
| `job` | MCJob, Spec | 2,592 documents: every version relation, board, type, host and port | `DataFromJobServer`, `UpdatesAreNewer`, `KnowsItsServer` |
| `algorithms` | MCAlgorithms, Spec | words of 3 bits, the curve modulo 11, a flash of 16 bytes in rows and sectors of 4 | `ArithmeticIsRight`, `FlashKeepsNeighbours` |
| `job_restart` | MCJob, Spec | violated: `JobFromInitial` | see 3.2 |

`job`, `job_restart` and `algorithms` check for deadlock. The others switch it
off: a download that is over does nothing more, a loader that panics stays, and
an agent whose application never calls again may stop for good. Progress is
stated by the liveness properties instead.

### 3.1 Bounds, and why they are enough

* `MaxDownloadTries = 2`, `ConnectRetries` 1 or 2: the code only compares
  `count + 1 < limit`, so one step below the limit and one at it occur.
  The counters are kept at the limit where the code counts on (nothing reads
  them then but that comparison); `attempts` counts one beyond it.
* `Chunk = 4`, `BufferSize = 5`, `Word = 64`: every remainder of a size by the
  chunk occurs, with one to six requests. TLAPS proves the safety part for
  every value (section 5).
* 3 packets, 4 deliveries: a loss and a repetition in one download, in every
  order and at every point of the agent's thread. `TallyRange = 256` is the
  code's width; its wrap needs 257 deliveries and is not reached. TLAPS proves the
  safety part for every number of packets and deliveries below the wrap.
* `boot`: two copies per record and two failures, so that a failure hits the
  recovery of an earlier one; two downloads, so that a record is rewritten and a
  trial is followed by another image; two calls, so that a confirmation and a
  request meet. The counters of records grow with the updates and need no bound
  of their own (the code's are 32 bits wide). TLAPS proves the safety part for
  every set of records and any number of downloads, calls and failures
  (section 5; `ConfirmedStays` while no erase of an area was cut).
* `archive`: `Block = HeaderSize = 4`; pieces of 3 cut every block and are too short to be
  told for an archive, pieces of 7 span two; the list that takes two blocks has 6
  bytes, so that its padding stays behind in the buffer, which then still asks for
  two; other lists take less than a block, or too many; a slot of seven rows holds the
  largest stream. The image has 8 bytes: pieces of 7 and 1 store it without an
  overrun, other cuts with one. TLAPS proves the types, `CoalesceInOrder` and `VerifiedIsStored` for
  every size (section 5).
* `job`: `Word = 16` makes version 17 and port 17 wrap to 1; the application is
  1.2.3, so that each part decides once. TLAPS proves it for all documents.
* `algorithms`: numbers of two words of 3 bits, all pairs; the reduction by p
  needs 16 words and is run on 2,000 scattered numbers; every point and every
  scalar below the order of a curve modulo 11; every offset and length, also
  those whose sum wraps. TLAPS proves what is said of the flash for every size.

### 3.2 What the passing runs exclude, and why

`job_restart` is a run of its own because the documentation says otherwise:
"`initial_connection` - This directs the OTA Agent to use a transport type as the
first transport to get the Job document" (src/README.md:676).
`cy_ota_job_redirect()` overwrites `curr_connect_type` (agent.c:1591) and only
`cy_ota_result_redirect()` restores it (agent.c:1704). A session that ends
without that one (a failed data connection goes to `AGENT_WAITING`, a stop by the
callback to the end) leaves the job's type behind, and the next session asks for
its job at the parameters' server of that type.

The other restrictions are in the constants or the hypotheses of the passing
runs. Each is needed because the code behaves otherwise without it; the change
named makes TLC show that behaviour.

| Restriction | Change | What happens in the code |
|---|---|---|
| Only a stop that finds the agent waiting is shown to end (`StopWhileWaiting`) | add `StopReturns` to the PROPERTIES of `agent_stops` | the wait first clears the events (agent.c:1272), a transport clears them before it downloads (mqtt.c:1074), and the end of a pass overwrites `CY_OTA_STATE_EXITING` (agent.c:630); the join of `cy_ota_agent_stop()` (agent.c:2361) has no timeout |
| `AppStops = FALSE` where resets are checked | `AppStops = TRUE` in `agent_mqtt` | `CY_OTA_EVENT_SHUTDOWN_NOW` ends the MQTT download with `CY_RSLT_SUCCESS` (mqtt.c:1339); if `curr_state` is then overwritten by the agent's own next state, the part that was written is verified and `cy_ota_complete()` resets the device for it (`RebootsOnlyComplete`) |
| No size of the form k * chunk + 1 | such a size in `Sizes` of `http_download` | the last range has `range_end = range_start`, which the loop's condition (http.c:988) takes for an empty one: a success one byte short (`SuccessIsComplete`) |
| `EarlyPackets = FALSE` in `mqtt_download` | `EarlyPackets = TRUE` | a packet written before the tally is cleared (mqtt.c:1316) is written and counted again when it is repeated; the count of bytes is full with another packet missing (`IsDownload`) |
| `ResumesOwnSwap` speaks of runs in which no erase of an area was cut | `ResumesThisSwap` instead, in `boot` | the erase of the primary slot's status area (swap_status_misc.c:570) takes its rows one after the other; cut between the copies of the trailer, it leaves an older copy with a magic and no copy_done, and the loader resumes a swap that is finished |
| `VerifiedIsStored` speaks of transfers without `overrun` | `VerifiedInPlace` instead, in `archive` | `memcpy()` at cy_ota_untar.c:171 takes the rest of a chunk that began in the middle of a row past `block_buffer`; those bytes are not written, and the CRC, which is of the bytes received, matches |
| `ReductionIsRight` compares numbers that `Settles` | `ProductIsReduced` in `algorithms` | ota_multprecision.c:262 reads the borrow of a negative count as a carry of 1 when the word is smaller than the count, and the last corrections ignore what comes out at the top; the product of two reduced numbers then differs from "c = a * b mod p" (ota_multprecision.h) |
| The scalar Order - 2 is left out of `LadderIsRight` | leave out the exception | the ladder adds -p to itself, doubles it, and reads the `z` of an affine point that nothing set (ota_ecc_pp.c) |
| An erase of rows begins a row or leaves its first | drop that condition in `RowsAreKept` | the count of whole rows (cy_flash_psoc6.c:114) wraps for an area inside one row |
| No empty file in an archive whose list takes two blocks (`ProperArchives`) | a first file of 0 bytes in `long` of `MCBle`, without its ASSUME | the padding of the list keeps the buffer at two blocks; after a file of which nothing is consumed the parser clears the buffer (untar.c:661), and with it what it held of the next entry, whose header is then never seen: the archive is verified with a file missing (`VerifiedIsStored`) |
| A verified archive is only said to stay until the peer starts again (`peer = verified` in `VerifiedInPlace`) | drop that condition, with `Streams <- {"pair"}`, `Pieces = {4, 8}`, `MaxEvents = 5` in `archive` | `Start` clears the CRC and keeps the offset and the parser (cy_ota_ble.c:358), which goes on behind the end of the archive; sent again with a piece lost, its files come to other places of the slots, whose magic stays set |
| One file for each slot (`OneFileEach`, assumed in `MCBle`) | two NSPE files of different bytes in `pair`, without that ASSUME | ota_untar_write_callback() writes every file from the beginning of its slot: the second lies over the first |
| A call that comes to a bad list is not said to return (`BadList` in `CallsReturn`) | drop `BadList` from `CallsReturn` | the result of a bad list is not one of those the caller's loop stops for (cy_ota_untar.c:369): the loop goes on with the same bytes. A list that is bad in the archive does it, and a good one that is cut by a peer that starts again in the middle, since the parser goes on where it was |

Other restrictions, and the behaviour that asks for them (in the model, without
a run of its own):

* `agent_stops` has callbacks that continue only: a STOP returned for
  `CY_OTA_STATE_OTA_COMPLETE` takes over `cy_ota_complete()` and with it the
  timer, so that the agent waits until the application calls; a STOP returned
  for `CY_OTA_STATE_AGENT_WAITING` ends the thread.
* `AppStops = FALSE` is also what `RebootsOnlyVerified` needs: an application
  that fails the verification in its success callback, and stops the agent just
  when `RESULT_REDIRECT` is executed, makes that row's failure result the last
  error (the code compares `curr_state`, which is `EXITING` by then), and
  `DIRECT_FLOW` counts as a success in `cy_ota_complete()`.
* `agent_stops` has `AppConnects = FALSE`: over a connection of the
  application's own the topic of an earlier session stays subscribed while a
  new one is named (agent.c:1265).
* `TopicOfThisSession` is not checked with callbacks that stop or fail: an
  application that does so for `CY_OTA_STATE_OTA_COMPLETE` takes the place of the
  disconnect there, and the next session finds connection and topic still open.
* `ConnectedIsUsable` is not checked with APP_SUCCESS: an application that
  disconnects the device itself leaves `device_connected` set (agent.c:579).
* No run has a callback that returns APP_SUCCESS in the agent: with it the sessions
  over MQTT or HTTP are too many for TLC. What it does to the reset, the report and
  the bound of the downloads is proved (`VerifiedReset`, `VerifiedReport`,
  `CompleteReset`, `DownloadsBounded` are for every set of callback results).
* `http_download` has no STOP and no answer without a total length: a STOP for a
  block skips that block only (http.c:1033), and an answer without a length lets
  the first chunk pass for the image (http.c:715).
* `mqtt_ends` has the packet timer on: with it off (`CY_OTA_PACKET_INTERVAL_SECS`
  is 0 in `configs/cy_ota_config.h`) and no data timeout, a `DROPPED_US` taken
  together with a `GOT_DATA` is dropped, and nothing ends the download.

Met while modelling, and visible in the actions named: a request for an update
accepted just before the wait is cleared by it (`SetStartUpdate`,
`WaitForStart`); a job that does not parse ends its session without a report
(`JobParse`, `DecideOther`); going back to the first server for the report
returns `CHANGING_SERVER`, which the loop takes for "no report"
(`ResultRedirect`, `Judge`); the counter of connects is cleared by every
connect, so its limit is not met when it is above 1 (`CleanStart`); an HTTP
client that was created and did not connect counts as a connection when its
handle stays (`ConnectFails`, `Reusable`); a retry may skip the erase although
a first block was half written (`OpenFilesystem`, `DataFails`); the flag that a
download is an archive is cleared by nobody (`StartsArchive`, `ImageBlock`), so
that a plain image after an archive is taken for one; a download while an image
is on trial erases the image to go back to and leaves the request's magic in the
partition (`Download`, `harm.stale`); a first write to a record that is torn
leaves a record that nobody can read, and the loader stops (`Decision`,
`UpdateFails`, `harm.first`); `cy_ota_storage_verify()` writes the magic before
the peer is told, and a failing indication does not take it back (`Verify`); a permanent request
whose power fails between its magic and its image_ok is a request to test
(`boot_set_pending`).

## 4. Fairness

* `OTAAgent`: `WF(AgentNext)`: the thread runs whenever it is not blocked, and
  each of its blocking calls into a transport has a timeout; `WF(TimerExpires)`:
  a timer that runs expires (`next_timer_sec` and `retry_timer_sec` are assumed
  positive: the code starts no timer for 0); weak fairness of the application's
  thread only inside a call it has begun. The application need never call, and
  no outcome of the network is fair: a server may fail for ever.
* `OTAHttpDownload`: `WF(Next)`: every request is answered or times out.
* `OTAMqttDownload`: the agent's thread, the callback's thread and the timers
  that run. No packet has to arrive.
* `OTABle`: the thread of the Bluetooth stack goes on with a call it has begun
  (`WF(ParseStep)`, `WF(WriteDone)`, `WF(WriteFailed)`). The peer need do nothing.
  A turn of the parser on a bad list changes nothing, so that fairness does not
  bring it on: `CallsReturn` leaves these calls out.
* `BootTrailer`: `WF(Boot \/ StartApp \/ Accesses)`: the processor runs while it
  has power. Failures are bounded by `MaxCuts`; `BootEnds` says that the loader
  comes to an end when they do.
* `OTAJob` and `MCAlgorithms` have safety properties only.

## 5. The proofs

`OTAAgentProofs`, for every transport, flow, number of tries and set of callback
results:

* `TypeCorrect`: `Spec => []TypeOK`, without further assumption.
* `VerifiedReset`, `VerifiedReport`: `~AppStops => (Spec => []RebootsOnlyVerified)`
  and the same for `ReportsOnlyVerified`. Neither is inductive: a reset is
  decided in `OTA_COMPLETE` from the last error, which several steps forgive,
  and a report in `RESULT_SEND`. `VerifiedInv` (`VerifiedAlways`) adds
  * `Undisturbed`: while nobody stops the agent, `curr_state` is the state of
    the row being executed;
  * `NoFalseSuccess`: `DIRECT_FLOW`, which counts as success in
    `cy_ota_complete()` and is the failure result of two rows, never becomes
    the last error;
  * `SuccessGoesOn`: without an error the next state is the row's success
    state, and the verification sets `verified` before it is left that way;
  * `VerifiedBehind`: every state of the report, and the ends of a session
    without an error, are reached in a verified session only.

  `FunctionSteps` reduces the two dozen state functions to the few facts this
  needs (`FunctionStep`), so that the invariant's step has one case per part of
  the loop. The assumption `~AppStops` is needed (section 3.2).

The rest of the module is about the session. Each part has its own reduced
view of the state functions (`CountStep`, `ImageStep`, ...) and one or two lemmas
that read the whole table (`TableBefore`, `TablePhases`, `TableTopic`, ...), so that
no other step has to.

* `DownloadsBounded`: `Spec => []BoundedDownloads`, with no hypothesis; the
  application may stop and restart the agent anywhere. `TriesInv` says that
  `attempts` is at most what `download_retry_count` says, or one ahead of it
  while a download runs: only a failed download leads back to its own beginning,
  and that failure was counted.
* `AgentImplements`: `~AppStops => (Spec => IsSession)`, the refinement of
  `OTASession`. `Follows` carries the phase from the decision to the next pass;
  `ConnectGoesOn` is the one place where a result is turned round after it was
  judged; `TablePhases` is the proof that every arrow of the table is an arrow of
  the abstract session.
* `CompleteReset`: `~AppStops /\ StopsAreKept => (Spec => []RebootsOnlyComplete)`.
  `CompleteBehind` follows the image from the end of the download to the reset.
  `StopsAreKept` (MQTT, or no callback that returns STOP) is needed: over HTTP a
  STOP for a block skips that block, and the download goes on to a success.
* `ConnectionUsable`: `[]ConnectedIsUsable`, for every callback but one that takes
  over a step with APP_SUCCESS, with or without stops.
* `DataOnOwnTopic`: `[]TopicOfThisSession` for a callback that continues and
  supplies no connection (both needed, section 3.2), with an application that may
  stop the agent anywhere. `TopicInv` says where a topic may still be subscribed
  (`TopicBehind`: in the rows from the job's disconnect to the end); and that a
  topic of an *older* session is left only in an agent that is being stopped and
  waits with no request for an update, so that it ends without another download
  (`StaleEnds`).

`OTAHttpDownloadProofs`, for every chunk size above 2, every word, every set of
sizes without k * Chunk + 1, on a server that answers exactly or not and an
application that stops no chunk (`Regular`; all three parts are needed):

* `HttpTypeCorrect`: the types; what is written stays inside the image only because
  the ranges do, so that this one rests on `HttpInv` too.
* `Prefixes`: what is written is a prefix of the image and the next range begins
  right behind it; `Complete`: a success is the whole image; `Implements`:
  `Spec => IsDownload`, the refinement of `OTADownload`.
* The inductive `HttpInv` says where the ranges are: at the first request
  nothing is known of the size (`First`), afterwards the range starts at a whole
  number of chunks, right behind what was written (`Behind`), and a body that
  was received is that range cut at the end of the image (`RangeOK`).
  `FinishedIsWhole` is the place where the size k * Chunk + 1 must be excluded:
  the loop's second condition fails only there.

`OTAMqttDownloadProofs`, for every number of packets, deliveries and bounds:

* `MqttTypeCorrect`: the types, with nothing assumed of packets, timers and the
  application.
* `MqttWrittenOnce`: `~EarlyPackets /\ NumPackets <= MaxPackets =>
  (Spec /\ []TallyHolds => []WrittenOnce)`. `TallyInv` ties the tally to the writes:
  what was written was tallied, and what is about to be written is tallied and
  was not yet written. The hypotheses are the code's own limits: a packet from
  CY_OTA_MAX_PACKETS on is not tallied, one that comes before the loop is tallied
  and forgotten, and a count is a byte. `TallyHolds` is the last one, as a formula
  on states; `MqttTallyHolds` proves it when fewer packets arrive than a count
  has values.
* `MqttImplements`: on the same conditions and `~AppStops`, `Spec => IsDownload`.
  `WholeInv` counts: the number of packets written is the cardinality of the set
  of packets written, so that a full count (`DATA_DONE`) means the whole image,
  which is where a packet written twice would do harm.

`OTABleProofs`, for every set of images and archives, every size of rows, slots and
pieces, and any number of events:

* `ImagesAreStored`: an image that was verified is in its slot. The CRC alone does
  not say so, since nothing compares it with the offset: `Start` clears the CRC and
  keeps the offset, a lost piece moves neither, a failed write is repeated, and
  `is_tar` survives from an archive. The inductive `ImageInv` says when the two
  agree: in a transfer that began on an erased slot, as long as the CRC is that of
  the first bytes, the offset is the same number and the bytes below it are in
  place (`InPlace`); an image after an archive never gets that far
  (`AfterArchive`: its first piece is not counted, and two pieces of an image
  are never equal); what lies behind the end of the image stays erased
  (`BehindErased`); and a verified image is out of the reach of later writes
  (`VerifiedStays`). `StoredHere` is the arithmetic of rows: without an overrun, a
  write that fits stores all of its bytes.
* `VerifiedImages`: `VerifiedIsStored` itself, where the peer sends images only.
* `BleTypeCorrect`: `Spec => []TypeOK`, for archives of any content cut in any way. What
  is not obvious in it: the buffer never holds more than it asked for, no call
  consumes more than its block, and the component a file is written for is in the
  list. `TypeInv` is the types of the whole with what the turns need of each other;
  `FileBytesIs` and `PaddingIs` are the places where the parser's arithmetic
  modulo the word enters. The bytes of an archive are a flattened sequence of
  its entries, whose length and members come from `FlattenParts`.
* `ArchivesInOrder`: `ProperArchives => (Spec => []CoalesceInOrder)`. The property alone
  is not inductive: what the buffer may hold depends on what the parser expects
  there. `Follows` says that in a transfer that is as it should be, the parser
  knows its place. `Position` is the number of bytes read less those that wait in
  the buffer; `InList`, `Before` and `Inside` say in terms of `Layout`, where each
  entry of the archive begins, which part of it the position is in for each state
  of the context. The proof goes through the turns of `cy_untar_parse()` one by one
  (`CollectFollows` to `ReturnFollows`) and through the steps around it
  (`WriteFollows`, `DoneFollows`, `CommandFollows`).

  `ProperArchives` (in `OTABle`, and assumed in `MCBle`, so that TLC evaluates it on
  the run's archives) is what the code needs: a file that does not fit into its
  slot, or a type that is not known, fails the call with part of the block
  consumed; and after an empty file `cy_untar_parse()` drops its buffer, which
  holds bytes not yet used only when the list took two blocks. The last was met in
  this proof: `FileIs` does not go through without it (section 3.2).
* `ArchivesAreStored`: `ProperArchives /\ OneFileEach => (Spec => []ArchiveVerified)`: an
  archive that was verified has arrived (`Arrived`, the consequent of
  `VerifiedInPlace`): every file is in the slot of its type, byte by byte, and the
  slot that was erased holds nothing else. On top of `Follows`, `ArchiveInv` says
  what is in the slots. `FilesStored`: the bytes of files that are behind `Position`
  are in place, and what no file covers is erased. A turn either passes over no
  byte of a file (`Skips`, which every lemma about a turn concludes as well), or is
  the write of a piece, which comes to the place of its bytes in the archive less
  the header (`FileFills`) and, by `OneFileEach`, over no other file. `Counted` and
  `VerifiedKept`: in a clean transfer the CRC is that of `last_offset` bytes, and a
  clean transfer beside a verified archive is the verified one, complete: it
  began with `last_offset = 0`, which only `Prepare` brings back. `RawStored` is the
  archive whose first piece is shorter than a header, which is stored as it comes
  (`Raw`). At the end the buffer holds at most the two blocks of zeros, so that the
  position is behind every file (`FilesArrived`).
* `DownloadsAreStored`: hence `VerifiedIsStored` as the run checks it, for images and
  archives together, when every archive is `WellFormed`. The hypotheses are facts
  about the archives that are sent (what scripts/sign_script.bash makes of images
  that fit), none about the order of the commands.
* The library computes sequences with recursive functions. Induction enters by sets:
  `WFMin` of `WellFoundedInduction` gives the smallest number for which a claim fails
  (`SmallestOf`), and a claim stated as a set of numbers is then proved by
  `Induction`, without an operator as a parameter.

`BootTrailerProofs`, for every set of records and areas, and any number of
downloads, calls and power failures:

* `StatusInvariant`, `StatusImplementsPartition`: the partition on its own keeps
  `StatusInv` and implements `StatusPartition`; `TrailerUsesStatus`: every step of
  `BootTrailer` is a step of the partition or leaves it alone; hence
  `TrailerInvariant` and `TrailerUpdatesAreAtomic` for the whole.
* `StatusInv` is the types and `WritesObsoleteCopy`. The second is needed because
  an update is two steps: the power may fail between them, and a write that is
  under way must be known to go to the copy that is *not* the newest, with a
  counter above every valid one, for its completion to be seen and its loss not
  to matter. `ReplaceObsolete` is the lemma that says so of one record: replacing
  a copy that is not the newest by an invalid row changes nothing a read returns.
* The refinement maps a record to what a read returns (`ReadPayload`); the erase
  of the old copy and a cut are stutters or `Cut`, `EndUpdate` is `End`.

`BootHandoverProofs`, on top of it, for the hand-over itself, for every layout that
`LayoutAssumption` allows (the swap's status is the first record and lies in the
primary slot's area, a trailer lies in the area of its slot, and what a garbled
read may show is not a mark), and any number of downloads, calls and power
failures:

* `TrailerTypeCorrect`, `TrailerMagicIsLast` (`MagicIsLast`), `LoaderGoesOn`
  (`NoPanic`), `RequestStays` (`RequestNotLost`), `OwnSwapResumed`
  (`ResumesOwnSwap`), `TrialTakenBack` (`TrialReverts`) without further hypotheses
  than those in the properties; `ConfirmedStaysInstalled`: `ConfirmedStays` while no
  erase of an area was cut.
* The argument is that of a sequential program with crashes. `HandoverInv` reads the
  flash as a number of marks (`PMagic`, `PDone`, `SMagic`, ...). `FlashInv` relates the
  marks to the history (who asked, which image is on trial, which is confirmed)
  and must hold after *every* access, since the power may fail there. `PointInv`
  (`Stage`: `Finishing`, `Starting`, `OtherBoot`, `Calling`) says for each list of
  accesses still to do what is known besides. A crash drops the list and keeps
  `FlashInv`; a boot starts from `FlashInv` alone.
* `RowsInv` and `WritingInv` say what a cut write leaves: a valid row, an erased one or
  a torn one, and never a mixture of two payloads. `LastInv` (each copy of the
  trailer has its magic last) and `ReadableInv` (each record keeps a valid copy,
  or is blank) follow from them and from the order of the accesses.
* `harm.area` marks histories in which the erase of an area was cut; then an older
  copy of a record may come back, and the marks are no longer those of the history
  (section 3.2). `Known(F)` weakens each fact by it. `ConfirmedStays` is checked in
  the run without that restriction; which older copy a cut leaves would have to
  enter the invariant, and that case stays with TLC.

`OTAJobProofs`, for every set of documents, every version of the application and
every word width:

* `JobTypeCorrect`, `JobNamesServer` (`DataFromJobServer`), `JobIsNewer`
  (`UpdatesAreNewer`), `JobKnowsServer` (`KnowsItsServer`).
* None of them is inductive: the document is checked in `JOB_PARSE`, its server
  is taken in `JOB_REDIRECT`, and used three rows later. `JobInv` carries the
  facts along: `ParsedInv` (what waits for its redirect has passed all checks and
  was compared with the server still in use) and `StoringInv` (while there is a
  slot to write, the document has passed and the server is the one it names).
* `PassedIsNewer` is why a version that wraps is no way around the check: a part
  taken modulo the word is never above the part that was sent, so a version that
  passes wrapped passes unwrapped. That needs the application's own parts below
  the word, which is an assumption on the constants (`JobAssumption`).

`AlgorithmProofs`, for every flash, size of rows and sectors, width of an integer,
offset, length and content:

* `FlashKept`: `Spec => []FlashKeepsNeighbours`.
  * Rows (`RowsKept`): a write stores its data up to the first row that fails, and
    nothing else changes (`WriteIs`, `WriteChanges`); an erase clears its bytes and no
    others, though it erases whole rows and writes back what it must not lose
    (`EraseIs`), for an area that begins a row or leaves its first. The write back
    must itself fit into the flash: that is `RowFits`.
  * Areas (`AreasKept`): the rounding to sectors stays in the area (`Rounded`, `SectorsAre`;
    the areas are whole sectors, `AreasAre`), and the check before an access
    refuses whatever goes past the end of the area, also a length whose sum with the
    offset wraps (`RefusedAccess`).
* The assumptions are those of the layout: whole rows and sectors in the flash, a width
  that holds twice its size (`FlashAssumption`), room for the areas that the calls
  are made on (`AreasAssumption`). What is hard in it is division: a row is known by a
  quotient, so that each step needs what a quotient, its product and its rest say of
  one another (`RowOfIs`, `QuotientOrdered`).

Model-checked only, and why:

* all liveness properties (`SessionEnds`, `KeepsChecking`, `StopWhileWaiting`,
  `DownloadEnds` of both transports, `BootEnds`, `CallsReturn`): fairness and ENABLED
  are out of the prover's reach;
* `VerifiedIsStored` for archives that are not `WellFormed`: that the parser refuses them
  is a matter of what it takes for their headers, byte by byte;
* `CoalesceInOrder` for archives that are not `ProperArchives`: the parser does not keep
  its place in them, and the run has none either;
* `ArithmeticIsRight`: the loops over the words of a number end by what the numbers
  are, not by a count, and that the ladder computes a multiple of the point is the
  group law of the curve;
* `ConfirmedStays` after the erase of an area that was cut, and all agent, HTTP and
  MQTT properties outside the hypotheses above (section 3.2 says what the code does
  there).

## 6. Plan

Order of work, most important behaviour first:

1. done: `OTASession`, `OTAAgent`, `OTADownload`, `OTAHttpDownload`,
   `OTAMqttDownload`; `SwapStatus`, `StatusPartition`, `BootTrailer`; `OTAUntar`,
   `OTABle`; `OTAJob`; `MultiPrecision`, `CurvePoints`, `FlashAreas`; their runs
   and the proofs of section 5;
2. done: the proofs of the MQTT download, of the sessions, of the hand-over to the
   boot loader, of images and of archives over Bluetooth, and of the flash; left:
   `ConfirmedStays` after a cut erase of an area;
3. the Bluetooth build with a signature, whose write keeps back the end of the
   image, and the trailer of the PSoC 6;
4. the MQTT download that asks for one chunk at a time.

## 7. Not modelled

* Errors of RTOS calls (creating threads, timers, mutexes), logging, argument
  checks, queries of state and last error.
* `cy_ota_mqtt_get_data()` in its variant that asks for one chunk at a time
  (`CY_OTA_MQTT_GET_ALL_DATA_WITH_ONE_CALL` off).
* The signature over Bluetooth: the build that keeps the last bytes of the image
  back and verifies them (`CY_OTA_BLE_SECURE_SUPPORT` parts of cy_ota_ble.c), and
  `ota_ecdsa_verify()` with its hash; the arithmetic below them is modelled.
* The parse of a version inside an archive (`CY_TEST_APP_VERSION_IN_TAR`, off),
  encryption of slots and more than one image in the boot utilities (switches
  that are off in this repository's builds).
* MCUboot's swap of sectors: the loader's code is not here; the swap is one step
  of the model (`Exchange`), marked as done when it is done.
* The boot utilities of the PSoC 6 (a trailer in the slot, without a partition)
  and its flash map; `flash_area_read_is_empty()` there.
* TLS, the MQTT and HTTP libraries, the RTOS, the Bluetooth stack: seen by how
  this code uses them.
* The firmware data block (a table in ROM), the registers of the flash drivers,
  host scripts: no behaviour over time, or none of this project's own;
  `PROJECT.json` lists them with their reasons.
