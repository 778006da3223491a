-------------------------- MODULE OTAHttpDownload --------------------------
(***************************************************************************)
(* One download of the data over HTTP: cy_ota_http_get_data() of           *)
(* source/cy_ota_http.c, with cy_ota_http_send_get_response() and          *)
(* cy_ota_http_write_chunk_to_flash().  The image is fetched with ranged   *)
(* GET requests, one after the other, by the agent's thread alone; what is *)
(* hard is the bookkeeping of ranges, sizes and offsets, and the results   *)
(* of the server and of the application in between.                        *)
(*                                                                         *)
(* The slot is modelled byte by byte: slot[o] is the place in the image    *)
(* that the byte at offset o of the slot was taken from.                   *)
(***************************************************************************)
EXTENDS Integers, FiniteSets

CONSTANTS
  Chunk,            \* CY_OTA_CHUNK_SIZE
  BufferSize,       \* sizeof(ctx->chunk_buffer), what a response body must fit in
  Word,             \* 2^32: range_start and range_end are uint32_t
  Sizes,            \* the sizes the image may have
  Answers,          \* how the server may answer a request
  AppResults,       \* what the application's callback may return
  Erased            \* the content of a byte that was not written

\* "exact": the bytes asked for; "short": fewer of them; "unknown": the bytes,
\* and no total length ("bytes 0-4095/*", or no Content-Range); "error": none.
ServerAnswers == {"exact", "short", "unknown", "error"}
CallbackResults == {"CONTINUE", "STOP", "APP_SUCCESS", "APP_FAILED"}

ASSUME ChunkAssumption == Chunk \in Nat /\ Chunk > 2 /\ BufferSize \in Nat /\ BufferSize >= Chunk
ASSUME SizesAssumption ==
  Sizes # {} /\ Sizes \subseteq Nat \ {0} /\ \A n \in Sizes : n + 2 * Chunk < Word
ASSUME WordAssumption == Word \in Nat
ASSUME AnswersAssumption == Answers \subseteq ServerAnswers
ASSUME AppAssumption == AppResults \subseteq CallbackResults
ASSUME ErasedAssumption == Erased \notin Nat

VARIABLES
  image_size,           \* the size of the image the server holds
  total_image_size,     \* ctx->total_image_size, 0 until the server told it
  total_bytes_written,  \* ctx->total_bytes_written
  range_start,
  range_end,
  body,                 \* the body received: [first, size] in bytes of the image
  slot,
  result,
  pc

image   == <<image_size, slot>>
ranges  == <<range_start, range_end>>
vars    == <<image, total_image_size, total_bytes_written, ranges, body, result, pc>>

Offsets == 0..(image_size - 1)
NoBody  == [first |-> 0, size |-> 0]

Less(a, b) == IF a < b THEN a ELSE b

\* An erased slot, and the statistics cleared by cy_ota_data_download().
Init ==
  /\ image_size \in Sizes
  /\ slot = [o \in Offsets |-> Erased]
  /\ total_image_size = 0 /\ total_bytes_written = 0
  /\ range_start = 0 /\ range_end = Chunk - 1
  /\ body = NoBody /\ result = "SUCCESS" /\ pc = "begin"

\* The application is asked first, and may fetch the image itself.
GetData(r) ==
  /\ pc = "begin" /\ r \in AppResults
  /\ pc' = IF r = "CONTINUE" THEN "loop" ELSE "done"
  /\ result' = CASE r = "STOP"       -> "APP_RETURNED_STOP"
                 [] r = "APP_FAILED" -> "ERROR_GET_DATA"
                 [] OTHER            -> "SUCCESS"
  /\ slot' = IF r = "APP_SUCCESS" THEN [o \in Offsets |-> o] ELSE slot
  /\ UNCHANGED <<image_size, total_image_size, total_bytes_written, ranges, body>>

\* Mutant of Unfinished: the bytes still missing are not looked at.
UnfinishedAtFirst == total_bytes_written = 0 /\ range_end > range_start

\* The condition of the loop.
Unfinished ==
  /\ total_bytes_written = 0 \/ total_bytes_written < total_image_size
  /\ range_end > range_start

Finish ==
  /\ pc = "loop" /\ ~Unfinished
  /\ pc' = "done"
  /\ UNCHANGED <<image, total_image_size, total_bytes_written, ranges, body, result>>

\* The server holds bytes of the range, and their answer fits the buffer.
Available == Less(range_end + 1, image_size) - range_start
Answerable == range_start < image_size /\ Available <= BufferSize

\* cy_ota_http_send_get_response(): the first answer that tells the total size
\* is taken for it, and an answer that does not is as good.
Answered(answer) ==
  /\ pc = "loop" /\ Unfinished
  /\ answer \in Answers \ {"error"} /\ Answerable
  /\ body' \in {[first |-> range_start, size |-> n] :
                  n \in IF answer = "short" THEN 1..(Available - 1) ELSE {Available}}
  /\ total_image_size' = IF total_image_size = 0 /\ answer # "unknown"
                         THEN image_size ELSE total_image_size
  /\ result' = "SUCCESS" /\ pc' = "write"
  /\ UNCHANGED <<image, total_bytes_written, ranges>>

NotAnswered ==
  /\ pc = "loop" /\ Unfinished
  /\ "error" \in Answers \/ ~Answerable
  /\ result' = "ERROR_GET_DATA" /\ pc' = "done"
  /\ UNCHANGED <<image, total_image_size, total_bytes_written, ranges, body>>

\* Mutant of Written: the last byte of a body is left out.
WrittenShort(n) ==
  [o \in Offsets |-> IF o \in total_bytes_written..(total_bytes_written + n - 2)
                     THEN body.first + (o - total_bytes_written) ELSE slot[o]]

\* The body goes to the place after what was written before.
Written(n) ==
  [o \in Offsets |-> IF o \in total_bytes_written..(total_bytes_written + n - 1)
                     THEN body.first + (o - total_bytes_written) ELSE slot[o]]

\* Mutant of NextRange: the same range is asked for again.
NextRangeSame == UNCHANGED ranges

NextRange ==
  LET next == range_end + Chunk
  IN /\ range_start' = (range_end + 1) % Word
     /\ range_end' = IF next % Word > total_image_size
                     THEN (total_image_size - 1) % Word ELSE next % Word

\* Mutant of Counted: every body counts as a whole chunk.
CountedChunks == total_bytes_written + Chunk

Counted == total_bytes_written + body.size

\* cy_ota_http_write_chunk_to_flash() and the rest of the pass, when the chunk
\* was written by the agent (CONTINUE) or by the application (APP_SUCCESS).
WriteChunk(r) ==
  /\ pc = "write" /\ r \in AppResults \cap {"CONTINUE", "APP_SUCCESS"}
  /\ slot' = Written(body.size)
  /\ total_bytes_written' = Counted
  /\ NextRange
  /\ pc' = "loop" /\ result' = "SUCCESS" /\ body' = NoBody
  /\ UNCHANGED <<image_size, total_image_size>>

\* The application said STOP to a chunk: nothing is written, and the loop goes
\* on to the next range.
WriteStopped ==
  /\ pc = "write" /\ "STOP" \in AppResults
  /\ NextRange
  /\ pc' = "loop" /\ result' = "APP_RETURNED_STOP" /\ body' = NoBody
  /\ UNCHANGED <<image, total_image_size, total_bytes_written>>

\* The write fails half-way, or the application fails it.
WriteFails ==
  /\ pc = "write" /\ AppResults \cap {"CONTINUE", "APP_FAILED"} # {}
  /\ \E n \in 0..body.size :
       slot' = IF "CONTINUE" \in AppResults THEN Written(n) ELSE slot
  /\ pc' = "done" /\ result' = "ERROR_WRITE_STORAGE" /\ body' = NoBody
  /\ UNCHANGED <<image_size, total_image_size, total_bytes_written, ranges>>

Next ==
  \/ \E r \in CallbackResults : GetData(r) \/ WriteChunk(r)
  \/ \E answer \in ServerAnswers : Answered(answer)
  \/ NotAnswered \/ WriteStopped \/ WriteFails \/ Finish

Spec == Init /\ [][Next]_vars

\* The client's calls come back: each has a timeout.
FairSpec == Spec /\ WF_vars(Next)

-----------------------------------------------------------------------------
(* Properties                                                              *)

InPlace == {o \in Offsets : slot[o] = o}

\* Every variable of the download keeps to its type.
TypeOK ==
  /\ image_size \in Sizes
  /\ slot \in [Offsets -> Offsets \cup {Erased}]
  /\ total_image_size \in {0, image_size}
  /\ total_bytes_written \in 0..image_size
  /\ range_start \in 0..(Word - 1) /\ range_end \in 0..(Word - 1)
  /\ body \in [first : Nat, size : Nat]
  /\ result \in {"SUCCESS", "APP_RETURNED_STOP", "ERROR_GET_DATA", "ERROR_WRITE_STORAGE"}
  /\ pc \in {"begin", "loop", "write", "done"}

\* What is written is a prefix of the image, and the next range asked for starts
\* right behind it: two counts kept apart, one in bytes received and one in
\* bytes asked for, stay together.
PrefixInPlace ==
  /\ \A o \in 0..(total_bytes_written - 1) : slot[o] = o
  /\ pc = "write" \/ (pc = "loop" /\ Unfinished) => range_start = total_bytes_written

\* The download is reported as a success only with the whole image in place, the
\* last range included.  (It does not hold for an image of k * Chunk + 1 bytes,
\* whose last range the loop takes for an empty one, nor for short answers.)
SuccessIsComplete == pc = "done" /\ result = "SUCCESS" => InPlace = Offsets

Outcome == IF pc # "done" THEN "none" ELSE IF result = "SUCCESS" THEN "success" ELSE "failure"

Download == INSTANCE OTADownload
              WITH parts <- Offsets, stored <- InPlace, outcome <- Outcome

\* The HTTP download implements OTADownload: no byte in place is overwritten,
\* and its success means what the agent takes it for.
IsDownload == Download!Spec

\* Whatever the server and the application answer, the download ends.
DownloadEnds == <>(pc = "done")
=============================================================================
