----------------------- MODULE OTAHttpDownloadProofs -----------------------
(***************************************************************************)
(* Theorems about the HTTP download of OTAHttpDownload, for every chunk    *)
(* size, every width of the counters that holds the image, and every size  *)
(* of the image but those the loop loses the last byte of.                 *)
(***************************************************************************)
EXTENDS OTAHttpDownload, TLAPS

\* The server answers with the bytes asked for or not at all, the application
\* stops no chunk, and no image is one byte longer than its chunks.
Regular ==
  /\ Answers \subseteq {"exact", "error"}
  /\ "STOP" \notin AppResults
  /\ \A n \in Sizes, k \in Nat : n # k * Chunk + 1

\* uint32_t arithmetic is exact within the word.
LEMMA WithinWord ==
  ASSUME NEW x \in Nat, NEW w \in Nat, x < w
  PROVE  x % w = x
  OBVIOUS

\* The end of the range that starts at a place: a whole chunk, cut at the image.
EndOf(start) ==
  IF start + Chunk - 1 > image_size THEN image_size - 1 ELSE start + Chunk - 1

DataOK ==
  /\ image_size \in Sizes
  /\ slot \in [Offsets -> Offsets \cup {Erased}]
  /\ total_bytes_written \in 0..image_size
  /\ total_image_size \in {0, image_size}
  /\ pc \in {"begin", "loop", "write", "done"}
  /\ result \in {"SUCCESS", "APP_RETURNED_STOP", "ERROR_GET_DATA", "ERROR_WRITE_STORAGE"}

Prefix == \A o \in 0..(total_bytes_written - 1) : slot[o] = o

\* The first request has not been answered yet.
First ==
  /\ total_bytes_written = 0 /\ range_start = 0 /\ range_end = Chunk - 1

\* The next range starts at a whole number of chunks, right behind the prefix.
Behind ==
  /\ range_start = total_bytes_written /\ total_bytes_written < image_size
  /\ range_end = EndOf(range_start)
  /\ \E k \in Nat : range_start = k * Chunk

RangeOK ==
  /\ pc = "begin" => First
  /\ pc \in {"begin", "loop", "write"} => result = "SUCCESS"
  /\ pc = "loop" => \/ First
                    \/ total_image_size = image_size
                       /\ (total_bytes_written = image_size \/ Behind)
  /\ pc = "write" =>
       /\ First \/ Behind
       /\ total_image_size = image_size
       /\ body = [first |-> range_start, size |-> Available]
       /\ Available \in 1..(image_size - range_start)

\* The inductive invariant.
HttpInv ==
  /\ DataOK /\ Prefix /\ RangeOK
  /\ pc = "done" /\ result = "SUCCESS" => InPlace = Offsets

\* The constants as numbers.
LEMMA Numbers ==
  /\ Chunk \in Nat /\ Chunk > 2 /\ Word \in Nat
  /\ \A n \in Sizes : n \in Nat /\ n > 0 /\ n + 2 * Chunk < Word
  BY ChunkAssumption, WordAssumption, SizesAssumption

\* The initial state satisfies the invariant.
LEMMA HttpInit == Init => HttpInv
  BY Numbers DEF Init, HttpInv, DataOK, Prefix, RangeOK, First, Offsets

\* While the invariant holds, a loop that ends has written the whole image.
LEMMA FinishedIsWhole ==
  ASSUME Regular, HttpInv, pc = "loop", ~Unfinished
  PROVE  total_bytes_written = image_size
<1>1. ~First
  BY Numbers DEF First, Unfinished
<1>2. ~Behind
  <2> SUFFICES ASSUME Behind PROVE FALSE
    OBVIOUS
  <2>1. total_image_size = image_size
    BY <1>1 DEF HttpInv, RangeOK
  <2>2. image_size \in Nat /\ range_start \in Nat /\ total_bytes_written \in Nat
    BY Numbers DEF HttpInv, DataOK, Behind
  <2>3. range_end <= range_start
    BY <2>1, <2>2, Numbers DEF Behind, Unfinished, EndOf, HttpInv, DataOK
  <2>4. image_size = range_start + 1
    BY <2>2, <2>3, Numbers DEF Behind, EndOf
  <2> QED BY <2>4 DEF Behind, Regular, HttpInv, DataOK
<1> QED BY <1>1, <1>2 DEF HttpInv, RangeOK

\* A prefix of the image's length is the image.
LEMMA WholePrefix ==
  ASSUME HttpInv, total_bytes_written = image_size
  PROVE  InPlace = Offsets
  BY Numbers DEF HttpInv, DataOK, Prefix, InPlace, Offsets

\* Writing a body leaves the slot well typed and the bytes before it in place.
LEMMA WrittenSlot ==
  ASSUME HttpInv, pc = "write", NEW n \in 0..body.size
  PROVE  /\ Written(n) \in [Offsets -> Offsets \cup {Erased}]
         /\ \A o \in 0..(total_bytes_written + n - 1) : Written(n)[o] = o
         /\ \A o \in Offsets : slot[o] = o => Written(n)[o] = o
<1>1. /\ body.first = total_bytes_written /\ body.size \in 1..(image_size - total_bytes_written)
      /\ total_bytes_written \in Nat /\ image_size \in Nat
  BY Numbers DEF HttpInv, DataOK, RangeOK, First, Behind
<1>2. n \in Nat /\ total_bytes_written + n <= image_size
  BY <1>1
<1>3. \A o \in Offsets :
        Written(n)[o] = IF o \in total_bytes_written..(total_bytes_written + n - 1)
                        THEN o ELSE slot[o]
  BY <1>1, <1>2 DEF Written, Offsets
<1>4. slot \in [Offsets -> Offsets \cup {Erased}] /\ Prefix
  BY DEF HttpInv, DataOK
<1>5. DOMAIN Written(n) = Offsets
  BY DEF Written
<1>6. Written(n) \in [Offsets -> Offsets \cup {Erased}]
  <2>1. Written(n) = [o \in Offsets |-> Written(n)[o]]
    BY DEF Written
  <2>2. \A o \in Offsets : Written(n)[o] \in Offsets \cup {Erased}
    BY <1>3, <1>4
  <2> QED BY <2>1, <2>2
<1>7. ASSUME NEW o \in 0..(total_bytes_written + n - 1) PROVE Written(n)[o] = o
  <2>1. o \in Offsets
    BY <1>1, <1>2 DEF Offsets
  <2>2. CASE o \in 0..(total_bytes_written - 1)
    BY <2>1, <2>2, <1>3, <1>4 DEF Prefix
  <2>3. CASE o \notin 0..(total_bytes_written - 1)
    BY <2>1, <2>3, <1>1, <1>2, <1>3
  <2> QED BY <2>2, <2>3
<1> QED BY <1>3, <1>6, <1>7

\* The answer of a regular server is the body the invariant describes.
LEMMA AnsweredKeeps ==
  ASSUME Regular, HttpInv, NEW answer \in ServerAnswers, Answered(answer)
  PROVE  HttpInv'
<1>1. answer = "exact"
  BY DEF Answered, Regular
<1>2. body' = [first |-> range_start, size |-> Available] /\ total_image_size' = image_size
  <2>1. total_image_size \in {0, image_size}
    BY DEF HttpInv, DataOK
  <2> QED BY <1>1, <2>1 DEF Answered
<1>3. /\ image_size' = image_size /\ slot' = slot /\ total_bytes_written' = total_bytes_written
      /\ range_start' = range_start /\ range_end' = range_end
      /\ pc = "loop" /\ pc' = "write" /\ result' = "SUCCESS"
  BY DEF Answered, image, ranges
<1>4. First \/ Behind
  <2>1. ~(total_image_size = image_size /\ total_bytes_written = image_size /\ ~First)
    BY Numbers DEF Answered, Unfinished, First, HttpInv, DataOK
  <2> QED BY <1>3, <2>1 DEF HttpInv, RangeOK
<1>5. Available \in 1..(image_size - range_start)
  <2>1. range_start < image_size
    BY DEF Answered, Answerable
  <2>2. /\ image_size \in Nat /\ range_start \in Nat /\ range_end \in Nat
        /\ range_end >= range_start
    BY <1>4, Numbers DEF HttpInv, DataOK, First, Behind, EndOf
  <2> QED BY <2>1, <2>2 DEF Available, Less
<1>6. Available' = Available /\ (First' <=> First) /\ (Behind' <=> Behind)
  BY <1>3 DEF Available, Less, First, Behind, EndOf
<1>7. DataOK'
  BY <1>2, <1>3 DEF HttpInv, DataOK, Offsets
<1>8. Prefix'
  BY <1>3 DEF HttpInv, Prefix
<1>9. RangeOK'
  BY <1>2, <1>3, <1>4, <1>5, <1>6 DEF RangeOK
<1> QED BY <1>3, <1>7, <1>8, <1>9 DEF HttpInv

\* A chunk that was written is followed by the next range, or was the last one.
LEMMA WriteKeeps ==
  ASSUME Regular, HttpInv, NEW r \in CallbackResults, WriteChunk(r)
  PROVE  HttpInv'
<1>1. /\ pc = "write" /\ pc' = "loop" /\ result' = "SUCCESS"
      /\ image_size' = image_size /\ total_image_size' = total_image_size
      /\ total_image_size = image_size
      /\ slot' = Written(body.size)
      /\ total_bytes_written' = total_bytes_written + body.size
      /\ NextRange
  BY DEF WriteChunk, Counted, HttpInv, RangeOK
<1>2. /\ First \/ Behind
      /\ body.first = range_start /\ body.size = Available
      /\ Available \in 1..(image_size - range_start)
  BY <1>1 DEF HttpInv, RangeOK
<1>3. /\ image_size \in Nat /\ range_start \in Nat /\ range_end \in Nat
      /\ total_bytes_written = range_start /\ range_start < image_size
      /\ Chunk \in Nat /\ Chunk > 2 /\ Word \in Nat /\ image_size + 2 * Chunk < Word
  BY <1>2, Numbers DEF HttpInv, DataOK, First, Behind, EndOf
<1>4. body.size \in 0..body.size
  BY <1>2, <1>3
<1>5. DataOK' /\ Prefix'
  <2>1. /\ slot' \in [Offsets -> Offsets \cup {Erased}]
        /\ \A o \in 0..(total_bytes_written' - 1) : slot'[o] = o
    <3>1. /\ Written(body.size) \in [Offsets -> Offsets \cup {Erased}]
          /\ \A o \in 0..(total_bytes_written + body.size - 1) : Written(body.size)[o] = o
      BY <1>1, <1>4, WrittenSlot
    <3>2. slot' = Written(body.size) /\ total_bytes_written' = total_bytes_written + body.size
      BY <1>1
    <3>3. total_bytes_written \in Nat /\ body.size \in Nat
      BY <1>2, <1>3
    <3> QED BY <3>1, <3>2, <3>3
  <2>2. total_bytes_written' \in 0..image_size
    BY <1>1, <1>2, <1>3
  <2> QED BY <1>1, <2>1, <2>2 DEF HttpInv, DataOK, Offsets, Prefix
<1>6. total_bytes_written' = image_size \/ Behind'
  <2> SUFFICES ASSUME total_bytes_written' # image_size PROVE Behind'
    OBVIOUS
  <2>1. range_end = range_start + Chunk - 1 /\ range_end + 1 < image_size
    BY <1>1, <1>2, <1>3 DEF First, Behind, EndOf, Available, Less
  <2>2. total_bytes_written' = range_start + Chunk
    BY <1>1, <1>2, <1>3, <2>1 DEF Available, Less
  <2>3. (range_end + 1) % Word = range_start + Chunk
    <3>1. range_end + 1 = range_start + Chunk /\ range_end + 1 \in Nat /\ range_end + 1 < Word
      BY <1>3, <2>1
    <3> QED BY <1>3, <3>1, WithinWord
  <2>4. (range_end + Chunk) % Word = range_end + Chunk
    <3>1. range_end + Chunk \in Nat /\ range_end + Chunk < Word
      BY <1>3, <2>1
    <3> QED BY <1>3, <3>1, WithinWord
  <2>5. (image_size - 1) % Word = image_size - 1
    <3>1. image_size - 1 \in Nat /\ image_size - 1 < Word
      BY <1>3
    <3> QED BY <1>3, <3>1, WithinWord
  <2>6. /\ range_start' = range_start + Chunk
        /\ range_end' = IF range_end + Chunk > image_size THEN image_size - 1
                        ELSE range_end + Chunk
    BY <1>1, <2>3, <2>4, <2>5 DEF NextRange
  <2>7. range_end' = EndOf(range_start)'
    BY <1>1, <1>3, <2>1, <2>6 DEF EndOf
  <2>8. \E k \in Nat : range_start' = k * Chunk
    <3>1. PICK k \in Nat : range_start = k * Chunk
      <4>1. CASE First
        <5>1. 0 = 0 * Chunk
          BY <1>3
        <5> QED BY <4>1, <5>1 DEF First
      <4>2. CASE Behind
        BY <4>2 DEF Behind
      <4> QED BY <1>2, <4>1, <4>2
    <3>2. k + 1 \in Nat /\ range_start' = (k + 1) * Chunk
      BY <1>3, <2>6, <3>1
    <3> QED BY <3>2
  <2>9. range_start' = total_bytes_written' /\ total_bytes_written' < image_size'
    BY <1>1, <1>3, <2>1, <2>2, <2>6
  <2> QED BY <2>7, <2>8, <2>9 DEF Behind
<1>7. RangeOK'
  BY <1>1, <1>6 DEF RangeOK
<1> QED BY <1>1, <1>5, <1>7 DEF HttpInv

\* The download ends with what is written, or with an error.
LEMMA EndKeeps ==
  ASSUME Regular, HttpInv,
         NotAnswered \/ WriteFails \/ Finish \/ \E r \in CallbackResults : GetData(r)
  PROVE  HttpInv'
<1>1. CASE NotAnswered
  BY <1>1 DEF NotAnswered, HttpInv, DataOK, Prefix, RangeOK, Offsets, image, ranges
<1>2. CASE WriteFails
  <2>1. PICK n \in 0..body.size : slot' = (IF "CONTINUE" \in AppResults THEN Written(n) ELSE slot)
    BY <1>2 DEF WriteFails
  <2>2. slot' \in [Offsets -> Offsets \cup {Erased}]
        /\ \A o \in 0..(total_bytes_written - 1) : slot'[o] = o
    <3>1. CASE slot' = slot
      BY <3>1 DEF HttpInv, DataOK, Prefix
    <3>2. CASE slot' = Written(n)
      <4>1. pc = "write" /\ total_bytes_written \in Nat
        BY <1>2, Numbers DEF WriteFails, HttpInv, DataOK
      <4>2. n \in Nat
        BY <4>1, Numbers DEF HttpInv, RangeOK, DataOK
      <4>3. \A o \in 0..(total_bytes_written - 1) : o \in 0..(total_bytes_written + n - 1)
        BY <4>1, <4>2
      <4> QED BY <3>2, <4>1, <4>3, WrittenSlot
    <3> QED BY <2>1, <3>1, <3>2
  <2> QED BY <1>2, <2>2 DEF WriteFails, HttpInv, DataOK, Prefix, RangeOK, Offsets, ranges
<1>3. CASE Finish
  <2>1. InPlace = Offsets
    BY <1>3, FinishedIsWhole, WholePrefix DEF Finish
  <2> QED BY <1>3, <2>1
          DEF Finish, HttpInv, DataOK, Prefix, RangeOK, Offsets, InPlace, image, ranges
<1>4. ASSUME NEW r \in CallbackResults, GetData(r) PROVE HttpInv'
  <2>1. /\ pc = "begin" /\ First /\ image_size' = image_size
        /\ total_image_size' = total_image_size /\ total_bytes_written' = 0
        /\ range_start' = range_start /\ range_end' = range_end
        /\ pc' = (IF r = "CONTINUE" THEN "loop" ELSE "done")
        /\ slot' = (IF r = "APP_SUCCESS" THEN [o \in Offsets |-> o] ELSE slot)
    BY <1>4 DEF GetData, HttpInv, RangeOK, First, ranges
  <2>2. /\ result' \in {"SUCCESS", "APP_RETURNED_STOP", "ERROR_GET_DATA"}
        /\ result' = "SUCCESS" <=> r \in {"CONTINUE", "APP_SUCCESS"}
    <3>1. "STOP" \notin AppResults /\ r \in AppResults
      BY <1>4 DEF Regular, GetData
    <3> QED BY <1>4, <3>1 DEF GetData, CallbackResults
  <2>3. image_size \in Nat
    BY Numbers DEF HttpInv, DataOK
  <2>4. DataOK'
    BY <2>1, <2>2, <2>3 DEF HttpInv, DataOK, Offsets
  <2>5. Prefix'
    BY <2>1 DEF Prefix
  <2>6. RangeOK'
    BY <2>1, <2>2 DEF RangeOK, First
  <2>7. pc' = "done" /\ result' = "SUCCESS" => InPlace' = Offsets'
    BY <2>1, <2>2 DEF InPlace, Offsets
  <2> QED BY <2>4, <2>5, <2>6, <2>7 DEF HttpInv
<1> QED BY <1>1, <1>2, <1>3, <1>4

\* Every step keeps the invariant.
LEMMA HttpStep == ASSUME Regular, HttpInv, [Next]_vars PROVE HttpInv'
<1>1. CASE UNCHANGED vars
  BY <1>1 DEF vars, image, ranges, HttpInv, DataOK, Prefix, RangeOK, First, Behind, EndOf,
              Available, Less, InPlace, Offsets
<1>2. CASE WriteStopped
  BY <1>2 DEF WriteStopped, Regular
<1> QED BY <1>1, <1>2, AnsweredKeeps, WriteKeeps, EndKeeps DEF Next

\* The invariant always holds.
LEMMA HttpAlways == ASSUME Regular PROVE Spec => []HttpInv
<1>1. Init => HttpInv
  BY HttpInit
<1>2. HttpInv /\ [Next]_vars => HttpInv'
  BY HttpStep
<1> QED BY <1>1, <1>2, PTL DEF Spec

\* What is written is a prefix of the image, and the next range asked for starts
\* right behind it.
THEOREM Prefixes == ASSUME Regular PROVE Spec => []PrefixInPlace
<1>1. HttpInv => PrefixInPlace
  <2> SUFFICES ASSUME HttpInv PROVE PrefixInPlace
    OBVIOUS
  <2>1. Prefix
    BY DEF HttpInv
  <2>2. CASE pc = "write"
    BY <2>1, <2>2 DEF HttpInv, RangeOK, First, Behind, PrefixInPlace, Prefix
  <2>3. CASE pc = "loop" /\ Unfinished
    BY <2>1, <2>3, Numbers DEF HttpInv, DataOK, RangeOK, First, Behind, Unfinished, PrefixInPlace, Prefix
  <2> QED BY <2>1, <2>2, <2>3 DEF PrefixInPlace, Prefix
<1> QED BY <1>1, HttpAlways, PTL

\* A download that is a success has the whole image in place.
THEOREM Complete == ASSUME Regular PROVE Spec => []SuccessIsComplete
<1>1. HttpInv => SuccessIsComplete
  BY DEF HttpInv, SuccessIsComplete
<1> QED BY <1>1, HttpAlways, PTL

\* The range stays within its uint32_t, and a body is a range of bytes.
RangesTyped ==
  /\ range_start \in 0..(Word - 1) /\ range_end \in 0..(Word - 1)
  /\ body \in [first : Nat, size : Nat]

\* Every step keeps the types that the invariant does not mention.
LEMMA RangesStep ==
  HttpInv /\ RangesTyped /\ [Next]_vars => RangesTyped'
<1> SUFFICES ASSUME HttpInv, RangesTyped, [Next]_vars PROVE RangesTyped'
  OBVIOUS
<1>0. /\ Word \in Nat /\ Word > 0 /\ Chunk \in Nat /\ image_size \in Nat
      /\ range_start \in Nat /\ range_end \in Nat
  BY Numbers DEF HttpInv, DataOK, RangesTyped
<1>1. CASE NextRange /\ body' = NoBody
  <2>1. /\ range_end + Chunk \in Int /\ range_end + 1 \in Int /\ total_image_size - 1 \in Int
    BY <1>0 DEF HttpInv, DataOK
  <2>2. \A x \in Int : x % Word \in 0..(Word - 1)
    BY <1>0
  <2>3. range_start' \in 0..(Word - 1)
    BY <1>1, <2>1, <2>2 DEF NextRange
  <2>4. range_end' \in 0..(Word - 1)
    BY <1>1, <2>1, <2>2 DEF NextRange
  <2> QED BY <1>1, <2>3, <2>4 DEF RangesTyped, NoBody
<1>2. CASE UNCHANGED ranges /\ body' \in {body, NoBody}
  BY <1>2 DEF RangesTyped, ranges, NoBody
<1>3. ASSUME NEW answer \in ServerAnswers, Answered(answer) PROVE RangesTyped'
  <2>1. Available \in Nat
    BY <1>0, <1>3 DEF Answered, Answerable, Unfinished, Available, Less
  <2>2. \E n \in Nat : body' = [first |-> range_start, size |-> n]
    BY <1>3, <2>1 DEF Answered
  <2> QED BY <1>0, <1>3, <2>2 DEF Answered, RangesTyped, ranges
<1> QED
  BY <1>1, <1>2, <1>3
     DEF Next, GetData, WriteChunk, NotAnswered, WriteStopped, WriteFails, Finish, vars

\* Every variable of the download keeps to its type: the bytes counted as written
\* never outnumber those of the image.
THEOREM HttpTypeCorrect == ASSUME Regular PROVE Spec => []TypeOK
<1>1. Init => RangesTyped
  <2>1. \E n \in Sizes : n \in Nat /\ n + 2 * Chunk < Word
    BY SizesAssumption, Numbers
  <2> QED BY <2>1, Numbers DEF Init, RangesTyped, NoBody
<1>2. HttpInv /\ RangesTyped => TypeOK
  BY DEF HttpInv, DataOK, RangesTyped, TypeOK
<1> QED BY <1>1, <1>2, HttpAlways, RangesStep, PTL DEF Spec

\* An outcome that comes of a failing step is a failure of the abstract download.
LEMMA FailsAbstractly ==
  ASSUME HttpInv, pc # "done", pc' = "done", result' # "SUCCESS",
         image_size' = image_size, InPlace \subseteq InPlace'
  PROVE  Download!Fail
<1>1. InPlace' \in SUBSET Offsets /\ Offsets' = Offsets
  BY DEF InPlace, Offsets
<1> QED BY <1>1 DEF Download!Fail, Outcome

\* Every step is a step of the abstract download, or none at all.
LEMMA DownloadStep ==
  ASSUME Regular, HttpInv, HttpInv', [Next]_vars
  PROVE  [Download!Next]_(Download!vars)
<1>1. CASE UNCHANGED vars
  BY <1>1 DEF vars, image, ranges, Download!vars, Outcome, InPlace, Offsets
<1>2. ASSUME NEW answer \in ServerAnswers, Answered(answer) PROVE UNCHANGED Download!vars
  BY <1>2 DEF Answered, image, Download!vars, Outcome, InPlace, Offsets
<1>3. ASSUME NEW r \in CallbackResults, WriteChunk(r) PROVE Download!Store
  <2>1. /\ pc = "write" /\ pc' = "loop" /\ image_size' = image_size
        /\ slot' = Written(body.size)
    BY <1>3 DEF WriteChunk
  <2>2. body.size \in 0..body.size
    BY <2>1, Numbers DEF HttpInv, DataOK, RangeOK
  <2>3. Offsets' = Offsets /\ InPlace \subseteq InPlace'
    BY <2>1, <2>2, WrittenSlot DEF InPlace, Offsets
  <2>4. InPlace' \in SUBSET Offsets
    BY <2>3 DEF InPlace
  <2> QED BY <2>1, <2>3, <2>4 DEF Download!Store, Outcome
<1>4. CASE NotAnswered
  <2>1. InPlace' = InPlace
    BY <1>4 DEF NotAnswered, image, InPlace, Offsets
  <2>2. Download!Fail
    BY <1>4, <2>1, FailsAbstractly DEF NotAnswered, image
  <2> QED BY <2>2 DEF Download!Next
<1>5. CASE WriteFails
  <2>1. PICK n \in 0..body.size : slot' = (IF "CONTINUE" \in AppResults THEN Written(n) ELSE slot)
    BY <1>5 DEF WriteFails
  <2>2. pc = "write" /\ image_size' = image_size
    BY <1>5 DEF WriteFails
  <2>3. \A o \in Offsets : slot[o] = o => slot'[o] = o
    BY <2>1, <2>2, WrittenSlot
  <2>4. InPlace \subseteq InPlace'
    BY <2>2, <2>3 DEF InPlace, Offsets
  <2>5. Download!Fail
    BY <1>5, <2>4, FailsAbstractly DEF WriteFails
  <2> QED BY <2>5 DEF Download!Next
<1>6. CASE Finish
  <2>1. result' = "SUCCESS" /\ pc' = "done" /\ pc = "loop" /\ image_size' = image_size
    BY <1>6 DEF Finish, image, HttpInv, RangeOK
  <2>2. InPlace' = Offsets' /\ Offsets' = Offsets
    BY <2>1 DEF HttpInv, Offsets
  <2>3. Download!Succeed
    BY <2>1, <2>2 DEF Download!Succeed, Outcome
  <2> QED BY <2>3 DEF Download!Next
<1>7. ASSUME NEW r \in CallbackResults, GetData(r)
      PROVE  [Download!Next]_(Download!vars)
  <2>1. pc = "begin" /\ image_size' = image_size /\ Offsets' = Offsets
    BY <1>7 DEF GetData, Offsets
  <2>2. CASE r = "CONTINUE"
    BY <1>7, <2>1, <2>2 DEF GetData, Download!vars, Outcome, InPlace
  <2>3. CASE r = "APP_SUCCESS"
    <3>1. pc' = "done" /\ result' = "SUCCESS"
      BY <1>7, <2>3 DEF GetData
    <3>2. InPlace' = Offsets'
      BY <3>1 DEF HttpInv
    <3>3. Download!Succeed
      BY <2>1, <3>1, <3>2 DEF Download!Succeed, Outcome
    <3> QED BY <3>3 DEF Download!Next
  <2>4. CASE r \notin {"CONTINUE", "APP_SUCCESS"}
    <3>1. r = "APP_FAILED"
      BY <1>7, <2>4 DEF Regular, GetData, CallbackResults
    <3>2. pc' = "done" /\ result' = "ERROR_GET_DATA" /\ slot' = slot
      BY <1>7, <3>1 DEF GetData
    <3>3. InPlace \subseteq InPlace'
      BY <2>1, <3>2 DEF InPlace
    <3>4. Download!Fail
      BY <2>1, <3>2, <3>3, FailsAbstractly
    <3> QED BY <3>4 DEF Download!Next
  <2> QED BY <2>2, <2>3, <2>4
<1>8. CASE WriteStopped
  BY <1>8 DEF WriteStopped, Regular
<1> QED BY <1>1, <1>2, <1>3, <1>4, <1>5, <1>6, <1>7, <1>8 DEF Next, Download!Next

\* The HTTP download implements the download of OTADownload.
THEOREM Implements == ASSUME Regular PROVE Spec => IsDownload
<1>1. Init => Download!Init
  BY ErasedAssumption DEF Init, Download!Init, Outcome, InPlace, Offsets
<1>2. HttpInv /\ HttpInv' /\ [Next]_vars => [Download!Next]_(Download!vars)
  BY DownloadStep
<1> QED BY <1>1, <1>2, HttpAlways, PTL DEF Spec, IsDownload, Download!Spec
=============================================================================
