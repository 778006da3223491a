------------------------------ MODULE OTAUntar ------------------------------
(***************************************************************************)
(* Where a block of the download goes: cy_ota_write_incoming_data_block()  *)
(* of source/cy_ota_untar.c, with cy_untar_parse() of                      *)
(* source/port_support/untar/untar.c.  A plain image is written as it      *)
(* comes; a tar archive is taken apart, header by header, and each of its  *)
(* files goes to the slot of its type.  The stream arrives cut anywhere,   *)
(* and what does not fit together yet waits in the coalesce buffer.        *)
(*                                                                         *)
(* A byte is <<stream, part, file, index>>: where it was in what was sent. *)
(* A header is the name and the size (byte 0), the magic (byte 1) and the  *)
(* rest.  One action is one turn of a loop of cy_untar_parse().            *)
(***************************************************************************)
EXTENDS Integers, Sequences, SequencesExt

CONSTANTS
  Block,        \* TAR_BLOCK_SIZE
  HeaderSize,   \* sizeof(ustar_header_t)
  Row,          \* CY_FLASH_SIZEOF_ROW
  SlotSize,     \* the size of a secondary slot
  Word,         \* 2^32
  Streams,      \* the images and archives that may be sent
  Contents      \* [Streams -> what the stream holds]

ASSUME BlockAssumption ==
  /\ HeaderSize \in 2..Block /\ Block \in Nat /\ Row \in Nat \ {0}
  /\ SlotSize \in Nat /\ SlotSize % Row = 0 /\ Word \in Nat /\ SlotSize < Word

\* An image that is sent has bytes; "none" is no stream.  An archive has a list
\* of components of some length, and files; so has the list once it is parsed.
ASSUME ContentsAssumption ==
  /\ "none" \notin Streams
  /\ \A s \in Streams :
       /\ ~Contents[s].archive => Contents[s].size \in Nat \ {0}
       /\ Contents[s].list \in Nat
       /\ \A f \in {Contents[s].files, Contents[s].listed} :
            /\ Len(f) \in Nat /\ DOMAIN f = 1..Len(f)
            /\ \A k \in 1..Len(f) : f[k].size \in Nat

VARIABLES
  ctxt,       \* ota_untar_context, without its coalesce buffer
  coalesce,   \* coalesce_needs, coalesce_stream_offset and coalesce_buffer
  is_tar,     \* ctx->ota_is_tar_archive
  call,       \* the call of cy_ota_write_incoming_data_block()
  slots,      \* the secondary slots
  overrun     \* bytes were copied past the end of block_buffer

parser    == <<ctxt, coalesce>>
store     == <<slots, overrun>>
untarVars == <<parser, is_tar, call, store>>

---------------------------------------------------------------------------
(* A stream: an image, or the archive that scripts/sign_script.bash makes. *)

Part(s, part, file, n) == [i \in 1..n |-> <<s, part, file, i - 1>>]
RoundUp(n) == ((n + Block - 1) \div Block) * Block
Entry(s, part, file, n) ==
  Part(s, "header", file, Block) \o Part(s, part, file, n) \o Part(s, "zero", file, RoundUp(n) - n)

\* components.json comes first, two blocks of zeros end the archive.
Bytes ==
  [s \in Streams |->
     LET c == Contents[s]
     IN  IF ~c.archive THEN Part(s, "image", 0, c.size)
         ELSE    Entry(s, "list", 0, c.list)
              \o FlattenSeq([k \in DOMAIN c.files |-> Entry(s, "file", k, c.files[k].size)])
              \o Part(s, "zero", 0, 2 * Block)]

ErasedByte == <<"-", "erased", 0, 0>>
ErasedSlot == [p \in 0..(SlotSize - 1) |-> ErasedByte]
Images     == {0, 1}

Least(a, b) == IF a < b THEN a ELSE b
From(seq, i) == SubSeq(seq, i, Len(seq))

---------------------------------------------------------------------------
(* write_data_to_flash(): whole rows as they are, the rest through block_buffer *)

LastPart(offset, n) == offset + (n \div Row) * Row
RowEnd(p)           == (p \div Row + 1) * Row
StoreEnd(offset, n) == IF n % Row = 0 THEN offset + n ELSE RowEnd(LastPart(offset, n))
\* Where the chunk ends that the byte at p is written with.
ChunkEnd(offset, n, p) ==
  IF p < LastPart(offset, n) THEN offset + ((p - offset) \div Row + 1) * Row
  ELSE StoreEnd(offset, n)
Overruns(offset, n) == n % Row # 0 /\ offset + n > RowEnd(LastPart(offset, n))

\* What goes past block_buffer is not written to the flash, and the flash map
\* refuses a row that does not fit.
Stored(slot, offset, bytes) ==
  LET n == Len(bytes)
      IsStored(p) == /\ p \in offset..(offset + n - 1)
                     /\ p < StoreEnd(offset, n)
                     /\ ChunkEnd(offset, n, p) <= SlotSize
  IN  [p \in DOMAIN slot |-> IF IsStored(p) THEN bytes[p - offset + 1] ELSE slot[p]]

Fits(offset, n) == StoreEnd(offset, n) <= SlotSize

Store(img, offset, bytes) ==
  /\ slots' = [slots EXCEPT ![img] = Stored(@, offset, bytes)]
  /\ overrun' = (overrun \/ Overruns(offset, Len(bytes)))

---------------------------------------------------------------------------
(* cy_ota_write_incoming_data_block() *)

NewContext == [state |-> "FIND_HEADER", parsed |-> FALSE, listed |-> <<>>, num_files |-> 0,
               current |-> 0, size |-> 0, header_offset |-> 0, processed |-> 0]
NoCoalesce == [needs |-> 0, at |-> 0, bytes |-> <<>>]
NoCall     == [status |-> "none", offset |-> 0, block |-> <<>>, base |-> 0, consumed |-> 0]

\* cy_is_tar_header()
IsTarHeader(b) ==
  Len(b) >= HeaderSize /\ b[2][2] = "header" /\ b[2][4] = 1

UntarInit ==
  /\ ctxt = NewContext /\ coalesce = NoCoalesce /\ is_tar = FALSE
  /\ call = NoCall
  /\ slots = [i \in Images |-> ErasedSlot] /\ overrun = FALSE

Started(offset, block, status) ==
  [status |-> status, offset |-> offset, block |-> block, base |-> 0, consumed |-> 0]

\* The first block tells an archive from an image.
StartsArchive(offset, block) == offset = 0 /\ IsTarHeader(block)

ArchiveBlock(offset, block) ==
  /\ call.status = "none"
  /\ is_tar \/ StartsArchive(offset, block)
  /\ is_tar' = TRUE
  /\ ctxt' = IF StartsArchive(offset, block) THEN NewContext ELSE ctxt
  /\ coalesce' = IF StartsArchive(offset, block) THEN NoCoalesce ELSE coalesce
  /\ call' = Started(offset, block, "parse")
  /\ UNCHANGED store

ImageBlock(offset, block) ==
  /\ call.status = "none"
  /\ ~is_tar /\ ~StartsArchive(offset, block)
  /\ Store(0, offset, block)
  /\ call' = Started(offset, block, IF Fits(offset, Len(block)) THEN "stored" ELSE "failed")
  /\ UNCHANGED <<parser, is_tar>>

---------------------------------------------------------------------------
(* cy_untar_parse(): what is left of the block, and what the loop looks at *)

Rest == From(call.block, call.base + call.consumed + 1)
Now  == call.offset + call.base + call.consumed

Parsing   == call.status = "parse" /\ Rest # <<>>
Collected == Len(coalesce.bytes) >= coalesce.needs
Ready(state) == Parsing /\ Collected /\ ctxt.state = state

UsesCoalesce == coalesce.needs > 0
Source   == IF UsesCoalesce THEN coalesce.bytes ELSE Rest
SourceAt == IF UsesCoalesce THEN coalesce.at ELSE Now

\* Mutant of Consume: the offset of the coalesce buffer stays.
ConsumeInPlace(n) ==
  IF UsesCoalesce
  THEN /\ coalesce' = IF n # 0 /\ n < Len(coalesce.bytes)
                      THEN [coalesce EXCEPT !.bytes = From(@, n + 1)] ELSE NoCoalesce
       /\ UNCHANGED call
  ELSE call' = [call EXCEPT !.consumed = @ + n] /\ UNCHANGED coalesce

\* n bytes of the source are done with.
Consume(n) ==
  IF UsesCoalesce
  THEN /\ coalesce' = IF n # 0 /\ n < Len(coalesce.bytes)
                      THEN [coalesce EXCEPT !.bytes = From(@, n + 1), !.at = @ + n] ELSE NoCoalesce
       /\ UNCHANGED call
  ELSE call' = [call EXCEPT !.consumed = @ + n] /\ UNCHANGED coalesce

Fail == call' = [call EXCEPT !.status = "failed"]

\* Mutant of Collect: all that is left of the block is copied.
CollectAll ==
  /\ Parsing /\ ~Collected
  /\ coalesce' = [coalesce EXCEPT !.bytes = @ \o Rest,
                                  !.at = IF coalesce.bytes = <<>> THEN Now ELSE @]
  /\ call' = [call EXCEPT !.consumed = @ + Len(Rest)]
  /\ UNCHANGED <<ctxt, is_tar, store>>

\* The coalesce buffer is filled up to what it needs.
Collect ==
  /\ Parsing /\ ~Collected
  /\ LET n == Least(coalesce.needs - Len(coalesce.bytes), Len(Rest))
     IN  /\ coalesce' = [coalesce EXCEPT !.bytes = @ \o SubSeq(Rest, 1, n),
                                         !.at = IF coalesce.bytes = <<>> THEN Now ELSE @]
         /\ call' = [call EXCEPT !.consumed = @ + n]
  /\ UNCHANGED <<ctxt, is_tar, store>>

AskForBlock ==
  /\ Ready("FIND_HEADER") /\ Len(Source) < Block
  /\ coalesce' = [coalesce EXCEPT !.needs = Block]
  /\ UNCHANGED <<ctxt, is_tar, call, store>>

SkipPadding ==
  /\ Ready("FIND_HEADER") /\ Len(Source) >= Block
  /\ SourceAt % Block # 0
  /\ LET n == Block - (SourceAt % Block)
     IN  Consume(IF UsesCoalesce THEN Least(n, Len(Source)) ELSE n)
  /\ UNCHANGED <<ctxt, is_tar, store>>

---------------------------------------------------------------------------
(* cy_untar_parse_process_header() *)

AtHeader == Ready("FIND_HEADER") /\ Len(Source) >= Block /\ SourceAt % Block = 0
IsZero(b) == \A i \in DOMAIN b : b[i][2] = "zero"

SkipZeros ==
  /\ AtHeader
  /\ ~IsTarHeader(Source) /\ IsZero(Source)
  /\ Consume(Block)
  /\ UNCHANGED <<ctxt, is_tar, store>>

\* The name and the size that a header gives; a mixed up one names no file.
Names(b, file) == b[1][2] = "header" /\ b[1][3] = file /\ b[1][4] = 0
HeaderFile(b)  == Contents[b[1][1]].files[b[1][3]]
IsListHeader(b) == IsTarHeader(b) /\ Names(b, 0)

Enter(index, size) ==
  ctxt' = [ctxt EXCEPT !.state = "DATA", !.num_files = @ + 1, !.current = index, !.size = size,
                       !.header_offset = SourceAt, !.processed = 0]

ListHeader ==
  /\ AtHeader /\ IsListHeader(Source) /\ ctxt.num_files = 0
  /\ Enter(0, Contents[Source[1][1]].list)
  /\ Consume(Block)
  /\ UNCHANGED <<is_tar, store>>

\* The file of components.json that the header is of.
Listed(b) ==
  {j \in DOMAIN ctxt.listed :
     /\ IsTarHeader(b) /\ b[1][2] = "header" /\ b[1][4] = 0 /\ b[1][3] # 0
     /\ ctxt.listed[j].name = HeaderFile(b).name
     /\ ctxt.listed[j].size = HeaderFile(b).size}

FileHeader ==
  /\ AtHeader
  /\ \E j \in Listed(Source) : Enter(j, ctxt.listed[j].size)
  /\ Consume(Block)
  /\ UNCHANGED <<is_tar, store>>

HeaderFails ==
  /\ AtHeader
  /\ ~(~IsTarHeader(Source) /\ IsZero(Source))
  /\ ~(IsListHeader(Source) /\ ctxt.num_files = 0)
  /\ Listed(Source) = {}
  /\ Fail
  /\ UNCHANGED <<parser, is_tar, store>>

---------------------------------------------------------------------------
(* cy_untar_parse_process_data(): components.json *)

AtList == Ready("DATA") /\ ~ctxt.parsed
IsList(b, n) ==
  /\ Contents[b[1][1]].good
  /\ SubSeq(b, 1, n) = Part(b[1][1], "list", 0, n)

ListParsed ==
  /\ AtList /\ Len(Source) >= ctxt.size
  /\ IsList(Source, ctxt.size)
  /\ ctxt' = [ctxt EXCEPT !.parsed = TRUE, !.state = "FIND_HEADER",
                          !.listed = Contents[Source[1][1]].listed]
  /\ Consume(ctxt.size)
  /\ UNCHANGED <<is_tar, store>>

\* The result is no CY_UNTAR_ERROR: the caller goes on from the bytes that this
\* call of cy_untar_parse() consumed, counted from the start of the block.
ListFails ==
  /\ AtList /\ Len(Source) >= ctxt.size
  /\ ~IsList(Source, ctxt.size)
  /\ call' = [call EXCEPT !.base = call.consumed, !.consumed = 0]
  /\ UNCHANGED <<parser, is_tar, store>>

AskForList ==
  /\ AtList /\ Len(Source) < ctxt.size
  /\ RoundUp(ctxt.size) <= 2 * Block
  /\ coalesce' = [coalesce EXCEPT !.needs = RoundUp(ctxt.size)]
  /\ UNCHANGED <<ctxt, is_tar, call, store>>

ListTooLarge ==
  /\ AtList /\ Len(Source) < ctxt.size
  /\ RoundUp(ctxt.size) > 2 * Block
  /\ Fail
  /\ UNCHANGED <<parser, is_tar, store>>

---------------------------------------------------------------------------
(* cy_untar_parse_process_data(): a file, with ota_untar_write_callback() *)

AtFile == Ready("DATA") /\ ctxt.parsed

ImageOf(type) == IF type = "SPE" THEN 1 ELSE 0
KnownType(type) == type \in {"SPE", "NSPE"}
FileOffset == (SourceAt - (ctxt.header_offset + Block)) % Word

\* Mutant of FileBytes: a block of zeros may follow the file.
FileBytesPadded == Least((RoundUp(ctxt.size) - FileOffset) % Word, Len(Source))

FileBytes == Least((ctxt.size - FileOffset) % Word, Len(Source))
FileType  == ctxt.listed[ctxt.current].type

\* Mutant of Processed: the end of the file is noticed behind it.
ProcessedLate(n) ==
  ctxt' = [ctxt EXCEPT !.processed = @ + n,
                       !.state = IF ctxt.processed + n > ctxt.size THEN "FIND_HEADER" ELSE @]

Processed(n) ==
  ctxt' = [ctxt EXCEPT !.processed = @ + n,
                       !.state = IF ctxt.processed + n >= ctxt.size THEN "FIND_HEADER" ELSE @]

FileWritten ==
  /\ AtFile /\ FileBytes # 0
  /\ KnownType(FileType) /\ Fits(FileOffset, FileBytes)
  /\ Store(ImageOf(FileType), FileOffset, SubSeq(Source, 1, FileBytes))
  /\ Processed(FileBytes)
  /\ Consume(FileBytes)
  /\ UNCHANGED is_tar

FileNothing ==
  /\ AtFile /\ FileBytes = 0
  /\ Processed(0)
  /\ Consume(0)
  /\ UNCHANGED <<is_tar, store>>

FileFails ==
  /\ AtFile /\ FileBytes # 0
  /\ ~(KnownType(FileType) /\ Fits(FileOffset, FileBytes))
  /\ IF KnownType(FileType)
     THEN Store(ImageOf(FileType), FileOffset, SubSeq(Source, 1, FileBytes))
     ELSE UNCHANGED store
  /\ Fail
  /\ UNCHANGED <<parser, is_tar>>

---------------------------------------------------------------------------

\* cy_untar_parse() used its input up; the caller compares what this call of it
\* consumed with the size of the whole block.
ParseReturns ==
  /\ call.status = "parse" /\ Rest = <<>>
  /\ call' = IF call.consumed < Len(call.block)
             THEN [call EXCEPT !.base = call.consumed, !.consumed = 0]
             ELSE [call EXCEPT !.status = "stored"]
  /\ UNCHANGED <<parser, is_tar, store>>

Parse ==
  \/ Collect \/ AskForBlock \/ SkipPadding
  \/ SkipZeros \/ ListHeader \/ FileHeader \/ HeaderFails
  \/ ListParsed \/ ListFails \/ AskForList \/ ListTooLarge
  \/ FileWritten \/ FileNothing \/ FileFails
  \/ ParseReturns

UntarTypeOK ==
  /\ ctxt.state \in {"FIND_HEADER", "DATA"} /\ ctxt.parsed \in BOOLEAN
  /\ ctxt.num_files \in Nat /\ ctxt.current \in 0..Len(ctxt.listed)
  /\ ctxt.size \in Nat /\ ctxt.processed \in Nat /\ ctxt.header_offset \in Nat
  /\ coalesce.needs \in {0, Block, 2 * Block}
  /\ Len(coalesce.bytes) <= coalesce.needs
  /\ call.status \in {"none", "parse", "stored", "failed"}
  /\ call.base + call.consumed <= Len(call.block)
  /\ is_tar \in BOOLEAN /\ overrun \in BOOLEAN
  /\ DOMAIN slots = Images
=============================================================================
