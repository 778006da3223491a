------------------------------- MODULE OTABle -------------------------------
(***************************************************************************)
(* A download over Bluetooth LE: source/cy_ota_ble.c.  There is no agent   *)
(* here that fetches: the peer's commands come in as writes to a GATT      *)
(* characteristic, the application calls cy_ota_ble_download_prepare(),    *)
(* _download(), _write(), _verify() and _abort() as they come, one at a    *)
(* time, and nothing in the library asks in which state it is.  What the   *)
(* peer writes goes where OTAUntar puts it.                                *)
(*                                                                         *)
(* The CRC is that of the bytes received since the start command: it is    *)
(* the number of them as long as they are the first ones of the stream, in *)
(* order, and Mixed otherwise.                                              *)
(***************************************************************************)
EXTENDS OTAUntar

CONSTANTS
  Pieces,         \* how many bytes a command may carry
  MaxEvents       \* how often the peer prepares, starts, aborts or loses a piece

ASSUME PiecesAssumption == Pieces \subseteq Nat \ {0} /\ MaxEvents \in Nat

VARIABLES
  state,                \* what cy_ota_get_state() tells
  total_image_size,
  total_bytes_written,
  last_offset,
  crc,                  \* ble.crc32
  magic,                \* the magic of the first secondary slot: the update is requested
  peer,                 \* the peer: [stream, sent, first, clean]
  verified,             \* the transfer that was verified, or NoTransfer
  events

device == <<state, total_image_size, total_bytes_written, last_offset, crc, magic>>
vars   == <<untarVars, device, peer, verified, events>>

Mixed      == -1
NoTransfer == [stream |-> "none", sent |-> 0, first |-> 0, clean |-> FALSE]
States     == {"AGENT_WAITING", "STORAGE_OPEN", "START_UPDATE", "STORAGE_WRITE",
               "DATA_DOWNLOAD", "VERIFY", "OTA_COMPLETE", "EXITING"}

Init ==
  /\ UntarInit
  /\ state = "AGENT_WAITING"
  /\ total_image_size = 0 /\ total_bytes_written = 0 /\ last_offset = 0
  /\ crc = Mixed /\ magic = FALSE
  /\ peer = NoTransfer /\ verified = NoTransfer
  /\ events = 0

Event == events < MaxEvents /\ events' = events + 1
Idle == call.status = "none"

\* cy_ota_storage_open() erases the first secondary slot and clears the
\* statistics; the state is only set when the peer could be told.
Prepare(s, told) ==
  /\ Idle /\ Event
  /\ slots' = [slots EXCEPT ![0] = ErasedSlot] /\ magic' = FALSE
  /\ total_image_size' = 0 /\ total_bytes_written' = 0 /\ last_offset' = 0
  /\ state' = IF told THEN "AGENT_WAITING" ELSE "STORAGE_OPEN"
  /\ peer' = [NoTransfer EXCEPT !.stream = s]
  /\ verified' = NoTransfer
  /\ UNCHANGED <<parser, is_tar, call, overrun, crc>>

\* cy_ota_ble_download(): the peer starts to send the stream, or starts again.
Start(told) ==
  /\ Idle /\ peer.stream # "none" /\ Event
  /\ total_image_size' = Len(Bytes[peer.stream]) /\ total_bytes_written' = 0
  /\ crc' = 0
  /\ state' = IF told THEN "START_UPDATE" ELSE state
  /\ peer' = [peer EXCEPT !.sent = 0, !.first = 0,
                          !.clean = (last_offset = 0 /\ slots[0] = ErasedSlot)]
  /\ UNCHANGED <<untarVars, last_offset, magic, verified>>

\* The next bytes of the peer's stream; it writes after it started.
Unsent   == Len(Bytes[peer.stream]) - peer.sent
Piece(n) == SubSeq(Bytes[peer.stream], peer.sent + 1, peer.sent + n)
Sending(n) ==
  /\ Idle /\ total_image_size # 0
  /\ n <= Unsent
  /\ \/ n \in Pieces
     \/ n = Unsent /\ \E m \in Pieces : n < m

\* cy_ota_ble_download_write(): the offset is the library's own.
Write(n) ==
  /\ Sending(n)
  /\ ArchiveBlock(last_offset, Piece(n)) \/ ImageBlock(last_offset, Piece(n))
  /\ state' = "STORAGE_WRITE"
  /\ peer' = IF peer.first = 0
              THEN [peer EXCEPT !.first = n,
                                !.clean = @ /\ (is_tar => StartsArchive(last_offset, Piece(n)))]
              ELSE peer
  /\ UNCHANGED <<total_image_size, total_bytes_written, last_offset, crc, magic>>
  /\ UNCHANGED <<verified, events>>

\* The bytes are the ones that follow those the CRC is of.
Continues(b) ==
  /\ crc # Mixed /\ crc + Len(b) <= Len(Bytes[peer.stream])
  /\ b = SubSeq(Bytes[peer.stream], crc + 1, crc + Len(b))

\* The block was stored: the rest of the function.
WriteDone ==
  /\ call.status = "stored"
  /\ LET n == Len(call.block)
     IN  /\ total_bytes_written' = total_bytes_written + n
         /\ last_offset' = last_offset + n
         /\ crc' = IF Continues(call.block) THEN crc + n ELSE Mixed
         /\ peer' = [peer EXCEPT !.sent = @ + n]
  /\ call' = NoCall /\ state' = "DATA_DOWNLOAD"
  /\ UNCHANGED <<parser, is_tar, store, total_image_size, magic, verified, events>>

\* The peer is told, and may send the same bytes again.
WriteFailed ==
  /\ call.status = "failed"
  /\ call' = NoCall
  /\ UNCHANGED <<parser, is_tar, store, device, peer, verified, events>>

\* A write without a response that is lost.
PieceLost(n) ==
  /\ Sending(n) /\ Event
  /\ peer' = [peer EXCEPT !.sent = @ + n, !.first = IF peer.first = 0 THEN n ELSE @]
  /\ UNCHANGED <<untarVars, device, verified>>

\* The peer sends the CRC of its whole stream.
Matches == crc = Len(Bytes[peer.stream])

\* cy_ota_ble_download_verify(), which the peer may send early and twice.
Verify(told) ==
  /\ Idle /\ peer.stream # "none"
  /\ magic' = (magic \/ Matches)
  /\ verified' = IF Matches THEN peer ELSE verified
  /\ state' = IF told THEN "OTA_COMPLETE" ELSE "EXITING"
  /\ UNCHANGED <<untarVars, total_image_size, total_bytes_written, last_offset, crc>>
  /\ UNCHANGED <<peer, events>>

Abort ==
  /\ Idle /\ Event
  /\ state' = "AGENT_WAITING"
  /\ UNCHANGED <<untarVars, total_image_size, total_bytes_written, last_offset, crc, magic>>
  /\ UNCHANGED <<peer, verified>>

ParseStep == Parse /\ UNCHANGED <<device, peer, verified, events>>

Next ==
  \/ \E s \in Streams, told \in BOOLEAN : Prepare(s, told)
  \/ \E told \in BOOLEAN : Start(told) \/ Verify(told)
  \/ \E n \in 1..SlotSize : Write(n) \/ PieceLost(n)
  \/ ParseStep \/ WriteDone \/ WriteFailed
  \/ Abort

Spec == Init /\ [][Next]_vars

\* The call runs in the thread of the Bluetooth stack, which goes on.
FairSpec == Spec /\ WF_vars(ParseStep) /\ WF_vars(WriteDone) /\ WF_vars(WriteFailed)

---------------------------------------------------------------------------

TypeOK ==
  /\ UntarTypeOK
  /\ state \in States
  /\ total_image_size \in Nat /\ total_bytes_written \in Nat /\ last_offset \in Nat
  /\ crc \in Nat \cup {Mixed} /\ magic \in BOOLEAN
  /\ peer.stream \in Streams \cup {"none"}
  /\ events \in 0..MaxEvents

\* An archive that is what its components.json says.
WellFormed(s) ==
  LET c == Contents[s]
  IN  c.archive => /\ c.good /\ c.list <= 2 * Block
                   /\ \A k \in DOMAIN c.files : \E j \in DOMAIN c.listed :
                        /\ c.listed[j].name = c.files[k].name /\ c.listed[j].size = c.files[k].size
                        /\ KnownType(c.listed[j].type)
\* What the parser needs besides: files that fit into their slots and images that
\* are known.  And no file is empty when the list takes two blocks, since
\* cy_untar_parse() drops its buffer after a file of which it consumed nothing.
ProperArchives ==
  \A s \in Streams :
    LET c == Contents[s]
    IN  c.archive /\ WellFormed(s) =>
          /\ \A k \in 1..Len(c.files) :
               /\ c.files[k].size <= SlotSize
               /\ c.list > Block => c.files[k].size # 0
          /\ \A j \in DOMAIN c.listed : KnownType(c.listed[j].type)

TakenApart(t) == Contents[t.stream].archive /\ t.first >= HeaderSize

\* A transfer as it should be: from the start of an erased slot, nothing lost,
\* and the first piece shows what it is.
Regular ==
  /\ peer.clean /\ WellFormed(peer.stream) /\ crc # Mixed /\ peer.sent = last_offset
  /\ peer.first # 0 /\ TakenApart(peer)

\* However the archive is cut, the coalesce buffer holds consecutive bytes of it,
\* where coalesce_stream_offset says they are, up to the next ones that come.
CoalesceInOrder ==
  LET n == Len(coalesce.bytes)
  IN  Regular /\ n # 0 =>
        /\ coalesce.bytes = SubSeq(Bytes[peer.stream], coalesce.at + 1, coalesce.at + n)
        /\ coalesce.at + n = IF Idle THEN last_offset ELSE Now

\* The files of an archive, each with the slot of its type in components.json.
PartsOf(s) ==
  LET c == Contents[s]
      matches == {m \in (DOMAIN c.files) \X (DOMAIN c.listed) :
                    /\ c.listed[m[2]].name = c.files[m[1]].name
                    /\ c.listed[m[2]].size = c.files[m[1]].size}
  IN  {[img |-> ImageOf(c.listed[m[2]].type), bytes |-> Part(s, "file", m[1], c.files[m[1]].size)] :
         m \in matches}

\* Each slot is for one file: ota_untar_write_callback() writes every file from
\* the beginning of the slot of its type.
OneFileEach ==
  \A s \in Streams : Contents[s].archive /\ WellFormed(s) =>
    \A e, f \in PartsOf(s) :
      e.bytes # <<>> /\ f.bytes # <<>> => (e.img = f.img <=> e.bytes = f.bytes)

\* What belongs into the slots: a stream as it is, or the files of an archive.
Expected(t) ==
  IF TakenApart(t) THEN PartsOf(t.stream) ELSE {[img |-> 0, bytes |-> Bytes[t.stream]]}

\* It is there byte by byte, and until the peer goes on there is nothing else in the
\* slot that was erased.
Arrived(t) ==
  /\ \A e \in Expected(t) : \A p \in 0..(Len(e.bytes) - 1) : slots[e.img][p] = e.bytes[p + 1]
  /\ peer = t => \A p \in 0..(SlotSize - 1) :
                   \/ \E e \in Expected(t) : e.img = 0 /\ p < Len(e.bytes)
                   \/ slots[0][p] = ErasedByte

\* What was verified has arrived; an archive stays until the peer starts again.
VerifiedInPlace ==
  verified.clean /\ (Contents[verified.stream].archive => peer = verified) => Arrived(verified)
VerifiedIsStored == ~overrun => VerifiedInPlace

\* The parser holds as many bytes as the list is to have, and they are no list: its
\* result is not one that the caller's loop stops for, so that the loop is endless.
BadList == AtList /\ Len(Source) >= ctxt.size /\ ~IsList(Source, ctxt.size)

\* A call that does not come to a bad list returns: whatever was sent or lost
\* before, however it is cut, and also where the parser has lost its place.
CallsReturn == (call.status = "parse") ~> (call.status # "parse" \/ BadList)
=============================================================================
