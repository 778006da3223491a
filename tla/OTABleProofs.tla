----------------------------- MODULE OTABleProofs -----------------------------
(***************************************************************************)
(* Theorems about a download over Bluetooth LE (OTABle).  A plain image    *)
(* that was verified is in its slot, whatever was lost, repeated, started  *)
(* again, verified early, or sent before it, archives included.  What the  *)
(* parser works with keeps its types, whatever the archives hold and       *)
(* however they are cut: its buffer never exceeds what it asked for, and a *)
(* call never consumes more than its block.  The parser follows an archive *)
(* that is what its list says: it knows what comes next, and its buffer    *)
(* holds consecutive bytes.  And when it was verified, each of its files   *)
(* is in the slot of its type.                                             *)
(***************************************************************************)
EXTENDS OTABle, WellFoundedInduction, SequenceTheorems, TLAPS

-----------------------------------------------------------------------------
(* The bytes of an image                                                   *)

Image(s)     == s \in Streams /\ ~Contents[s].archive
Size(s)      == Contents[s].size
ImageByte(s) == {<<s, "image", 0, k>> : k \in Nat}

\* The bytes that a plain image is sent as.
LEMMA ImageBytes ==
  ASSUME NEW s, Image(s)
  PROVE  /\ Size(s) \in Nat \ {0}
         /\ Bytes[s] \in Seq(ImageByte(s)) /\ Len(Bytes[s]) = Size(s)
         /\ \A i \in 1..Size(s) : Bytes[s][i] = <<s, "image", 0, i - 1>>
<1>1. Size(s) \in Nat \ {0}
  BY ContentsAssumption DEF Image, Size
<1>2. Bytes[s] = [i \in 1..Size(s) |-> <<s, "image", 0, i - 1>>]
  BY DEF Bytes, Image, Size, Part
<1>3. \A i \in 1..Size(s) : <<s, "image", 0, i - 1>> \in ImageByte(s)
  BY <1>1 DEF ImageByte
<1>4. [i \in 1..Size(s) |-> <<s, "image", 0, i - 1>>] \in Seq(ImageByte(s))
  BY <1>1, <1>3
<1> QED BY <1>1, <1>2, <1>4

\* A piece of an image: its bytes differ, and it is no header.
LEMMA ImagePiece ==
  ASSUME NEW s, Image(s), NEW a \in Nat, NEW n \in Nat \ {0}, a + n <= Size(s)
  PROVE  LET b == SubSeq(Bytes[s], a + 1, a + n)
         IN  /\ b \in Seq(ImageByte(s)) /\ Len(b) = n
             /\ \A i \in 1..n : b[i] = Bytes[s][a + i] /\ b[i] = <<s, "image", 0, a + i - 1>>
             /\ ~IsTarHeader(b)
<1> DEFINE b == SubSeq(Bytes[s], a + 1, a + n)
<1>0. /\ Size(s) \in Nat \ {0}
      /\ Bytes[s] \in Seq(ImageByte(s)) /\ Len(Bytes[s]) = Size(s)
      /\ \A i \in 1..Size(s) : Bytes[s][i] = <<s, "image", 0, i - 1>>
  BY ImageBytes
<1>1. b \in Seq(ImageByte(s)) /\ Len(b) = n /\ \A i \in 1..n : b[i] = Bytes[s][a + i]
  BY <1>0
<1>2. \A i \in 1..n : b[i] = <<s, "image", 0, a + i - 1>>
  BY <1>0, <1>1
<1>3. ~IsTarHeader(b)
  <2> SUFFICES ASSUME n >= 2 PROVE b[2][2] # "header"
    BY <1>1, BlockAssumption DEF IsTarHeader
  <2> QED BY <1>2
<1> QED BY <1>1, <1>2, <1>3

\* The first byte of a piece tells where the piece was.
LEMMA FirstByte ==
  ASSUME NEW s, Image(s), NEW a \in Nat, NEW n \in Nat \ {0}, a + n <= Size(s)
  PROVE  SubSeq(Bytes[s], a + 1, a + n)[1] = <<s, "image", 0, a>>
<1>1. 1 \in 1..n /\ a + 1 - 1 = a
  OBVIOUS
<1> QED BY <1>1, ImagePiece

-----------------------------------------------------------------------------
(* What write_data_to_flash() stores of a chunk                            *)

\* What a division leaves.
LEMMA DivMod ==
  ASSUME NEW n \in Nat, NEW r \in Nat \ {0}
  PROVE  n \div r \in Nat /\ n % r \in 0..(r - 1) /\ n = (n \div r) * r + (n % r)
  BY Z3T(30)

\* The chunk of a byte ends no later than what is stored.
LEMMA ChunksEnd ==
  ASSUME NEW offset \in Nat, NEW n \in Nat, NEW p \in offset..(offset + n - 1)
  PROVE  /\ StoreEnd(offset, n) \in Nat /\ ChunkEnd(offset, n, p) <= StoreEnd(offset, n)
         /\ ~Overruns(offset, n) => offset + n <= StoreEnd(offset, n)
<1> DEFINE last == LastPart(offset, n)
           q == n \div Row
<1>0. Row \in Nat \ {0}
  BY BlockAssumption
<1>1. q \in Nat /\ n % Row \in 0..(Row - 1) /\ n = q * Row + (n % Row)
  BY <1>0, DivMod
<1>2. last = offset + q * Row /\ last \in Nat
  BY <1>0, <1>1 DEF LastPart
<1>3. RowEnd(last) \in Nat /\ RowEnd(last) > last
  <2>1. last \div Row \in Nat /\ last % Row \in 0..(Row - 1) /\ last = (last \div Row) * Row + (last % Row)
    BY <1>0, <1>2, DivMod
  <2>2. (last \div Row + 1) * Row = (last \div Row) * Row + Row
    BY <1>0, <2>1
  <2> HIDE DEF last
  <2> QED BY <1>0, <1>2, <2>1, <2>2 DEF RowEnd
<1>4. StoreEnd(offset, n) \in Nat /\ last <= StoreEnd(offset, n)
  <2>1. CASE n % Row = 0
    <3>1. StoreEnd(offset, n) = offset + n
      BY <2>1 DEF StoreEnd
    <3> QED BY <2>1, <3>1, <1>0, <1>1, <1>2
  <2>2. CASE n % Row # 0
    <3>1. StoreEnd(offset, n) = RowEnd(last)
      BY <2>2 DEF StoreEnd
    <3> HIDE DEF last
    <3> QED BY <3>1, <1>2, <1>3
  <2> QED BY <2>1, <2>2
<1>5. p < last => ChunkEnd(offset, n, p) <= last
  <2> SUFFICES ASSUME p < last PROVE ChunkEnd(offset, n, p) <= last
    OBVIOUS
  <2> DEFINE d == p - offset
             k == d \div Row
  <2>1. d \in Nat /\ d < q * Row
    BY <1>0, <1>1, <1>2
  <2>2. k \in Nat /\ d % Row \in 0..(Row - 1) /\ d = k * Row + (d % Row)
    BY <1>0, <2>1, DivMod
  <2>3. k < q
    <3> SUFFICES ASSUME k >= q PROVE FALSE
      BY <1>1, <2>2
    <3>1. k * Row >= q * Row
      BY <1>0, <1>1, <2>2
    <3>2. d >= k * Row /\ k * Row \in Int /\ q * Row \in Int
      BY <1>0, <1>1, <2>2
    <3> HIDE DEF k, d, q
    <3> QED BY <2>1, <3>1, <3>2
  <2>4. (k + 1) * Row <= q * Row
    BY <1>0, <1>1, <2>2, <2>3
  <2>5. ChunkEnd(offset, n, p) = offset + (k + 1) * Row
    BY DEF ChunkEnd
  <2> HIDE DEF k, d, q
  <2> QED BY <1>0, <1>1, <1>2, <2>2, <2>4, <2>5
<1>6. ~(p < last) => ChunkEnd(offset, n, p) = StoreEnd(offset, n)
  BY DEF ChunkEnd
<1>7. ~Overruns(offset, n) => offset + n <= StoreEnd(offset, n)
  BY <1>0, <1>1, <1>2, <1>3 DEF Overruns, StoreEnd
<1> HIDE DEF last
<1>8. ChunkEnd(offset, n, p) <= StoreEnd(offset, n)
  <2>1. CASE p < last
    <3>1. ChunkEnd(offset, n, p) = offset + ((p - offset) \div Row + 1) * Row
      BY <2>1 DEF ChunkEnd, last
    <3>2. ChunkEnd(offset, n, p) \in Int
      BY <1>0, <2>1, <3>1
    <3> QED BY <1>2, <1>4, <1>5, <2>1, <3>2
  <2>2. CASE ~(p < last)
    BY <1>4, <1>6, <2>2
  <2> QED BY <2>1, <2>2
<1> QED BY <1>4, <1>7, <1>8

\* A store changes its own bytes only, ...
LEMMA StoredElsewhere ==
  ASSUME NEW slot, NEW offset, NEW bytes, offset \in Nat, Len(bytes) \in Nat
  PROVE  /\ DOMAIN Stored(slot, offset, bytes) = DOMAIN slot
         /\ \A p \in DOMAIN slot \ (offset..(offset + Len(bytes) - 1)) :
              Stored(slot, offset, bytes)[p] = slot[p]
  BY DEF Stored

\* ... and all of them when nothing is refused or runs over.
LEMMA StoredHere ==
  ASSUME NEW offset, NEW n, NEW p,
         offset \in Nat, n \in Nat, p \in offset..(offset + n - 1),
         Fits(offset, n), ~Overruns(offset, n)
  PROVE  /\ p \in 0..(SlotSize - 1)
         /\ p < StoreEnd(offset, n) /\ ChunkEnd(offset, n, p) <= SlotSize
<1>1. /\ StoreEnd(offset, n) \in Nat /\ ChunkEnd(offset, n, p) <= StoreEnd(offset, n)
      /\ offset + n <= StoreEnd(offset, n)
  BY ChunksEnd
<1>2. StoreEnd(offset, n) <= SlotSize /\ SlotSize \in Nat
  BY BlockAssumption DEF Fits
<1>3. ChunkEnd(offset, n, p) <= SlotSize
  <2>1. ChunkEnd(offset, n, p) \in Int
    BY <1>1, BlockAssumption, DivMod DEF ChunkEnd, LastPart
  <2> QED BY <1>1, <1>2, <2>1
<1> QED BY <1>1, <1>2, <1>3

-----------------------------------------------------------------------------
(* The inductive invariant: what is known while the peer sends an image.   *)
(* Of archives nothing is claimed but that they leave is_tar set.          *)

Sent     == peer.stream
Plain    == Image(Sent)
BlockLen     == Len(call.block)

\* The shapes of the records, and what parses has set is_tar.
Shapes ==
  /\ DOMAIN slots = Images /\ is_tar \in BOOLEAN /\ overrun \in BOOLEAN
  /\ call = [status |-> call.status, offset |-> call.offset, block |-> call.block,
             base |-> call.base, consumed |-> call.consumed]
  /\ peer = [stream |-> peer.stream, sent |-> peer.sent, first |-> peer.first,
             clean |-> peer.clean]
  /\ Sent \in Streams \cup {"none"} /\ peer.clean \in BOOLEAN
  /\ call.status \in {"none", "parse", "stored", "failed"}
  /\ call.status = "parse" => is_tar
  /\ verified.clean => verified.stream \in Streams

\* Nothing is sent from behind the end of the image.
Within ==
  Plain =>
    /\ last_offset \in Nat /\ peer.sent \in 0..Size(Sent) /\ peer.first \in Nat
    /\ DOMAIN slots[0] = 0..(SlotSize - 1)
    /\ peer.clean => /\ crc \in Nat \cup {Mixed}
                     /\ last_offset <= peer.sent

\* The block of a call is the next piece, and is in its place once it is stored.
InFlight ==
  Plain /\ ~Idle =>
    /\ BlockLen \in Nat \ {0} /\ peer.sent + BlockLen <= Size(Sent)
    /\ call.block = SubSeq(Bytes[Sent], peer.sent + 1, peer.sent + BlockLen)
    /\ call.status = "stored" /\ ~is_tar /\ ~overrun =>
         \A p \in last_offset..(last_offset + BlockLen - 1) :
           p \in DOMAIN slots[0] /\ slots[0][p] = call.block[p - last_offset + 1]

\* The image after an archive is not stored, and its CRC stays behind.
AfterArchive ==
  Plain /\ peer.clean /\ is_tar /\ crc # Mixed =>
    crc = 0 /\ (~Idle \/ peer.first # 0 => peer.sent > 0)

\* While the CRC is that of the first bytes, these are in place.
InPlace ==
  Plain /\ peer.clean /\ ~is_tar /\ crc # Mixed =>
    /\ last_offset = crc
    /\ ~overrun => \A p \in 0..(last_offset - 1) :
                     p \in DOMAIN slots[0] /\ slots[0][p] = Bytes[Sent][p + 1]

\* Behind the end of the image the slot stays erased.
BehindErased ==
  Plain /\ ~is_tar /\ (last_offset = 0 \/ peer.clean) =>
    \A p \in Size(Sent)..(SlotSize - 1) : slots[0][p] = ErasedByte

\* What was verified stays, until the peer prepares another transfer.
VerifiedStays ==
  verified.clean /\ Image(verified.stream) =>
    /\ verified.stream = Sent /\ ~is_tar /\ Size(Sent) <= last_offset
    /\ ~overrun => \A p \in 0..(Size(Sent) - 1) :
                     p \in DOMAIN slots[0] /\ slots[0][p] = Bytes[Sent][p + 1]

ImageParts == Within /\ InFlight /\ AfterArchive /\ InPlace /\ BehindErased /\ VerifiedStays
ImageInv   == Shapes /\ ImageParts

\* Nothing is stored at first.
LEMMA ImageInit == Init => ImageInv
<1> SUFFICES ASSUME Init PROVE ImageInv
  OBVIOUS
<1>1. ~Plain /\ ~verified.clean
  BY ContentsAssumption DEF Init, Plain, Sent, Image, NoTransfer
<1>2. Shapes
  BY DEF Init, UntarInit, Shapes, NoTransfer, NoCall, Images, Sent
<1> QED BY <1>1, <1>2 DEF ImageInv, ImageParts, Within, InFlight, AfterArchive, InPlace,
                          BehindErased, VerifiedStays

\* cy_ota_storage_open() begins anew.
LEMMA PrepareKeeps ==
  ASSUME ImageInv, NEW s \in Streams, NEW told \in BOOLEAN, Prepare(s, told)
  PROVE  ImageInv'
<1>1. Shapes'
  BY DEF ImageInv, Shapes, Prepare, NoTransfer, Images, Sent, Idle
<1>2. /\ peer'.stream = s /\ peer'.sent = 0 /\ peer'.first = 0 /\ peer'.clean = FALSE
      /\ last_offset' = 0 /\ is_tar' = is_tar /\ Idle' /\ verified'.clean = FALSE
  BY DEF Prepare, NoTransfer, Idle
<1>3. slots'[0] = ErasedSlot
  BY DEF ImageInv, Shapes, Prepare, Images
<1>4. Within'
  <2> SUFFICES ASSUME Plain' PROVE 0 \in 0..Size(s) /\ DOMAIN slots'[0] = 0..(SlotSize - 1)
    BY <1>2 DEF Within, Sent
  <2> QED BY <1>2, <1>3, ImageBytes DEF Plain, Sent, ErasedSlot
<1>5. BehindErased'
  <2> SUFFICES ASSUME Plain' PROVE \A p \in Size(s)..(SlotSize - 1) : slots'[0][p] = ErasedByte
    BY <1>2 DEF BehindErased, Sent
  <2> QED BY <1>2, <1>3, ImageBytes DEF Plain, Sent, ErasedSlot
<1> QED BY <1>1, <1>2, <1>4, <1>5 DEF ImageInv, ImageParts, InFlight, AfterArchive, InPlace,
                                      VerifiedStays

\* cy_ota_ble_download() begins the stream again, and clears the CRC, but not the
\* offset.
LEMMA StartKeeps ==
  ASSUME ImageInv, NEW told \in BOOLEAN, Start(told)
  PROVE  ImageInv'
<1>1. Shapes'
  BY DEF ImageInv, Shapes, Start, Sent, Idle, untarVars, store
<1>2. /\ peer'.stream = Sent /\ peer'.sent = 0 /\ peer'.first = 0
      /\ peer'.clean = (last_offset = 0 /\ slots[0] = ErasedSlot) /\ crc' = 0
      /\ last_offset' = last_offset /\ is_tar' = is_tar /\ slots' = slots /\ overrun' = overrun
      /\ Idle' /\ verified' = verified
  BY DEF ImageInv, Shapes, Start, Sent, Idle, untarVars, store
<1>3. Plain' = Plain /\ Sent' = Sent
  BY <1>2 DEF Plain, Sent
<1>4. Within'
  <2> SUFFICES ASSUME Plain' PROVE Within'
    BY DEF Within
  <2>1. Plain
    BY <1>3
  <2>2. Size(Sent) \in Nat
    BY <2>1, ImageBytes DEF Plain
  <2>3. last_offset \in Nat /\ DOMAIN slots[0] = 0..(SlotSize - 1)
    BY <2>1 DEF ImageInv, ImageParts, Within
  <2>4. peer'.sent \in 0..Size(Sent') /\ peer'.first \in Nat
    BY <1>2, <1>3, <2>2
  <2>5. last_offset' \in Nat /\ DOMAIN slots'[0] = 0..(SlotSize - 1)
    BY <1>2, <2>3
  <2>6. peer'.clean => crc' \in Nat \cup {Mixed} /\ last_offset' <= peer'.sent
    <3>1. peer'.clean => last_offset = 0
      BY <1>2
    <3> QED BY <1>2, <3>1
  <2> QED BY <2>4, <2>5, <2>6 DEF Within
<1>5. AfterArchive' /\ InFlight'
  BY <1>2, <1>3 DEF AfterArchive, InFlight
<1>6. InPlace'
  <2>1. peer'.clean => last_offset = 0
    BY <1>2
  <2> QED BY <1>2, <2>1 DEF InPlace
<1>7. BehindErased'
  BY <1>2, <1>3 DEF ImageInv, ImageParts, BehindErased
<1>8. VerifiedStays'
  BY <1>2, <1>3 DEF ImageInv, ImageParts, VerifiedStays
<1> QED BY <1>1, <1>4, <1>5, <1>6, <1>7, <1>8 DEF ImageInv, ImageParts

-----------------------------------------------------------------------------
(* A write                                                                 *)

\* What is known of the next piece of an image.
LEMMA NextPiece ==
  ASSUME ImageInv, Plain, NEW n \in 1..SlotSize, Sending(n)
  PROVE  /\ Piece(n) \in Seq(ImageByte(Sent)) /\ Len(Piece(n)) = n
         /\ Piece(n) = SubSeq(Bytes[Sent], peer.sent + 1, peer.sent + n)
         /\ peer.sent + n <= Size(Sent) /\ ~IsTarHeader(Piece(n))
         /\ last_offset \in Nat /\ peer.sent \in Nat /\ Size(Sent) \in Nat \ {0}
         /\ n \in Nat \ {0}
<1>1. peer.sent \in 0..Size(Sent) /\ last_offset \in Nat
  BY DEF ImageInv, ImageParts, Within
<1>2. Len(Bytes[Sent]) = Size(Sent) /\ Size(Sent) \in Nat \ {0}
  BY ImageBytes DEF Plain
<1>3. n \in Nat \ {0}
  BY BlockAssumption
<1>4. n <= Len(Bytes[Sent]) - peer.sent
  BY DEF Sending, Unsent, Sent
<1>5. peer.sent + n <= Size(Sent) /\ peer.sent \in Nat
  BY <1>1, <1>2, <1>3, <1>4
<1>6. Piece(n) = SubSeq(Bytes[Sent], peer.sent + 1, peer.sent + n)
  BY DEF Piece, Sent
<1> HIDE DEF Plain
<1>7. /\ Piece(n) \in Seq(ImageByte(Sent)) /\ Len(Piece(n)) = n
      /\ ~IsTarHeader(Piece(n))
  <2>1. LET b == SubSeq(Bytes[Sent], peer.sent + 1, peer.sent + n)
        IN  b \in Seq(ImageByte(Sent)) /\ Len(b) = n /\ ~IsTarHeader(b)
    BY <1>3, <1>5, ImagePiece DEF Plain
  <2> QED BY <1>6, <2>1
<1> QED BY <1>1, <1>2, <1>3, <1>5, <1>6, <1>7

\* The first pieces tell an image; one that comes after an archive is not clean.
WriteLeaves(n) ==
  /\ peer'.stream = Sent /\ peer'.sent = peer.sent
  /\ peer'.first = (IF peer.first = 0 THEN n ELSE peer.first)
  /\ peer'.clean => peer.clean
  /\ Plain /\ peer'.clean /\ peer.first = 0 => ~is_tar
  /\ last_offset' = last_offset /\ crc' = crc /\ verified' = verified

\* What an accepted piece changes.
LEMMA WriteIs ==
  ASSUME ImageInv, NEW n \in 1..SlotSize, Write(n)
  PROVE  Sending(n) /\ WriteLeaves(n) /\ Shapes'
<1>1. Sending(n)
  BY DEF Write
<1>2. /\ last_offset' = last_offset /\ crc' = crc /\ verified' = verified
      /\ peer' = IF peer.first = 0
                  THEN [peer EXCEPT !.first = n,
                             !.clean = @ /\ (is_tar => StartsArchive(last_offset, Piece(n)))]
                  ELSE peer
  BY DEF Write
<1>3. /\ peer = [stream |-> peer.stream, sent |-> peer.sent, first |-> peer.first,
                 clean |-> peer.clean]
      /\ peer.clean \in BOOLEAN /\ Sent \in Streams \cup {"none"}
  BY DEF ImageInv, Shapes
<1> DEFINE c == peer.clean /\ (is_tar => StartsArchive(last_offset, Piece(n)))
<1>4. ASSUME peer.first = 0 PROVE WriteLeaves(n)
  <2>1. peer' = [stream |-> peer.stream, sent |-> peer.sent, first |-> n, clean |-> c]
    BY <1>2, <1>3, <1>4
  <2>2. /\ peer'.stream = peer.stream /\ peer'.sent = peer.sent /\ peer'.first = n
        /\ peer'.clean = c
    BY <2>1
  <2>3. Plain => ~StartsArchive(last_offset, Piece(n))
    BY <1>1, NextPiece DEF StartsArchive
  <2>4. (peer'.clean => peer.clean) /\ (Plain /\ peer'.clean => ~is_tar)
    BY <2>2, <2>3
  <2> HIDE DEF c
  <2> QED BY <1>2, <1>4, <2>2, <2>4 DEF WriteLeaves, Sent
<1>5. ASSUME peer.first # 0 PROVE WriteLeaves(n)
  BY <1>2, <1>5 DEF WriteLeaves, Sent
<1>6. /\ peer' = [stream |-> peer'.stream, sent |-> peer'.sent, first |-> peer'.first,
                  clean |-> peer'.clean]
      /\ peer'.clean \in BOOLEAN /\ Sent' \in Streams \cup {"none"}
  <2>1. CASE peer.first = 0
    <3>1. peer' = [stream |-> peer.stream, sent |-> peer.sent, first |-> n, clean |-> c]
      BY <1>2, <1>3, <2>1
    <3>2. c \in BOOLEAN
      OBVIOUS
    <3> HIDE DEF c
    <3> QED BY <1>3, <3>1, <3>2 DEF Sent
  <2>2. CASE peer.first # 0
    BY <1>2, <1>3, <2>2 DEF Sent
  <2> QED BY <2>1, <2>2
<1>7. /\ call' = [status |-> call'.status, offset |-> call'.offset, block |-> call'.block,
                  base |-> call'.base, consumed |-> call'.consumed]
      /\ call'.status \in {"parse", "stored", "failed"}
      /\ is_tar' \in BOOLEAN /\ (call'.status = "parse" => is_tar')
      /\ DOMAIN slots' = Images /\ overrun' \in BOOLEAN
  <2>1. CASE ArchiveBlock(last_offset, Piece(n))
    BY <2>1 DEF ArchiveBlock, Started, store, ImageInv, Shapes
  <2>2. CASE ImageBlock(last_offset, Piece(n))
    <3>1. call' = Started(last_offset, Piece(n),
                          IF Fits(last_offset, Len(Piece(n))) THEN "stored" ELSE "failed")
      BY <2>2 DEF ImageBlock
    <3>2. DOMAIN slots' = Images /\ overrun' \in BOOLEAN
      BY <2>2 DEF ImageBlock, Store, ImageInv, Shapes
    <3> QED BY <2>2, <3>1, <3>2 DEF ImageBlock, Started, ImageInv, Shapes
  <2> QED BY <2>1, <2>2 DEF Write
<1>8. Shapes'
  <2>1. verified'.clean => verified'.stream \in Streams
    BY <1>2 DEF ImageInv, Shapes
  <2> QED BY <1>6, <1>7, <2>1 DEF Shapes
<1> QED BY <1>1, <1>4, <1>5, <1>8

\* A block for the parser: for an image, only one that is not clean.
LEMMA ArchiveKeeps ==
  ASSUME ImageInv, NEW n \in 1..SlotSize, Write(n), ArchiveBlock(last_offset, Piece(n))
  PROVE  ImageParts'
<1>1. Sending(n) /\ WriteLeaves(n)
  BY WriteIs
<1>2. /\ is_tar' = TRUE /\ slots' = slots
      /\ call'.block = Piece(n) /\ call'.status = "parse" /\ ~Idle'
  BY DEF ArchiveBlock, Started, store, Idle
<1>3. Plain' = Plain /\ Sent' = Sent /\ peer'.sent = peer.sent
  BY <1>1 DEF WriteLeaves, Plain, Sent
<1>4. Plain => is_tar
  BY <1>1, NextPiece DEF ArchiveBlock, StartsArchive
<1>5. Within'
  <2> SUFFICES ASSUME Plain' PROVE Within'
    BY DEF Within
  <2>1. Plain
    BY <1>3
  <2>2. /\ last_offset \in Nat /\ peer.sent \in 0..Size(Sent) /\ peer.first \in Nat
        /\ DOMAIN slots[0] = 0..(SlotSize - 1)
    BY <2>1 DEF ImageInv, ImageParts, Within
  <2>3. peer.clean => crc \in Nat \cup {Mixed} /\ last_offset <= peer.sent
    BY <2>1 DEF ImageInv, ImageParts, Within
  <2>4. n \in Nat
    OBVIOUS
  <2> QED BY <1>1, <1>2, <1>3, <2>2, <2>3, <2>4 DEF Within, WriteLeaves
<1>6. InFlight'
  <2> SUFFICES ASSUME Plain' PROVE InFlight'
    BY DEF InFlight
  <2>1. /\ Len(Piece(n)) = n /\ n \in Nat \ {0} /\ peer.sent + n <= Size(Sent)
        /\ Piece(n) = SubSeq(Bytes[Sent], peer.sent + 1, peer.sent + n)
    BY <1>1, <1>3, NextPiece
  <2>2. BlockLen' = n
    BY <1>2, <2>1 DEF BlockLen
  <2> QED BY <1>2, <1>3, <2>1, <2>2 DEF InFlight
<1>7. AfterArchive'
  <2> SUFFICES ASSUME Plain, peer'.clean, crc # Mixed PROVE crc = 0 /\ peer.sent > 0
    BY <1>1, <1>3 DEF AfterArchive, WriteLeaves
  <2>1. peer.clean /\ is_tar /\ peer.first # 0
    BY <1>1, <1>4 DEF WriteLeaves
  <2> QED BY <2>1 DEF ImageInv, ImageParts, AfterArchive
<1>8. InPlace' /\ BehindErased'
  BY <1>2 DEF InPlace, BehindErased
<1>9. VerifiedStays'
  <2>1. ~(verified.clean /\ Image(verified.stream))
    BY <1>4 DEF ImageInv, ImageParts, VerifiedStays, Plain
  <2> QED BY <1>1, <2>1 DEF VerifiedStays, WriteLeaves
<1> QED BY <1>5, <1>6, <1>7, <1>8, <1>9 DEF ImageParts

\* A block of an image is stored at the library's offset.
LEMMA ImageKeeps ==
  ASSUME ImageInv, NEW n \in 1..SlotSize, Write(n), ImageBlock(last_offset, Piece(n))
  PROVE  ImageParts'
<1>1. Sending(n) /\ WriteLeaves(n)
  BY WriteIs
<1>2. /\ is_tar' = is_tar /\ is_tar = FALSE /\ call'.block = Piece(n) /\ ~Idle'
      /\ call'.status = "stored" => Fits(last_offset, Len(Piece(n)))
  BY DEF ImageBlock, Started, Idle, ImageInv, Shapes
<1>3. Plain' = Plain /\ Sent' = Sent /\ peer'.sent = peer.sent /\ last_offset' = last_offset
  BY <1>1 DEF WriteLeaves, Plain, Sent
<1>4. /\ slots'[0] = Stored(slots[0], last_offset, Piece(n))
      /\ ~overrun' => ~overrun /\ ~Overruns(last_offset, Len(Piece(n)))
  BY DEF ImageBlock, Store, ImageInv, Shapes, Images
<1>5. ASSUME Plain
      PROVE  /\ Len(Piece(n)) = n /\ n \in Nat \ {0} /\ peer.sent + n <= Size(Sent)
             /\ Piece(n) = SubSeq(Bytes[Sent], peer.sent + 1, peer.sent + n)
             /\ last_offset \in Nat /\ peer.sent \in 0..Size(Sent) /\ peer.first \in Nat
             /\ Size(Sent) \in Nat
             /\ DOMAIN slots[0] = 0..(SlotSize - 1) /\ DOMAIN slots'[0] = DOMAIN slots[0]
             /\ \A p \in DOMAIN slots[0] \ (last_offset..(last_offset + n - 1)) :
                  slots'[0][p] = slots[0][p]
             /\ Fits(last_offset, n) /\ ~overrun' =>
                  \A p \in last_offset..(last_offset + n - 1) :
                    p \in DOMAIN slots[0] /\ slots'[0][p] = Piece(n)[p - last_offset + 1]
  <2>1. /\ Piece(n) \in Seq(ImageByte(Sent)) /\ Len(Piece(n)) = n
        /\ n \in Nat \ {0} /\ peer.sent + n <= Size(Sent)
        /\ Piece(n) = SubSeq(Bytes[Sent], peer.sent + 1, peer.sent + n)
        /\ last_offset \in Nat /\ Size(Sent) \in Nat
    BY <1>1, <1>5, NextPiece
  <2>2. /\ DOMAIN slots[0] = 0..(SlotSize - 1) /\ peer.sent \in 0..Size(Sent)
        /\ peer.first \in Nat
    BY <1>5 DEF ImageInv, ImageParts, Within
  <2>3. /\ DOMAIN slots'[0] = DOMAIN slots[0]
        /\ \A p \in DOMAIN slots[0] \ (last_offset..(last_offset + n - 1)) :
             slots'[0][p] = slots[0][p]
    <3>1. Len(Piece(n)) = n /\ n \in Nat /\ last_offset \in Nat
      BY <2>1
    <3>2. slots'[0] = Stored(slots[0], last_offset, Piece(n))
      BY <1>4
    <3>3. /\ DOMAIN Stored(slots[0], last_offset, Piece(n)) = DOMAIN slots[0]
          /\ \A p \in DOMAIN slots[0] \ (last_offset..(last_offset + n - 1)) :
               Stored(slots[0], last_offset, Piece(n))[p] = slots[0][p]
      BY <3>1, StoredElsewhere
    <3> QED BY <3>2, <3>3
  <2>4. ASSUME Fits(last_offset, n), ~overrun', NEW p \in last_offset..(last_offset + n - 1)
        PROVE  p \in DOMAIN slots[0] /\ slots'[0][p] = Piece(n)[p - last_offset + 1]
    <3>1. ~Overruns(last_offset, n)
      BY <1>4, <2>1, <2>4
    <3>2. Len(Piece(n)) = n /\ n \in Nat /\ last_offset \in Nat
      BY <2>1
    <3>3. DOMAIN slots[0] = 0..(SlotSize - 1)
      BY <2>2
    <3>4. /\ p \in DOMAIN slots[0]
          /\ Stored(slots[0], last_offset, Piece(n))[p] = Piece(n)[p - last_offset + 1]
      <4>1. /\ p \in 0..(SlotSize - 1)
            /\ p < StoreEnd(last_offset, n) /\ ChunkEnd(last_offset, n, p) <= SlotSize
        BY <2>4, <3>1, <3>2, StoredHere
      <4> QED BY <2>4, <3>2, <3>3, <4>1 DEF Stored
    <3> QED BY <1>4, <3>4
  <2> QED BY <2>1, <2>2, <2>3, <2>4
<1>6. Within'
  <2> SUFFICES ASSUME Plain' PROVE Within'
    BY DEF Within
  <2>1. Plain
    BY <1>3
  <2>2. peer.clean => crc \in Nat \cup {Mixed} /\ last_offset <= peer.sent
    BY <2>1 DEF ImageInv, ImageParts, Within
  <2> QED BY <1>1, <1>3, <1>5, <2>1, <2>2 DEF Within, WriteLeaves
<1>7. InFlight'
  <2> SUFFICES ASSUME Plain' PROVE InFlight'
    BY DEF InFlight
  <2>1. Plain
    BY <1>3
  <2>2. BlockLen' = n
    BY <1>2, <1>5, <2>1 DEF BlockLen
  <2>3. call'.status = "stored" => Fits(last_offset, n)
    BY <1>2, <1>5, <2>1
  <2> QED BY <1>2, <1>3, <1>5, <2>1, <2>2, <2>3 DEF InFlight
<1>8. AfterArchive'
  BY <1>2 DEF AfterArchive
<1>9. InPlace'
  <2> SUFFICES ASSUME Plain, peer'.clean, crc # Mixed
               PROVE  /\ last_offset = crc
                      /\ ~overrun' => \A p \in 0..(last_offset - 1) :
                           p \in DOMAIN slots'[0] /\ slots'[0][p] = Bytes[Sent][p + 1]
    BY <1>1, <1>3 DEF InPlace, WriteLeaves
  <2>1. peer.clean
    BY <1>1 DEF WriteLeaves
  <2>2. /\ last_offset = crc
        /\ ~overrun => \A p \in 0..(last_offset - 1) :
             p \in DOMAIN slots[0] /\ slots[0][p] = Bytes[Sent][p + 1]
    BY <1>2, <2>1 DEF ImageInv, ImageParts, InPlace
  <2> QED BY <1>4, <1>5, <2>2
<1>10. BehindErased'
  <2> SUFFICES ASSUME Plain, last_offset = 0 \/ peer'.clean,
                      NEW p \in Size(Sent)..(SlotSize - 1)
               PROVE  slots'[0][p] = ErasedByte
    BY <1>1, <1>3 DEF BehindErased, WriteLeaves
  <2>1. last_offset = 0 \/ peer.clean
    BY <1>1 DEF WriteLeaves
  <2>2. slots[0][p] = ErasedByte
    BY <1>2, <2>1 DEF ImageInv, ImageParts, BehindErased
  <2>3. peer.clean => last_offset <= peer.sent
    BY <1>5 DEF ImageInv, ImageParts, Within
  <2>4. last_offset + n <= Size(Sent) /\ last_offset + n \in Nat /\ Size(Sent) \in Nat
    <3>1. CASE last_offset = 0
      BY <1>5, <3>1
    <3>2. CASE peer.clean
      BY <1>5, <2>3, <3>2
    <3> QED BY <2>1, <3>1, <3>2
  <2>5. p \in DOMAIN slots[0] \ (last_offset..(last_offset + n - 1))
    <3>1. DOMAIN slots[0] = 0..(SlotSize - 1) /\ last_offset \in Nat /\ n \in Nat
      BY <1>5
    <3> QED BY <2>4, <3>1
  <2> QED BY <1>5, <2>2, <2>5
<1>11. VerifiedStays'
  <2> SUFFICES ASSUME verified.clean, Image(verified.stream)
               PROVE  /\ verified.stream = Sent /\ Size(Sent) <= last_offset
                      /\ ~overrun' => \A p \in 0..(Size(Sent) - 1) :
                           p \in DOMAIN slots'[0] /\ slots'[0][p] = Bytes[Sent][p + 1]
    BY <1>1, <1>2, <1>3 DEF VerifiedStays, WriteLeaves
  <2>1. /\ verified.stream = Sent /\ Size(Sent) <= last_offset
        /\ ~overrun => \A p \in 0..(Size(Sent) - 1) :
             p \in DOMAIN slots[0] /\ slots[0][p] = Bytes[Sent][p + 1]
    BY DEF ImageInv, ImageParts, VerifiedStays
  <2>2. Plain
    BY <2>1 DEF Plain
  <2> QED BY <1>4, <1>5, <2>1, <2>2
<1> QED BY <1>6, <1>7, <1>8, <1>9, <1>10, <1>11 DEF ImageParts

\* An accepted piece keeps what is said of a plain image.
LEMMA WriteKeeps ==
  ASSUME ImageInv, NEW n \in 1..SlotSize, Write(n) PROVE ImageInv'
<1>1. Shapes'
  BY WriteIs
<1>2. ArchiveBlock(last_offset, Piece(n)) \/ ImageBlock(last_offset, Piece(n))
  BY DEF Write
<1> QED BY <1>1, <1>2, ArchiveKeeps, ImageKeeps DEF ImageInv

\* The stored block counts, and the CRC takes it in if it is the next one.
LEMMA DoneKeeps ==
  ASSUME ImageInv, WriteDone PROVE ImageInv'
<1>1. /\ call.status = "stored" /\ ~Idle /\ Idle' /\ call'.status = "none"
      /\ last_offset' = last_offset + BlockLen
      /\ crc' = (IF Continues(call.block) THEN crc + BlockLen ELSE Mixed)
      /\ is_tar' = is_tar /\ slots' = slots /\ overrun' = overrun /\ verified' = verified
  BY DEF WriteDone, Idle, BlockLen, NoCall, store
<1>2. /\ peer'.stream = Sent /\ peer'.sent = peer.sent + BlockLen
      /\ peer'.first = peer.first /\ peer'.clean = peer.clean
  BY DEF WriteDone, BlockLen, ImageInv, Shapes, Sent
<1>3. Plain' = Plain /\ Sent' = Sent
  BY <1>2 DEF Plain, Sent
<1>4. Shapes'
  BY DEF WriteDone, ImageInv, Shapes, Sent, NoCall, store
<1>5. ASSUME Plain
      PROVE  /\ last_offset \in Nat /\ peer.sent \in Nat /\ peer.first \in Nat
             /\ BlockLen \in Nat \ {0} /\ peer.sent + BlockLen <= Size(Sent)
             /\ Size(Sent) \in Nat /\ Len(Bytes[Sent]) = Size(Sent)
             /\ call.block = SubSeq(Bytes[Sent], peer.sent + 1, peer.sent + BlockLen)
             /\ DOMAIN slots[0] = 0..(SlotSize - 1)
  <2>1. Size(Sent) \in Nat /\ Len(Bytes[Sent]) = Size(Sent)
    BY <1>5, ImageBytes DEF Plain
  <2>2. /\ last_offset \in Nat /\ peer.sent \in 0..Size(Sent) /\ peer.first \in Nat
        /\ DOMAIN slots[0] = 0..(SlotSize - 1)
    BY <1>5 DEF ImageInv, ImageParts, Within
  <2>3. /\ BlockLen \in Nat \ {0} /\ peer.sent + BlockLen <= Size(Sent)
        /\ call.block = SubSeq(Bytes[Sent], peer.sent + 1, peer.sent + BlockLen)
    BY <1>1, <1>5 DEF ImageInv, ImageParts, InFlight
  <2>4. peer.sent \in Nat
    BY <2>1, <2>2
  <2> QED BY <2>1, <2>2, <2>3, <2>4
<1>6. ASSUME Plain, peer.clean, crc' # Mixed
      PROVE  /\ crc \in Nat /\ crc' = crc + BlockLen /\ crc + BlockLen <= Size(Sent)
             /\ call.block = SubSeq(Bytes[Sent], crc + 1, crc + BlockLen)
  <2>1. Continues(call.block) /\ crc' = crc + BlockLen
    BY <1>1, <1>6
  <2>2. crc \in Nat
    BY <1>6, <2>1 DEF ImageInv, ImageParts, Within, Continues
  <2> QED BY <1>5, <1>6, <2>1, <2>2 DEF Continues, BlockLen, Sent
<1>7. Within'
  <2> SUFFICES ASSUME Plain' PROVE Within'
    BY DEF Within
  <2>1. Plain
    BY <1>3
  <2>2. peer.clean => last_offset <= peer.sent
    BY <2>1 DEF ImageInv, ImageParts, Within
  <2>3. peer'.clean => crc' \in Nat \cup {Mixed}
    BY <1>2, <1>5, <1>6, <2>1
  <2>4. /\ peer'.sent \in 0..Size(Sent) /\ last_offset' \in Nat /\ peer'.first \in Nat
        /\ DOMAIN slots'[0] = 0..(SlotSize - 1)
    BY <1>1, <1>2, <1>5, <2>1
  <2>5. peer'.clean => last_offset' <= peer'.sent
    <3>1. PICK n, o, t \in Nat : n = BlockLen /\ o = last_offset /\ t = peer.sent
      BY <1>5, <2>1
    <3>2. last_offset' = o + n /\ peer'.sent = t + n /\ (o <= t => o + n <= t + n)
      BY <1>1, <1>2, <3>1
    <3> QED BY <1>2, <2>2, <3>1, <3>2
  <2> QED BY <1>3, <2>3, <2>4, <2>5 DEF Within
<1>8. InFlight'
  BY <1>1 DEF InFlight
<1>9. AfterArchive'
  <2> SUFFICES ASSUME Plain, peer.clean, is_tar, crc' # Mixed PROVE FALSE
    BY <1>1, <1>2, <1>3 DEF AfterArchive
  <2>1. crc \in Nat /\ call.block = SubSeq(Bytes[Sent], crc + 1, crc + BlockLen)
    BY <1>6
  <2>2. crc = 0 /\ peer.sent > 0
    BY <1>1, <2>1 DEF ImageInv, ImageParts, AfterArchive, Mixed
  <2>3. PICK k \in Nat, c \in Nat, n \in Nat \ {0} : k = peer.sent /\ c = crc /\ n = BlockLen
    BY <1>5, <2>1
  <2>4. c + n <= Size(Sent) /\ k + n <= Size(Sent)
    BY <1>5, <1>6, <2>3
  <2>5. call.block[1] = <<Sent, "image", 0, c>>
    <3>1. call.block = SubSeq(Bytes[Sent], c + 1, c + n)
      BY <2>1, <2>3
    <3> QED BY <2>4, <3>1, FirstByte DEF Plain
  <2>6. call.block[1] = <<Sent, "image", 0, k>>
    <3>1. call.block = SubSeq(Bytes[Sent], k + 1, k + n)
      BY <1>5, <2>3
    <3> QED BY <2>4, <3>1, FirstByte DEF Plain
  <2> QED BY <2>2, <2>3, <2>5, <2>6
<1>10. InPlace'
  <2> SUFFICES ASSUME Plain, peer.clean, ~is_tar, crc' # Mixed
               PROVE  /\ last_offset' = crc'
                      /\ ~overrun => \A p \in 0..(last_offset' - 1) :
                           p \in DOMAIN slots[0] /\ slots[0][p] = Bytes[Sent][p + 1]
    BY <1>1, <1>2, <1>3 DEF InPlace
  <2>1. /\ crc \in Nat /\ crc' = crc + BlockLen /\ crc + BlockLen <= Size(Sent)
        /\ call.block = SubSeq(Bytes[Sent], crc + 1, crc + BlockLen)
    BY <1>6
  <2>2. /\ last_offset = crc
        /\ ~overrun => \A p \in 0..(last_offset - 1) :
             p \in DOMAIN slots[0] /\ slots[0][p] = Bytes[Sent][p + 1]
    BY <2>1 DEF ImageInv, ImageParts, InPlace, Mixed
  <2>3. ~overrun => \A p \in last_offset..(last_offset + BlockLen - 1) :
          p \in DOMAIN slots[0] /\ slots[0][p] = call.block[p - last_offset + 1]
    BY <1>1 DEF ImageInv, ImageParts, InFlight
  <2>4. ASSUME ~overrun, NEW p \in 0..(last_offset' - 1)
        PROVE  p \in DOMAIN slots[0] /\ slots[0][p] = Bytes[Sent][p + 1]
    <3>1. CASE p < last_offset
      BY <1>5, <2>2, <2>4, <3>1
    <3>2. CASE p >= last_offset
      <4>1. p \in last_offset..(last_offset + BlockLen - 1)
        BY <1>1, <1>5, <3>2
      <4>2. p \in DOMAIN slots[0] /\ slots[0][p] = call.block[p - last_offset + 1]
        BY <2>3, <2>4, <4>1
      <4>3. PICK k \in Nat, n \in Nat \ {0}, i \in Nat :
              k = crc /\ n = BlockLen /\ i = p - last_offset + 1
        <5>1. p - last_offset + 1 \in Nat
          BY <1>5, <2>4, <3>2
        <5> QED BY <1>5, <2>1, <5>1
      <4>4. i \in 1..n /\ k + i = p + 1 /\ k + n <= Size(Sent)
        BY <1>5, <2>1, <2>2, <4>1, <4>3
      <4>5. LET b == SubSeq(Bytes[Sent], k + 1, k + n)
            IN  \A j \in 1..n : b[j] = Bytes[Sent][k + j]
        BY <4>4, ImagePiece DEF Plain
      <4>6. call.block[i] = Bytes[Sent][k + i]
        BY <2>1, <4>3, <4>4, <4>5
      <4> QED BY <4>2, <4>3, <4>4, <4>6
    <3> QED BY <1>5, <3>1, <3>2
  <2> QED BY <1>1, <2>1, <2>2, <2>4
<1>11. BehindErased'
  <2> SUFFICES ASSUME Plain, ~is_tar, last_offset' = 0 \/ peer.clean
               PROVE  \A p \in Size(Sent)..(SlotSize - 1) : slots[0][p] = ErasedByte
    BY <1>1, <1>2, <1>3 DEF BehindErased
  <2>1. last_offset' # 0
    BY <1>1, <1>5
  <2> QED BY <2>1 DEF ImageInv, ImageParts, BehindErased
<1>12. VerifiedStays'
  <2> SUFFICES ASSUME verified.clean, Image(verified.stream)
               PROVE  /\ verified.stream = Sent /\ ~is_tar /\ Size(Sent) <= last_offset'
                      /\ ~overrun => \A p \in 0..(Size(Sent) - 1) :
                           p \in DOMAIN slots[0] /\ slots[0][p] = Bytes[Sent][p + 1]
    BY <1>1, <1>3 DEF VerifiedStays
  <2>1. /\ verified.stream = Sent /\ ~is_tar /\ Size(Sent) <= last_offset
        /\ ~overrun => \A p \in 0..(Size(Sent) - 1) :
             p \in DOMAIN slots[0] /\ slots[0][p] = Bytes[Sent][p + 1]
    BY DEF ImageInv, ImageParts, VerifiedStays
  <2>2. Plain
    BY <2>1 DEF Plain
  <2>3. Size(Sent) <= last_offset'
    BY <1>1, <1>5, <2>1, <2>2
  <2> QED BY <2>1, <2>3
<1> QED BY <1>4, <1>7, <1>8, <1>9, <1>10, <1>11, <1>12 DEF ImageInv, ImageParts

-----------------------------------------------------------------------------
(* The parser, and the other commands                                      *)

\* What a turn of the parser leaves alone.
ParseLeaves ==
  /\ call.status = "parse" /\ call'.status \in {"parse", "stored", "failed"}
  /\ call'.block = call.block
  /\ call' = [status |-> call'.status, offset |-> call'.offset, block |-> call'.block,
              base |-> call'.base, consumed |-> call'.consumed]
  /\ is_tar' = is_tar
  /\ DOMAIN slots' = Images /\ DOMAIN slots'[0] = DOMAIN slots[0] /\ overrun' \in BOOLEAN

\* A turn that consumes leaves the block of the call alone.
LEMMA ConsumeLeaves ==
  ASSUME Shapes, call.status = "parse", NEW n, Consume(n)
  PROVE  /\ call'.status = "parse" /\ call'.block = call.block
         /\ call' = [status |-> call'.status, offset |-> call'.offset, block |-> call'.block,
                     base |-> call'.base, consumed |-> call'.consumed]
<1>1. CASE UNCHANGED call
  BY <1>1 DEF Shapes
<1>2. CASE call' = [call EXCEPT !.consumed = @ + n]
  BY <1>2 DEF Shapes
<1> QED BY <1>1, <1>2 DEF Consume

\* A store leaves slots of the same shape.
LEMMA StoreLeaves ==
  ASSUME Shapes, NEW img \in Images, NEW offset, NEW bytes,
         UNCHANGED store \/ Store(img, offset, bytes)
  PROVE  DOMAIN slots' = Images /\ DOMAIN slots'[0] = DOMAIN slots[0] /\ overrun' \in BOOLEAN
<1>1. CASE UNCHANGED store
  BY <1>1 DEF store, Shapes
<1>2. CASE Store(img, offset, bytes)
  <2>1. slots' = [slots EXCEPT ![img] = Stored(slots[img], offset, bytes)]
    BY <1>2 DEF Store
  <2>2. DOMAIN Stored(slots[img], offset, bytes) = DOMAIN slots[img]
    BY DEF Stored
  <2>3. 0 \in Images /\ DOMAIN slots = Images
    BY DEF Shapes, Images
  <2>4. overrun' \in BOOLEAN
    BY <1>2 DEF Store
  <2>5. DOMAIN slots' = Images
    BY <2>1, <2>3
  <2>6. slots'[0] = IF img = 0 THEN Stored(slots[img], offset, bytes) ELSE slots[0]
    BY <2>1, <2>3
  <2> QED BY <2>2, <2>4, <2>5, <2>6
<1> QED BY <1>1, <1>2

\* What a turn of the parser leaves.
LEMMA ParseIs ==
  ASSUME Shapes, Parse PROVE ParseLeaves
<1> USE DEF ParseLeaves
<1>0. /\ call = [status |-> call.status, offset |-> call.offset, block |-> call.block,
                 base |-> call.base, consumed |-> call.consumed]
      /\ UNCHANGED store => /\ DOMAIN slots' = Images /\ DOMAIN slots'[0] = DOMAIN slots[0]
                            /\ overrun' \in BOOLEAN
  BY DEF Shapes, store
<1>1. CASE Collect
  BY <1>0, <1>1 DEF Collect, Parsing
<1>2. CASE AskForBlock \/ AskForList
  BY <1>0, <1>2 DEF AskForBlock, AskForList, AtList, Ready, Parsing
<1>3. CASE SkipPadding
  BY <1>0, <1>3, ConsumeLeaves DEF SkipPadding, Ready, Parsing
<1>4. CASE SkipZeros \/ ListHeader \/ FileHeader
  <2>1. Consume(Block) /\ call.status = "parse" /\ UNCHANGED <<is_tar, store>>
    BY <1>4 DEF SkipZeros, ListHeader, FileHeader, AtHeader, Ready, Parsing
  <2> QED BY <1>0, <2>1, ConsumeLeaves
<1>5. CASE HeaderFails \/ ListTooLarge
  BY <1>0, <1>5 DEF HeaderFails, ListTooLarge, AtHeader, AtList, Ready, Parsing, Fail
<1>6. CASE ListParsed
  BY <1>0, <1>6, ConsumeLeaves DEF ListParsed, AtList, Ready, Parsing
<1>7. CASE ListFails
  BY <1>0, <1>7 DEF ListFails, AtList, Ready, Parsing
<1>8. ImageOf(FileType) \in Images
  BY DEF ImageOf, Images
<1>9. CASE FileWritten
  <2>1. call.status = "parse" /\ Consume(FileBytes) /\ is_tar' = is_tar
    BY <1>9 DEF FileWritten, AtFile, Ready, Parsing
  <2>2. Store(ImageOf(FileType), FileOffset, SubSeq(Source, 1, FileBytes))
    BY <1>9 DEF FileWritten
  <2>3. DOMAIN slots' = Images /\ DOMAIN slots'[0] = DOMAIN slots[0] /\ overrun' \in BOOLEAN
    BY <1>8, <2>2, StoreLeaves
  <2> QED BY <2>1, <2>3, ConsumeLeaves
<1>10. CASE FileNothing
  BY <1>0, <1>10, ConsumeLeaves DEF FileNothing, AtFile, Ready, Parsing
<1>11. CASE FileFails
  <2>1. call.status = "parse" /\ Fail /\ is_tar' = is_tar
    BY <1>11 DEF FileFails, AtFile, Ready, Parsing
  <2>2. \/ UNCHANGED store
        \/ Store(ImageOf(FileType), FileOffset, SubSeq(Source, 1, FileBytes))
    BY <1>11 DEF FileFails
  <2>3. DOMAIN slots' = Images /\ DOMAIN slots'[0] = DOMAIN slots[0] /\ overrun' \in BOOLEAN
    BY <1>8, <2>2, StoreLeaves
  <2> QED BY <1>0, <2>1, <2>3 DEF Fail
<1>12. CASE ParseReturns
  BY <1>0, <1>12 DEF ParseReturns
<1> QED BY <1>1, <1>2, <1>3, <1>4, <1>5, <1>6, <1>7, <1>9, <1>10, <1>11, <1>12 DEF Parse

\* The parser runs for archives, or for what is taken for one.
LEMMA ParseKeeps ==
  ASSUME ImageInv, ParseStep PROVE ImageInv'
<1>1. ParseLeaves
  BY ParseIs DEF ParseStep, ImageInv
<1>2. /\ last_offset' = last_offset /\ crc' = crc /\ peer' = peer /\ verified' = verified
  BY DEF ParseStep, device
<1>3. is_tar /\ is_tar' /\ ~Idle /\ ~Idle' /\ BlockLen' = BlockLen
  BY <1>1 DEF ParseLeaves, ImageInv, Shapes, Idle, BlockLen
<1>4. Plain' = Plain /\ Sent' = Sent
  BY <1>2 DEF Plain, Sent
<1>5. Shapes'
  BY <1>1, <1>2, <1>3 DEF ParseLeaves, ImageInv, Shapes, Sent
<1>6. Within'
  BY <1>1, <1>2, <1>4 DEF ParseLeaves, ImageInv, ImageParts, Within
<1>7. InFlight'
  BY <1>1, <1>2, <1>3, <1>4 DEF ParseLeaves, ImageInv, ImageParts, InFlight
<1>8. AfterArchive'
  BY <1>2, <1>3, <1>4 DEF ImageInv, ImageParts, AfterArchive
<1>9. InPlace' /\ BehindErased'
  BY <1>3 DEF InPlace, BehindErased
<1>10. VerifiedStays'
  BY <1>2, <1>3 DEF ImageInv, ImageParts, VerifiedStays
<1> QED BY <1>5, <1>6, <1>7, <1>8, <1>9, <1>10 DEF ImageInv, ImageParts

\* A block that was not stored may be sent again.
LEMMA FailedKeeps ==
  ASSUME ImageInv, WriteFailed PROVE ImageInv'
<1>1. /\ call.status = "failed" /\ ~Idle /\ Idle' /\ call' = NoCall
      /\ last_offset' = last_offset /\ crc' = crc /\ peer' = peer /\ verified' = verified
      /\ is_tar' = is_tar /\ slots' = slots /\ overrun' = overrun
  BY DEF WriteFailed, Idle, NoCall, device, store
<1>2. Plain' = Plain /\ Sent' = Sent
  BY <1>1 DEF Plain, Sent
<1>3. Shapes'
  BY <1>1 DEF ImageInv, Shapes, Sent, NoCall
<1>4. Within' /\ InPlace' /\ BehindErased' /\ VerifiedStays'
  BY <1>1, <1>2 DEF ImageInv, ImageParts, Within, InPlace, BehindErased, VerifiedStays
<1>5. InFlight'
  BY <1>1 DEF InFlight
<1>6. AfterArchive'
  BY <1>1, <1>2 DEF ImageInv, ImageParts, AfterArchive
<1> QED BY <1>3, <1>4, <1>5, <1>6 DEF ImageInv, ImageParts

\* A piece that is lost is one the CRC will miss.
LEMMA LostKeeps ==
  ASSUME ImageInv, NEW n \in 1..SlotSize, PieceLost(n) PROVE ImageInv'
<1>1. /\ Sending(n) /\ Idle /\ Idle' /\ call' = call
      /\ last_offset' = last_offset /\ crc' = crc /\ verified' = verified
      /\ is_tar' = is_tar /\ slots' = slots /\ overrun' = overrun
  BY DEF PieceLost, Sending, Idle, untarVars, device, store
<1>2. /\ peer'.stream = Sent /\ peer'.sent = peer.sent + n /\ peer'.clean = peer.clean
      /\ peer'.first = (IF peer.first = 0 THEN n ELSE peer.first)
      /\ peer' = [stream |-> peer'.stream, sent |-> peer'.sent, first |-> peer'.first,
                  clean |-> peer'.clean]
  BY DEF PieceLost, ImageInv, Shapes, Sent
<1>3. Plain' = Plain /\ Sent' = Sent
  BY <1>2 DEF Plain, Sent
<1>4. Shapes'
  BY <1>1, <1>2 DEF ImageInv, Shapes, Sent
<1>5. ASSUME Plain
      PROVE  peer.sent \in Nat /\ peer.sent + n <= Size(Sent) /\ n \in Nat \ {0}
    BY <1>1, <1>5, NextPiece
<1>6. Within'
  <2> SUFFICES ASSUME Plain' PROVE Within'
    BY DEF Within
  <2>1. Plain
    BY <1>3
  <2>2. /\ last_offset \in Nat /\ peer.sent \in 0..Size(Sent) /\ peer.first \in Nat
        /\ DOMAIN slots[0] = 0..(SlotSize - 1)
    BY <2>1 DEF ImageInv, ImageParts, Within
  <2>3. peer.clean => crc \in Nat \cup {Mixed} /\ last_offset <= peer.sent
    BY <2>1 DEF ImageInv, ImageParts, Within
  <2>4. Size(Sent) \in Nat
    BY <2>1, ImageBytes DEF Plain
  <2>5. peer'.sent \in 0..Size(Sent) /\ peer'.first \in Nat
    BY <1>2, <1>5, <2>1, <2>2, <2>4
  <2>6. peer'.clean => crc' \in Nat \cup {Mixed} /\ last_offset' <= peer'.sent
    BY <1>1, <1>2, <1>5, <2>1, <2>2, <2>3
  <2> QED BY <1>1, <1>3, <2>2, <2>5, <2>6 DEF Within
<1>7. InFlight'
  BY <1>1 DEF InFlight
<1>8. AfterArchive'
  <2> SUFFICES ASSUME Plain, peer.clean, is_tar, crc # Mixed
               PROVE  crc = 0 /\ peer'.sent > 0
    BY <1>1, <1>2, <1>3 DEF AfterArchive
  <2> QED BY <1>2, <1>5 DEF ImageInv, ImageParts, AfterArchive
<1>9. InPlace' /\ BehindErased' /\ VerifiedStays'
  BY <1>1, <1>2, <1>3 DEF ImageInv, ImageParts, InPlace, BehindErased, VerifiedStays
<1> QED BY <1>4, <1>6, <1>7, <1>8, <1>9 DEF ImageInv, ImageParts

\* The verification finds the CRC of the whole image, or leaves things as they are.
LEMMA VerifyKeeps ==
  ASSUME ImageInv, NEW told \in BOOLEAN, Verify(told) PROVE ImageInv'
<1>1. /\ Idle /\ last_offset' = last_offset /\ crc' = crc /\ peer' = peer /\ call' = call
      /\ is_tar' = is_tar /\ slots' = slots /\ overrun' = overrun
      /\ verified' = IF Matches THEN peer ELSE verified
  BY DEF Verify, untarVars, store
<1>2. Plain' = Plain /\ Sent' = Sent /\ Idle' = Idle /\ BlockLen' = BlockLen
  BY <1>1 DEF Plain, Sent, Idle, BlockLen
<1>3. Within' /\ InFlight' /\ AfterArchive' /\ InPlace' /\ BehindErased'
  BY <1>1, <1>2 DEF ImageInv, ImageParts, Within, InFlight, AfterArchive, InPlace, BehindErased
<1>5. Shapes'
  <2>1. Sent \in Streams
    BY DEF Verify, ImageInv, Shapes, Sent
  <2>2. verified'.clean => verified'.stream \in Streams
    BY <1>1, <2>1 DEF ImageInv, Shapes, Sent
  <2> QED BY <1>1, <2>2 DEF ImageInv, Shapes, Sent
<1>4. VerifiedStays'
  <2>1. CASE Matches /\ peer.clean /\ Plain
    <3>1. crc = Size(Sent) /\ Size(Sent) \in Nat \ {0}
      BY <2>1, ImageBytes DEF Matches, Plain, Sent
    <3>2. ~is_tar
      BY <2>1, <3>1 DEF ImageInv, ImageParts, AfterArchive, Mixed
    <3>3. /\ last_offset = crc
          /\ ~overrun => \A p \in 0..(last_offset - 1) :
               p \in DOMAIN slots[0] /\ slots[0][p] = Bytes[Sent][p + 1]
      BY <2>1, <3>1, <3>2 DEF ImageInv, ImageParts, InPlace, Mixed
    <3>4. verified' = peer
      BY <1>1, <2>1
    <3> QED BY <1>1, <1>2, <3>1, <3>2, <3>3, <3>4 DEF VerifiedStays, Sent
  <2>2. CASE Matches /\ ~(peer.clean /\ Plain)
    <3>1. ~(verified'.clean /\ Image(verified'.stream))
      BY <1>1, <2>2 DEF Plain, Sent
    <3> QED BY <3>1 DEF VerifiedStays
  <2>3. CASE ~Matches
    BY <1>1, <1>2, <2>3 DEF ImageInv, ImageParts, VerifiedStays
  <2> QED BY <2>1, <2>2, <2>3
<1> QED BY <1>3, <1>4, <1>5 DEF ImageInv, ImageParts

\* Every step keeps what is said of a plain image.
LEMMA ImageStep == ImageInv /\ [Next]_vars => ImageInv'
<1> SUFFICES ASSUME ImageInv, [Next]_vars PROVE ImageInv'
  OBVIOUS
<1>1. CASE Abort \/ UNCHANGED vars
  <2>1. /\ last_offset' = last_offset /\ crc' = crc /\ peer' = peer /\ call' = call
        /\ is_tar' = is_tar /\ slots' = slots /\ overrun' = overrun /\ verified' = verified
    BY <1>1 DEF Abort, vars, untarVars, device, store
  <2> QED BY <2>1 DEF ImageInv, ImageParts, Shapes, Within, InFlight, AfterArchive, InPlace,
                      BehindErased, VerifiedStays, Plain, Sent, Idle, BlockLen
<1> QED BY <1>1, PrepareKeeps, StartKeeps, VerifyKeeps, WriteKeeps, LostKeeps, ParseKeeps,
           DoneKeeps, FailedKeeps DEF Next

\* The invariant holds with any images and archives, prepared, started, aborted and
\* verified in any order.
THEOREM ImageAlways == Spec => []ImageInv
  BY ImageInit, ImageStep, PTL DEF Spec

\* What VerifiedInPlace says of an image.
ImageVerified ==
  ~overrun /\ verified.clean /\ Image(verified.stream) =>
    /\ \A p \in 0..(Size(verified.stream) - 1) : slots[0][p] = Bytes[verified.stream][p + 1]
    /\ peer = verified =>
         \A p \in Size(verified.stream)..(SlotSize - 1) : slots[0][p] = ErasedByte

\* An image that was verified is in its slot, byte by byte and with nothing behind
\* it, whatever was sent before it, lost, repeated or verified early: the offset of
\* cy_ota_ble_download_write() and the CRC of cy_ota_ble_download_verify() part
\* whenever something is missing.  Archives may come before and after it.
THEOREM ImagesAreStored == Spec => []ImageVerified
<1>1. ImageInv => ImageVerified
  <2> SUFFICES ASSUME ImageInv, ~overrun, verified.clean, Image(verified.stream)
               PROVE  /\ \A p \in 0..(Size(Sent) - 1) : slots[0][p] = Bytes[Sent][p + 1]
                      /\ verified.stream = Sent
                      /\ peer = verified =>
                           \A p \in Size(Sent)..(SlotSize - 1) : slots[0][p] = ErasedByte
    BY DEF ImageVerified
  <2>1. /\ verified.stream = Sent /\ ~is_tar
        /\ \A p \in 0..(Size(Sent) - 1) : slots[0][p] = Bytes[Sent][p + 1]
    BY DEF ImageInv, ImageParts, VerifiedStays
  <2>2. Plain
    BY <2>1 DEF Plain
  <2>3. peer = verified => \A p \in Size(Sent)..(SlotSize - 1) : slots[0][p] = ErasedByte
    BY <2>1, <2>2 DEF ImageInv, ImageParts, BehindErased
  <2> QED BY <2>1, <2>3
<1> QED BY <1>1, ImageAlways, PTL

\* The slot of an image that was verified.
LEMMA ImageArrived ==
  ASSUME ImageInv, ImageVerified, ~overrun, verified.clean, Image(verified.stream)
  PROVE  Arrived(verified)
<1> DEFINE whole == [img |-> 0, bytes |-> Bytes[verified.stream]]
<1>1. Expected(verified) = {whole}
  BY DEF Expected, TakenApart, Image
<1>2. /\ whole.img = 0 /\ whole.bytes = Bytes[verified.stream]
      /\ Len(whole.bytes) = Size(verified.stream) /\ Size(verified.stream) \in Nat
  BY ImageBytes
<1>3. /\ \A p \in 0..(Size(verified.stream) - 1) : slots[0][p] = Bytes[verified.stream][p + 1]
      /\ peer = verified =>
           \A p \in Size(verified.stream)..(SlotSize - 1) : slots[0][p] = ErasedByte
  BY DEF ImageVerified
<1> HIDE DEF whole
<1>4. \A e \in Expected(verified) :
        \A p \in 0..(Len(e.bytes) - 1) : slots[e.img][p] = e.bytes[p + 1]
  <2>1. \A p \in 0..(Len(whole.bytes) - 1) : slots[whole.img][p] = whole.bytes[p + 1]
    BY <1>2, <1>3
  <2> QED BY <1>1, <2>1, Zenon
<1>5. ASSUME peer = verified, NEW p \in 0..(SlotSize - 1)
      PROVE  \/ \E e \in Expected(verified) : e.img = 0 /\ p < Len(e.bytes)
             \/ slots[0][p] = ErasedByte
  <2>1. CASE p < Size(verified.stream)
    BY <1>1, <1>2, <2>1
  <2>2. CASE ~(p < Size(verified.stream))
    <3>1. p \in Size(verified.stream)..(SlotSize - 1)
      BY <1>2, <1>5, <2>2
    <3> QED BY <1>3, <1>5, <3>1
  <2> QED BY <2>1, <2>2
<1> QED BY <1>4, <1>5 DEF Arrived

\* Hence a peer that sends images only finds every one stored that it verifies.
THEOREM VerifiedImages ==
  ASSUME \A s \in Streams : ~Contents[s].archive PROVE Spec => []VerifiedIsStored
<1>1. ImageInv /\ ImageVerified => VerifiedIsStored
  <2>1. ImageInv /\ verified.clean => Image(verified.stream)
    BY DEF ImageInv, Shapes, Image
  <2> QED BY <2>1, ImageArrived DEF VerifiedIsStored, VerifiedInPlace
<1> QED BY <1>1, ImageAlways, ImagesAreStored, PTL

-----------------------------------------------------------------------------
(* Induction over the numbers, for the recursive functions of the library:  *)
(* a set that contains 0 and with each number the next contains them all.   *)

\* Every set of numbers has a smallest one.
LEMMA SmallestOf ==
  ASSUME NEW T, T \subseteq Nat, T # {}
  PROVE  \E x \in T : \A y \in T : x <= y
<1> DEFINE R == OpToRel(<, Nat)
<1>1. IsWellFoundedOn(R, Nat)
  BY NatLessThanWellFounded
<1> HIDE DEF R
<1>2. PICK x \in T : \A y \in T : ~(<<y, x>> \in R)
  BY <1>1, WFMin
<1>3. \A y \in T : ~(y < x)
  BY <1>2 DEF R, OpToRel
<1> QED BY <1>3

\* Hence induction, stated of sets.
LEMMA Induction ==
  ASSUME NEW T, 0 \in T, \A n \in Nat : n \in T => n + 1 \in T
  PROVE  Nat \subseteq T
<1> DEFINE Gap == Nat \ T
<1> SUFFICES ASSUME Gap # {} PROVE FALSE
  OBVIOUS
<1>1. PICK x \in Gap : \A y \in Gap : x <= y
  BY SmallestOf
<1>2. x # 0 /\ x \in Nat
  OBVIOUS
<1>3. x - 1 \in Nat /\ x - 1 \notin Gap
  BY <1>1, <1>2
<1>4. x \in T
  BY <1>3
<1> QED BY <1>4

\* FlattenSeq() concatenates one sequence after the other.
LEMMA FlattenUnfolds ==
  ASSUME NEW seqs, Len(seqs) \in Nat \ {0}
  PROVE  \E f : /\ FlattenSeq(seqs) = f[Len(seqs)] /\ DOMAIN f = 1..Len(seqs)
                /\ f[1] = seqs[1]
                /\ \A k \in 1..(Len(seqs) - 1) : f[k + 1] = f[k] \o seqs[k + 1]
<1> DEFINE n == Len(seqs)
           Unfold(f, k) == f = [i \in 1..k |-> IF i = 1 THEN seqs[i] ELSE f[i - 1] \o seqs[i]]
           T == {k \in Nat : \E f : Unfold(f, k)}
<1>1. 0 \in T
  <2>1. Unfold([i \in {} |-> 0], 0)
    OBVIOUS
  <2> QED BY <2>1
<1>2. \A k \in Nat : k \in T => k + 1 \in T
  <2> SUFFICES ASSUME NEW k \in Nat, k \in T PROVE k + 1 \in T
    OBVIOUS
  <2> PICK f : Unfold(f, k)
    OBVIOUS
  <2> DEFINE g == [i \in 1..(k + 1) |-> IF i = 1 THEN seqs[i] ELSE f[i - 1] \o seqs[i]]
  <2>0. DOMAIN f = 1..k /\ \A i \in 1..k : f[i] = IF i = 1 THEN seqs[i] ELSE f[i - 1] \o seqs[i]
    OBVIOUS
  <2>1. \A i \in 1..k : g[i] = f[i]
    <3> TAKE i \in 1..k
    <3>1. i \in 1..(k + 1)
      OBVIOUS
    <3>2. g[i] = IF i = 1 THEN seqs[i] ELSE f[i - 1] \o seqs[i]
      BY <3>1
    <3> QED BY <2>0, <3>2
  <2>2. \A i \in 1..(k + 1) : i # 1 => (i - 1) \in 1..k
    OBVIOUS
  <2>3. Unfold(g, k + 1)
    BY <2>1, <2>2
  <2> HIDE DEF Unfold, g
  <2> QED BY <2>3
<1>3. n \in T
  <2> HIDE DEF T, n
  <2>1. Nat \subseteq T
    BY <1>1, <1>2, Induction
  <2> QED BY <2>1 DEF n
<1>4. \E f : Unfold(f, n)
  BY <1>3
<1> DEFINE h == CHOOSE f : Unfold(f, n)
<1>5. Unfold(h, n)
  <2> HIDE DEF Unfold
  <2> QED BY <1>4
<1>6. FlattenSeq(seqs) = h[n]
  BY DEF FlattenSeq
<1> HIDE DEF h
<1>7. DOMAIN h = 1..n /\ \A i \in 1..n : h[i] = IF i = 1 THEN seqs[i] ELSE h[i - 1] \o seqs[i]
  BY <1>5
<1> HIDE DEF Unfold
<1>8. h[1] = seqs[1]
  <2>1. 1 \in 1..n
    OBVIOUS
  <2> QED BY <1>7, <2>1
<1>9. ASSUME NEW k \in 1..(n - 1) PROVE h[k + 1] = h[k] \o seqs[k + 1]
  <2>1. k + 1 \in 1..n /\ k + 1 # 1 /\ (k + 1) - 1 = k
    OBVIOUS
  <2>2. h[k + 1] = h[(k + 1) - 1] \o seqs[k + 1]
    BY <1>7, <2>1
  <2> QED BY <2>1, <2>2
<1> QED BY <1>6, <1>7, <1>8, <1>9

\* What a concatenation holds.
LEMMA Concat ==
  ASSUME NEW B, NEW s, NEW t, s \in Seq(B), t \in Seq(B)
  PROVE  /\ s \o t \in Seq(B) /\ Len(s) \in Nat /\ Len(t) \in Nat
         /\ Len(s \o t) = Len(s) + Len(t)
         /\ \A i \in 1..Len(s) : (s \o t)[i] = s[i]
         /\ \A i \in 1..Len(t) : (s \o t)[Len(s) + i] = t[i]
<1>1. PICK a, b \in Nat : a = Len(s) /\ b = Len(t)
  OBVIOUS
<1>2. /\ s \o t \in Seq(B) /\ Len(s \o t) = a + b
      /\ \A i \in 1..(a + b) : (s \o t)[i] = IF i <= a THEN s[i] ELSE t[i - a]
  BY <1>1, ConcatProperties
<1>3. \A i \in 1..a : i \in 1..(a + b) /\ i <= a
  OBVIOUS
<1>4. \A i \in 1..b : a + i \in 1..(a + b) /\ ~(a + i <= a) /\ (a + i) - a = i
  OBVIOUS
<1>5. ASSUME NEW i \in 1..b PROVE (s \o t)[a + i] = t[i]
  BY <1>2, <1>4
<1> QED BY <1>1, <1>2, <1>3, <1>5

\* The sequences lie one behind the other in what is concatenated.
Lies(whole, start, seqs) ==
  /\ start[1] = 0 /\ Len(whole) = start[Len(seqs) + 1]
  /\ \A k \in 1..(Len(seqs) + 1) : start[k] \in Nat
  /\ \A k \in 1..Len(seqs) : start[k + 1] = start[k] + Len(seqs[k])
  /\ \A k \in 1..Len(seqs) : start[k + 1] <= Len(whole)
  /\ \A k \in 1..Len(seqs) : \A i \in 1..Len(seqs[k]) : whole[start[k] + i] = seqs[k][i]

\* A concatenation of parts: how long it is, and where each part begins in it.
LEMMA FlattenParts ==
  ASSUME NEW B, NEW seqs, Len(seqs) \in Nat \ {0}, \A k \in 1..Len(seqs) : seqs[k] \in Seq(B)
  PROVE  FlattenSeq(seqs) \in Seq(B) /\ \E start : Lies(FlattenSeq(seqs), start, seqs)
<1>1. PICK n \in Nat \ {0} : n = Len(seqs)
  OBVIOUS
<1>2. PICK f : /\ FlattenSeq(seqs) = f[n] /\ DOMAIN f = 1..n
               /\ f[1] = seqs[1]
               /\ \A k \in 1..(n - 1) : f[k + 1] = f[k] \o seqs[k + 1]
  BY <1>1, FlattenUnfolds
<1>3. \A k \in 1..n : seqs[k] \in Seq(B) /\ Len(seqs[k]) \in Nat
  BY <1>1
<1> DEFINE start == [k \in 1..(n + 1) |-> IF k = 1 THEN 0 ELSE Len(f[k - 1])]
           Prefix(j) ==
             /\ f[j] \in Seq(B)
             /\ \A k \in 1..j : /\ start[k] \in Nat
                                /\ start[k] + Len(seqs[k]) <= Len(f[j])
                                /\ start[k + 1] = start[k] + Len(seqs[k])
                                /\ \A i \in 1..Len(seqs[k]) : f[j][start[k] + i] = seqs[k][i]
           T == {j \in Nat : j \in 1..n => Prefix(j)}
<1>4. start[1] = 0 /\ \A k \in 1..n : start[k + 1] = Len(f[k])
  <2>1. 1 \in 1..(n + 1)
    BY <1>1
  <2>2. start[1] = 0
    BY <2>1
  <2>3. ASSUME NEW k \in 1..n PROVE start[k + 1] = Len(f[k])
    <3>1. k + 1 \in 1..(n + 1) /\ k + 1 # 1 /\ (k + 1) - 1 = k
      BY <1>1
    <3> QED BY <3>1
  <2> QED BY <2>2, <2>3
<1> HIDE DEF start
<1>5. Prefix(1)
  <2>1. 1 \in 1..n
    BY <1>1
  <2>2. f[1] \in Seq(B) /\ Len(f[1]) \in Nat
    BY <1>2, <1>3, <2>1
  <2>3. start[1 + 1] = Len(seqs[1])
    BY <1>2, <1>4, <2>1
  <2>4. \A k \in 1..1 : k = 1
    OBVIOUS
  <2>5. \A i \in 1..Len(seqs[1]) : 0 + i = i
    BY <1>3, <2>1
  <2>6. 0 + Len(seqs[1]) = Len(seqs[1]) /\ Len(seqs[1]) <= Len(seqs[1])
    BY <1>3, <2>1
  <2> QED BY <1>2, <1>4, <2>2, <2>3, <2>4, <2>5, <2>6
<1>6. ASSUME NEW j \in 1..(n - 1), Prefix(j) PROVE Prefix(j + 1)
  <2>1. j \in 1..n /\ j + 1 \in 1..n /\ j \in Nat
    BY <1>1
  <2>0. f[j + 1] = f[j] \o seqs[j + 1]
    BY <1>2
  <2>2. f[j] \in Seq(B) /\ seqs[j + 1] \in Seq(B)
    BY <1>3, <1>6, <2>1
  <2>5. PICK a, b \in Nat : a = Len(f[j]) /\ b = Len(seqs[j + 1])
    BY <2>2
  <2>3. /\ f[j + 1] \in Seq(B) /\ Len(f[j + 1]) = a + b
        /\ \A i \in 1..a : f[j + 1][i] = f[j][i]
        /\ \A i \in 1..b : f[j + 1][a + i] = seqs[j + 1][i]
    <3> DEFINE s == f[j]
               u == seqs[j + 1]
    <3>1. s \in Seq(B) /\ u \in Seq(B) /\ a = Len(s) /\ b = Len(u) /\ f[j + 1] = s \o u
      BY <2>0, <2>2, <2>5
    <3> HIDE DEF s, u
    <3>2. /\ f[j + 1] \in Seq(B) /\ Len(f[j + 1]) = a + b
          /\ \A i \in 1..a : f[j + 1][i] = s[i]
          /\ \A i \in 1..b : f[j + 1][a + i] = u[i]
      BY <3>1, Concat
    <3> QED BY <3>2 DEF s, u
  <2>4. start[j + 1] = Len(f[j]) /\ start[(j + 1) + 1] = Len(f[j + 1])
    BY <1>4, <2>1
  <2>6. ASSUME NEW k \in 1..(j + 1)
        PROVE  /\ start[k] \in Nat
               /\ start[k] + Len(seqs[k]) <= Len(f[j + 1])
               /\ start[k + 1] = start[k] + Len(seqs[k])
               /\ \A i \in 1..Len(seqs[k]) : f[j + 1][start[k] + i] = seqs[k][i]
    <3>1. CASE k = j + 1
      <4>1. start[k] = a /\ Len(seqs[k]) = b
        BY <3>1, <2>4, <2>5
      <4>2. start[k + 1] = a + b /\ Len(f[j + 1]) = a + b
        BY <3>1, <2>3, <2>4
      <4>3. \A i \in 1..b : f[j + 1][a + i] = seqs[k][i]
        BY <3>1, <2>3
      <4>4. /\ start[k] \in Nat /\ start[k] + Len(seqs[k]) <= Len(f[j + 1])
            /\ start[k + 1] = start[k] + Len(seqs[k])
        BY <2>5, <4>1, <4>2
      <4>5. \A i \in 1..Len(seqs[k]) : f[j + 1][start[k] + i] = seqs[k][i]
        BY <4>1, <4>3
      <4> QED BY <4>4, <4>5
    <3>2. CASE k # j + 1
      <4>1. k \in 1..j /\ k \in 1..n
        BY <3>2, <2>1
      <4>2. /\ start[k] \in Nat /\ start[k] + Len(seqs[k]) <= a
            /\ start[k + 1] = start[k] + Len(seqs[k])
            /\ \A i \in 1..Len(seqs[k]) : f[j][start[k] + i] = seqs[k][i]
        BY <1>6, <2>5, <4>1
      <4>3. PICK o, l \in Nat : o = start[k] /\ l = Len(seqs[k])
        BY <1>3, <4>1, <4>2
      <4>4. ASSUME NEW i \in 1..l PROVE f[j + 1][o + i] = seqs[k][i]
        <5>1. o + l <= a
          BY <4>2, <4>3
        <5>2. o + i \in 1..a
          BY <5>1
        <5> QED BY <2>3, <4>2, <4>3, <5>2
      <4>5. o + l <= a + b
        BY <4>2, <4>3
      <4> QED BY <2>3, <4>2, <4>3, <4>4, <4>5
    <3> QED BY <3>1, <3>2
  <2> QED BY <2>3, <2>6
<1>7. n \in T
  <2>1. 0 \in T
    OBVIOUS
  <2>2. \A j \in Nat : j \in T => j + 1 \in T
    <3> SUFFICES ASSUME NEW j \in Nat, j \in 1..n => Prefix(j), j + 1 \in 1..n PROVE Prefix(j + 1)
      <4> HIDE DEF Prefix
      <4> QED OBVIOUS
    <3>1. CASE j = 0
      <4>1. j + 1 = 1
        BY <3>1
      <4> HIDE DEF Prefix
      <4> QED BY <1>5, <4>1
    <3>2. CASE j # 0
      <4>1. j \in 1..n /\ j \in 1..(n - 1)
        BY <3>2, <1>1
      <4> HIDE DEF Prefix
      <4> QED BY <1>6, <4>1
    <3> QED BY <3>1, <3>2
  <2> HIDE DEF T
  <2> QED BY <2>1, <2>2, Induction
<1>8. Prefix(n)
  <2> HIDE DEF Prefix
  <2> QED BY <1>1, <1>7
<1>9. Lies(f[n], start, seqs)
  <2>1. \A k \in 1..(n + 1) : start[k] \in Nat
    <3> TAKE k \in 1..(n + 1)
    <3>1. CASE k \in 1..n
      BY <1>8, <3>1
    <3>2. CASE k = n + 1
      BY <1>1, <1>4, <1>8, <3>2
    <3> QED BY <1>1, <3>1, <3>2
  <2>2. Len(f[n]) = start[n + 1]
    BY <1>1, <1>4
  <2> QED BY <1>1, <1>4, <1>8, <2>1, <2>2 DEF Lies
<1> QED BY <1>2, <1>8, <1>9

-----------------------------------------------------------------------------
(* Where the entries of an archive lie.                                    *)

AnyByte == Streams \X {"image", "header", "list", "file", "zero"} \X Nat \X Nat

\* A part of a stream: its bytes in order.
LEMMA PartIs ==
  ASSUME NEW s, NEW part, NEW file, NEW n, s \in Streams,
         part \in {"image", "header", "list", "file", "zero"}, file \in Nat, n \in Nat
  PROVE  /\ Part(s, part, file, n) \in Seq(AnyByte) /\ Len(Part(s, part, file, n)) = n
         /\ \A i \in 1..n : Part(s, part, file, n)[i] = <<s, part, file, i - 1>>
<1>1. \A i \in 1..n : <<s, part, file, i - 1>> \in AnyByte
  BY DEF AnyByte
<1>2. [i \in 1..n |-> <<s, part, file, i - 1>>] \in Seq(AnyByte)
  BY <1>1
<1> QED BY <1>2 DEF Part

\* The next whole block.
LEMMA RoundUpIs ==
  ASSUME NEW n, n \in Nat
  PROVE  /\ RoundUp(n) \in Nat /\ n <= RoundUp(n) /\ RoundUp(n) <= n + Block - 1
         /\ \E q \in Nat : RoundUp(n) = q * Block
<1>0. Block \in Nat \ {0}
  BY BlockAssumption
<1>1. PICK a \in Nat : a = n + Block - 1
  BY <1>0
<1>2. a \div Block \in Nat /\ a % Block \in 0..(Block - 1) /\ a = (a \div Block) * Block + (a % Block)
  BY <1>0, DivMod
<1>3. PICK q \in Nat : q = a \div Block
  BY <1>2
<1>4. PICK r \in Nat : r = q * Block
  BY <1>0, Z3
<1>5. RoundUp(n) = r
  BY <1>1, <1>3, <1>4 DEF RoundUp
<1>6. n <= r /\ r <= n + Block - 1
  BY <1>0, <1>1, <1>2, <1>3, <1>4
<1> QED BY <1>4, <1>5, <1>6

\* An entry of an archive: a header, the bytes of its file, zeros up to a whole block.
IsEntry(e, s, part, file, n) ==
  /\ e \in Seq(AnyByte) /\ Len(e) = Block + RoundUp(n)
  /\ \A i \in 1..Block : e[i] = <<s, "header", file, i - 1>>
  /\ \A i \in 1..n : e[Block + i] = <<s, part, file, i - 1>>
  /\ \A i \in (n + 1)..RoundUp(n) : e[Block + i][2] = "zero"

LEMMA EntryIs ==
  ASSUME NEW s, NEW part, NEW file, NEW n, s \in Streams,
         part \in {"list", "file"}, file \in Nat, n \in Nat
  PROVE  IsEntry(Entry(s, part, file, n), s, part, file, n)
<1> DEFINE h == Part(s, "header", file, Block)
           d == Part(s, part, file, n)
           z == Part(s, "zero", file, RoundUp(n) - n)
<1>0. Block \in Nat /\ RoundUp(n) \in Nat /\ RoundUp(n) - n \in Nat
  BY RoundUpIs, BlockAssumption
<1>1. h \in Seq(AnyByte) /\ Len(h) = Block /\ \A i \in 1..Block : h[i] = <<s, "header", file, i - 1>>
  BY <1>0, PartIs
<1>2. d \in Seq(AnyByte) /\ Len(d) = n /\ \A i \in 1..n : d[i] = <<s, part, file, i - 1>>
  BY <1>0, PartIs
<1>3. /\ z \in Seq(AnyByte) /\ Len(z) = RoundUp(n) - n
      /\ \A i \in 1..(RoundUp(n) - n) : z[i] = <<s, "zero", file, i - 1>>
  BY <1>0, PartIs
<1>4. Entry(s, part, file, n) = (h \o d) \o z
  BY DEF Entry
<1> HIDE DEF h, d, z
<1> DEFINE hd == h \o d
<1>5. /\ hd \in Seq(AnyByte) /\ Len(hd) = Block + n
      /\ \A i \in 1..Block : hd[i] = h[i]
      /\ \A i \in 1..n : hd[Block + i] = d[i]
  <2>0. h \in Seq(AnyByte) /\ d \in Seq(AnyByte)
    BY <1>1, <1>2
  <2>1. /\ h \o d \in Seq(AnyByte) /\ Len(h \o d) = Len(h) + Len(d)
        /\ \A i \in 1..Len(h) : (h \o d)[i] = h[i]
        /\ \A i \in 1..Len(d) : (h \o d)[Len(h) + i] = d[i]
    BY <2>0, Concat
  <2> QED BY <1>1, <1>2, <2>1
<1> HIDE DEF hd
<1>6. /\ hd \o z \in Seq(AnyByte) /\ Len(hd \o z) = (Block + n) + (RoundUp(n) - n)
      /\ \A i \in 1..(Block + n) : (hd \o z)[i] = hd[i]
      /\ \A i \in 1..(RoundUp(n) - n) : (hd \o z)[(Block + n) + i] = z[i]
  <2>1. /\ hd \o z \in Seq(AnyByte) /\ Len(hd \o z) = Len(hd) + Len(z)
        /\ \A i \in 1..Len(hd) : (hd \o z)[i] = hd[i]
        /\ \A i \in 1..Len(z) : (hd \o z)[Len(hd) + i] = z[i]
    <3>1. hd \in Seq(AnyByte) /\ z \in Seq(AnyByte)
      BY <1>3, <1>5
    <3> QED BY <3>1, Concat
  <2> QED BY <1>3, <1>5, <2>1
<1>7. (Block + n) + (RoundUp(n) - n) = Block + RoundUp(n)
  BY <1>0
<1>8. \A i \in 1..Block : i \in 1..(Block + n)
  BY <1>0
<1>9. \A i \in 1..n : Block + i \in 1..(Block + n)
  BY <1>0
<1>10. \A i \in 1..Block : (hd \o z)[i] = <<s, "header", file, i - 1>>
  BY <1>1, <1>5, <1>6, <1>8
<1>11. \A i \in 1..n : (hd \o z)[Block + i] = <<s, part, file, i - 1>>
  BY <1>2, <1>5, <1>6, <1>9
<1>12. ASSUME NEW i \in (n + 1)..RoundUp(n) PROVE (hd \o z)[Block + i][2] = "zero"
  <2>1. i - n \in 1..(RoundUp(n) - n) /\ (Block + n) + (i - n) = Block + i
    BY <1>0
  <2>2. (hd \o z)[(Block + n) + (i - n)] = <<s, "zero", file, (i - n) - 1>>
    BY <1>3, <1>6, <2>1
  <2>3. (hd \o z)[Block + i] = <<s, "zero", file, (i - n) - 1>>
    BY <2>1, <2>2, Zenon
  <2> QED BY <2>3
<1> QED BY <1>4, <1>6, <1>7, <1>10, <1>11, <1>12 DEF hd, IsEntry

Files(s)     == Len(Contents[s].files)
SizeOf(s, k) == IF k = 0 THEN Contents[s].list ELSE Contents[s].files[k].size
KindOf(k)    == IF k = 0 THEN "list" ELSE "file"

\* at[k] is where entry k begins; at[Files(s) + 1], where the zeros behind the last.
Layout(s, at) ==
  /\ at[0] = 0 /\ Len(Bytes[s]) = at[Files(s) + 1] + 2 * Block
  /\ \A k \in 0..(Files(s) + 1) : at[k] \in Nat /\ at[k] % Block = 0
  /\ \A k \in 0..Files(s) : /\ at[k + 1] = at[k] + Block + RoundUp(SizeOf(s, k))
                              /\ at[k + 1] <= at[Files(s) + 1]
  /\ \A k \in 0..Files(s) : \A i \in 1..Block : Bytes[s][at[k] + i] = <<s, "header", k, i - 1>>
  /\ \A k \in 0..Files(s) : \A i \in 1..SizeOf(s, k) :
       Bytes[s][at[k] + Block + i] = <<s, KindOf(k), k, i - 1>>
  /\ \A k \in 0..Files(s) : \A i \in (SizeOf(s, k) + 1)..RoundUp(SizeOf(s, k)) :
       Bytes[s][at[k] + Block + i][2] = "zero"
  /\ \A i \in 1..(2 * Block) : Bytes[s][at[Files(s) + 1] + i] = <<s, "zero", 0, i - 1>>

\* The sizes in an archive are numbers.
LEMMA SizesAre ==
  ASSUME NEW s, s \in Streams
  PROVE  /\ Files(s) \in Nat /\ DOMAIN Contents[s].files = 1..Files(s)
         /\ \A k \in 0..Files(s) : SizeOf(s, k) \in Nat
  BY ContentsAssumption DEF Files, SizeOf

\* The bytes of every stream, and the layout of every archive.
LEMMA ArchiveIs ==
  ASSUME NEW s, s \in Streams, Contents[s].archive
  PROVE  Bytes[s] \in Seq(AnyByte) /\ \E at : Layout(s, at)
<1>0. Block \in Nat \ {0} /\ 2 * Block \in Nat
  BY BlockAssumption
<1>1. PICK m \in Nat : m = Files(s) /\ DOMAIN Contents[s].files = 1..m
  BY SizesAre
<1>2. \A k \in 0..m : SizeOf(s, k) \in Nat
  BY <1>1, SizesAre
<1> DEFINE list == Entry(s, "list", 0, Contents[s].list)
           entries == [k \in DOMAIN Contents[s].files |-> Entry(s, "file", k, Contents[s].files[k].size)]
           files == FlattenSeq(entries)
           zeros == Part(s, "zero", 0, 2 * Block)
<1>3. Bytes[s] = (list \o files) \o zeros
  BY DEF Bytes
<1>4. /\ list \in Seq(AnyByte) /\ Len(list) = Block + RoundUp(SizeOf(s, 0))
      /\ \A i \in 1..Block : list[i] = <<s, "header", 0, i - 1>>
      /\ \A i \in 1..SizeOf(s, 0) : list[Block + i] = <<s, "list", 0, i - 1>>
      /\ \A i \in (SizeOf(s, 0) + 1)..RoundUp(SizeOf(s, 0)) : list[Block + i][2] = "zero"
  <2>1. SizeOf(s, 0) = Contents[s].list /\ SizeOf(s, 0) \in Nat
    BY <1>2 DEF SizeOf
  <2>2. "list" \in {"list", "file"} /\ 0 \in Nat
    OBVIOUS
  <2>3. IsEntry(Entry(s, "list", 0, Contents[s].list), s, "list", 0, Contents[s].list)
    BY <2>1, <2>2, EntryIs
  <2> QED BY <2>1, <2>3 DEF IsEntry
<1>5. zeros \in Seq(AnyByte) /\ Len(zeros) = 2 * Block /\ \A i \in 1..(2 * Block) : zeros[i] = <<s, "zero", 0, i - 1>>
  BY <1>0, PartIs
<1>6. ASSUME NEW k \in 1..m
      PROVE  /\ entries[k] \in Seq(AnyByte) /\ Len(entries[k]) = Block + RoundUp(SizeOf(s, k))
             /\ \A i \in 1..Block : entries[k][i] = <<s, "header", k, i - 1>>
             /\ \A i \in 1..SizeOf(s, k) : entries[k][Block + i] = <<s, "file", k, i - 1>>
             /\ \A i \in (SizeOf(s, k) + 1)..RoundUp(SizeOf(s, k)) : entries[k][Block + i][2] = "zero"
  <2>1. entries[k] = Entry(s, "file", k, SizeOf(s, k)) /\ SizeOf(s, k) \in Nat
    BY <1>1, <1>2 DEF SizeOf
  <2>2. "file" \in {"list", "file"} /\ k \in Nat
    OBVIOUS
  <2> HIDE DEF entries
  <2>3. IsEntry(Entry(s, "file", k, SizeOf(s, k)), s, "file", k, SizeOf(s, k))
    BY <2>1, <2>2, EntryIs
  <2> QED BY <2>1, <2>3 DEF IsEntry
<1>7. entries \in Seq(Seq(AnyByte)) /\ Len(entries) = m
  BY <1>1, <1>6
<1> DEFINE Behind(start) ==
             /\ start[1] = 0 /\ Len(files) = start[m + 1]
             /\ \A k \in 1..(m + 1) : start[k] \in Nat
             /\ \A k \in 1..m : start[k + 1] = start[k] + Len(entries[k]) /\ start[k + 1] <= Len(files)
             /\ \A k \in 1..m : \A i \in 1..Len(entries[k]) : files[start[k] + i] = entries[k][i]
<1>8. files \in Seq(AnyByte) /\ \E start : Behind(start)
  <2> HIDE DEF entries
  <2>1. CASE m = 0
    <3>1. files = <<>>
      BY <1>7, <2>1 DEF FlattenSeq
    <3>2. Behind([k \in {1} |-> 0])
      BY <2>1, <3>1
    <3>3. files \in Seq(AnyByte)
      BY <3>1
    <3> HIDE DEF Behind
    <3> QED BY <3>2, <3>3
  <2>2. CASE m # 0
    <3>1. Len(entries) \in Nat \ {0} /\ \A k \in 1..Len(entries) : entries[k] \in Seq(AnyByte)
      BY <1>6, <1>7, <2>2
    <3>2. files \in Seq(AnyByte) /\ \E start : Lies(files, start, entries)
      BY <3>1, FlattenParts
    <3>3. PICK start : Lies(files, start, entries)
      BY <3>2
    <3>4. Behind(start)
      BY <3>3, <1>7 DEF Lies
    <3> HIDE DEF Behind
    <3> QED BY <3>2, <3>4
  <2> QED BY <2>1, <2>2
<1> HIDE DEF list, entries, files, zeros
<1>9. PICK start : Behind(start)
  BY <1>8
<1> DEFINE front == list \o files
           l == Len(list)
           f == Len(files)
<1>10. /\ front \in Seq(AnyByte) /\ l \in Nat /\ f \in Nat /\ Len(front) = l + f
       /\ \A i \in 1..l : front[i] = list[i]
       /\ \A i \in 1..f : front[l + i] = files[i]
  <2>1. list \in Seq(AnyByte) /\ files \in Seq(AnyByte)
    BY <1>4, <1>8
  <2> QED BY <2>1, Concat
<1>11. /\ Bytes[s] \in Seq(AnyByte) /\ Len(Bytes[s]) = (l + f) + 2 * Block
       /\ \A i \in 1..(l + f) : Bytes[s][i] = front[i]
       /\ \A i \in 1..(2 * Block) : Bytes[s][(l + f) + i] = <<s, "zero", 0, i - 1>>
  <2>1. front \in Seq(AnyByte) /\ zeros \in Seq(AnyByte) /\ Bytes[s] = front \o zeros
    BY <1>3, <1>5, <1>10
  <2> HIDE DEF front
  <2>2. /\ Bytes[s] \in Seq(AnyByte) /\ Len(Bytes[s]) = Len(front) + Len(zeros)
        /\ \A i \in 1..Len(front) : Bytes[s][i] = front[i]
        /\ \A i \in 1..Len(zeros) : Bytes[s][Len(front) + i] = zeros[i]
    BY <2>1, Concat
  <2> QED BY SMTT(30), <2>2, <1>5, <1>10
<1> HIDE DEF front, l, f
<1>18. l \in Nat /\ f \in Nat
  BY <1>10
<1> DEFINE at == [k \in 0..(m + 1) |-> IF k = 0 THEN 0 ELSE l + start[k]]
<1>12. at[0] = 0 /\ \A k \in 1..(m + 1) : at[k] = l + start[k]
  BY <1>1
<1> HIDE DEF at
<1>13. at[m + 1] = l + f /\ at[m + 1] \in Nat
  <2>1. m + 1 \in 1..(m + 1)
    OBVIOUS
  <2> QED BY <2>1, <1>9, <1>10, <1>12 DEF f
<1>14. ASSUME NEW k \in 0..m
       PROVE  at[k] \in Nat /\ at[k + 1] = at[k] + Block + RoundUp(SizeOf(s, k)) /\ at[k + 1] <= at[m + 1]
  <2>0. RoundUp(SizeOf(s, k)) \in Nat
    BY <1>2, RoundUpIs
  <2>1. CASE k = 0
    <3>1. start[1] = 0 /\ at[1] = l + start[1] /\ l = Block + RoundUp(SizeOf(s, 0))
      BY <1>4, <1>9, <1>12 DEF l
    <3> QED BY <1>0, <1>10, <1>12, <1>13, <2>0, <2>1, <3>1
  <2>2. CASE k # 0
    <3>1. k \in 1..m /\ k \in 1..(m + 1) /\ k + 1 \in 1..(m + 1)
      BY <2>2
    <3>2. PICK a, b \in Nat : a = start[k] /\ b = start[k + 1]
      BY <1>9, <3>1
    <3>3. b = a + (Block + RoundUp(SizeOf(s, k))) /\ b <= f
      BY <1>6, <1>9, <3>1, <3>2 DEF f
    <3>4. at[k] = l + a /\ at[k + 1] = l + b
      BY <1>12, <3>1, <3>2
    <3>5. PICK r \in Nat : r = RoundUp(SizeOf(s, k))
      BY <2>0
    <3>6. b = a + (Block + r) /\ b <= f
      BY <3>3, <3>5
    <3>7. l + b = ((l + a) + Block) + r /\ l + b <= l + f /\ l + a \in Nat
      BY <1>0, <1>18, <3>6
    <3> QED BY <1>13, <3>4, <3>5, <3>7
  <2> QED BY <2>1, <2>2
<1>15. ASSUME NEW k \in 0..(m + 1) PROVE at[k] \in Nat /\ at[k] % Block = 0
  <2> DEFINE T == {j \in Nat : j \in 0..(m + 1) => \E q \in Nat : at[j] = q * Block}
  <2>1. 0 \in T
    <3>1. 0 * Block = 0
      BY <1>0
    <3> QED BY <1>12, <3>1
  <2>2. ASSUME NEW j \in Nat, j \in T, j + 1 \in 0..(m + 1) PROVE \E q \in Nat : at[j + 1] = q * Block
    <3>1. j \in 0..m
      BY <2>2
    <3>2. PICK q \in Nat : at[j] = q * Block
      BY <2>2, <3>1
    <3>3. PICK r \in Nat : RoundUp(SizeOf(s, j)) = r * Block
      BY <1>2, <3>1, RoundUpIs
    <3>4. (q + 1 + r) * Block = q * Block + Block + r * Block
      BY <1>0, Z3
    <3>5. at[j + 1] = (q + 1 + r) * Block
      BY <1>14, <3>1, <3>2, <3>3, <3>4
    <3> QED BY <3>5
  <2>3. \A j \in Nat : j \in T => j + 1 \in T
    BY <2>2
  <2>4. k \in T
    <3> HIDE DEF T
    <3> QED BY <2>1, <2>3, Induction
  <2>5. PICK q \in Nat : at[k] = q * Block
    BY <2>4
  <2>6. q * Block \in Nat /\ (q * Block) % Block = 0
    BY <1>0, Z3
  <2> QED BY <2>5, <2>6
<1>16. ASSUME NEW k \in 0..m
       PROVE  /\ \A i \in 1..Block : Bytes[s][at[k] + i] = <<s, "header", k, i - 1>>
              /\ \A i \in 1..SizeOf(s, k) : Bytes[s][at[k] + Block + i] = <<s, KindOf(k), k, i - 1>>
              /\ \A i \in (SizeOf(s, k) + 1)..RoundUp(SizeOf(s, k)) :
                   Bytes[s][at[k] + Block + i][2] = "zero"
  <2> DEFINE z == SizeOf(s, k)
             e == Block + RoundUp(z)
  <2>0. z \in Nat /\ RoundUp(z) \in Nat /\ z <= RoundUp(z) /\ e \in Nat
    BY <1>0, <1>2, RoundUpIs
  <2>1. \A i \in 1..Block : i \in 1..e
    BY <1>0, <2>0
  <2>2. \A i \in 1..z : Block + i \in 1..e
    <3> HIDE DEF z
    <3> QED BY <1>0, <2>0
  <2>3. PICK a \in Nat : a = at[k]
    BY <1>14
  <2>4. \A i \in 1..z : a + Block + i = a + (Block + i)
    BY <1>0, <2>0
  <2>7. ASSUME NEW i \in (z + 1)..RoundUp(z)
        PROVE  Block + i \in 1..e /\ a + Block + i = a + (Block + i)
    <3> HIDE DEF z
    <3> QED BY <1>0, <2>0
  <2>5. CASE k = 0
    <3>1. \A i \in 1..e : i \in 1..(l + f) /\ i \in 1..l
      BY <1>4, <1>10, <2>0, <2>5 DEF l
    <3>2. \A i \in 1..e : Bytes[s][i] = list[i]
      BY <3>1, <1>10, <1>11
    <3>3. \A i \in 1..e : a + i = i
      BY <1>12, <2>3, <2>5, <2>0
    <3>4. KindOf(k) = "list"
      BY <2>5 DEF KindOf
    <3>5. \A i \in 1..Block : Bytes[s][at[k] + i] = <<s, "header", k, i - 1>>
      BY <1>4, <2>1, <2>3, <2>5, <3>2, <3>3
    <3>6. \A i \in 1..z : Bytes[s][at[k] + Block + i] = <<s, KindOf(k), k, i - 1>>
      BY SMTT(30), <1>4, <2>2, <2>3, <2>4, <2>5, <3>2, <3>3, <3>4
    <3>7. ASSUME NEW i \in (z + 1)..RoundUp(z) PROVE Bytes[s][at[k] + Block + i][2] = "zero"
      <4>1. Bytes[s][a + (Block + i)] = list[Block + i]
        BY <2>7, <3>2, <3>3
      <4>2. list[Block + i][2] = "zero"
        BY <1>4, <2>5
      <4> QED BY <2>3, <2>7, <4>1, <4>2
    <3> QED BY <3>5, <3>6, <3>7
  <2>6. CASE k # 0
    <3>1. k \in 1..m /\ k \in 1..(m + 1)
      BY <2>6
    <3>2. PICK b \in Nat : b = start[k] /\ a = l + b /\ start[k + 1] = b + e /\ b + e <= f
      <4>1. /\ start[k] \in Nat /\ start[k + 1] = start[k] + Len(entries[k])
            /\ start[k + 1] <= Len(files)
        BY <1>9, <3>1
      <4>2. Len(entries[k]) = e
        BY <1>6, <3>1
      <4>3. a = l + start[k]
        BY <1>12, <2>3, <3>1
      <4> QED BY <4>1, <4>2, <4>3 DEF f
    <3>3. ASSUME NEW i \in 1..e PROVE Bytes[s][a + i] = entries[k][i]
      <4> HIDE DEF e
      <4>1. a + i = l + (b + i) /\ b + i \in 1..f /\ l + (b + i) \in 1..(l + f)
        BY <1>18, <2>0, <3>2
      <4>2. files[b + i] = entries[k][i]
        <5>1. i \in 1..Len(entries[k])
          BY <1>6, <3>1 DEF e
        <5> QED BY <5>1, <1>9, <3>1, <3>2
      <4> QED BY <4>1, <4>2, <1>10, <1>11
    <3>4. KindOf(k) = "file"
      BY <2>6 DEF KindOf
    <3>5. \A i \in 1..Block : Bytes[s][at[k] + i] = <<s, "header", k, i - 1>>
      BY <1>6, <2>1, <2>3, <3>1, <3>3
    <3>6. \A i \in 1..z : Bytes[s][at[k] + Block + i] = <<s, KindOf(k), k, i - 1>>
      <4>1. ASSUME NEW i \in 1..z PROVE Bytes[s][a + Block + i] = <<s, "file", k, i - 1>>
        <5>1. Bytes[s][a + (Block + i)] = entries[k][Block + i]
          BY <2>2, <3>3
        <5>2. entries[k][Block + i] = <<s, "file", k, i - 1>>
          BY <1>6, <3>1
        <5> QED BY <2>4, <5>1, <5>2
      <4> QED BY <2>3, <3>4, <4>1
    <3>7. ASSUME NEW i \in (z + 1)..RoundUp(z) PROVE Bytes[s][at[k] + Block + i][2] = "zero"
      <4>1. Bytes[s][a + (Block + i)] = entries[k][Block + i]
        BY <2>7, <3>3
      <4>2. entries[k][Block + i][2] = "zero"
        BY <1>6, <3>1
      <4> QED BY <2>3, <2>7, <4>1, <4>2
    <3> QED BY <3>5, <3>6, <3>7
  <2> QED BY <2>5, <2>6
<1>17. Layout(s, at)
  <2>1. /\ \A k \in 0..m : at[k + 1] = at[k] + Block + RoundUp(SizeOf(s, k)) /\ at[k + 1] <= at[m + 1]
        /\ \A k \in 0..(m + 1) : at[k] \in Nat /\ at[k] % Block = 0
    BY <1>14, <1>15
  <2>2. /\ \A k \in 0..m : \A i \in 1..Block : Bytes[s][at[k] + i] = <<s, "header", k, i - 1>>
        /\ \A k \in 0..m : \A i \in 1..SizeOf(s, k) :
             Bytes[s][at[k] + Block + i] = <<s, KindOf(k), k, i - 1>>
        /\ \A k \in 0..m : \A i \in (SizeOf(s, k) + 1)..RoundUp(SizeOf(s, k)) :
             Bytes[s][at[k] + Block + i][2] = "zero"
    BY <1>16
  <2>3. Len(Bytes[s]) = at[m + 1] + 2 * Block
    BY <1>11, <1>13
  <2>4. \A i \in 1..(2 * Block) : Bytes[s][at[m + 1] + i] = <<s, "zero", 0, i - 1>>
    BY <1>11, <1>13
  <2> QED BY <1>1, <1>12, <2>1, <2>2, <2>3, <2>4 DEF Layout
<1> QED BY <1>11, <1>17

\* Every stream is a sequence of bytes.
LEMMA BytesAre ==
  ASSUME NEW s, s \in Streams
  PROVE  Bytes[s] \in Seq(AnyByte)
<1>1. CASE Contents[s].archive
  BY <1>1, ArchiveIs
<1>2. CASE ~Contents[s].archive
  <2>1. Bytes[s] = Part(s, "image", 0, Contents[s].size) /\ Contents[s].size \in Nat
    BY <1>2, ContentsAssumption DEF Bytes
  <2> QED BY <2>1, PartIs
<1> QED BY <1>1, <1>2

-----------------------------------------------------------------------------
(* Types                                                                   *)

Listings == {Contents[s].listed : s \in Streams} \cup {<<>>}

ContextType ==
  /\ ctxt \in [state : {"FIND_HEADER", "DATA"}, parsed : BOOLEAN, listed : Listings, num_files : Nat,
               current : Nat, size : Nat, header_offset : Nat, processed : Nat]
  /\ ctxt.current \in 0..Len(ctxt.listed)
  /\ ~ctxt.parsed => ctxt.listed = <<>>
CoalesceType ==
  /\ coalesce \in [needs : {0, Block, 2 * Block}, at : Nat, bytes : Seq(AnyByte)]
  /\ Len(coalesce.bytes) <= coalesce.needs
CallType ==
  /\ call \in [status : {"none", "parse", "stored", "failed"}, offset : Nat, block : Seq(AnyByte),
               base : Nat, consumed : Nat]
  /\ call.base + call.consumed <= Len(call.block)
PeerType ==
  /\ peer \in [stream : Streams \cup {"none"}, sent : Nat, first : Nat, clean : BOOLEAN]
  /\ total_image_size # 0 => peer.stream # "none"
DeviceType ==
  /\ state \in States
  /\ total_image_size \in Nat /\ total_bytes_written \in Nat /\ last_offset \in Nat
  /\ crc \in Nat \cup {Mixed} /\ magic \in BOOLEAN /\ events \in 0..MaxEvents
StoreType == is_tar \in BOOLEAN /\ overrun \in BOOLEAN /\ DOMAIN slots = Images
ParserType == ContextType /\ CoalesceType /\ CallType /\ StoreType
TypeInv == ParserType /\ PeerType /\ DeviceType

\* Any listing has components with sizes.
LEMMA ListingIs ==
  ASSUME NEW f, f \in Listings
  PROVE  /\ Len(f) \in Nat /\ DOMAIN f = 1..Len(f)
         /\ \A k \in 1..Len(f) : f[k].size \in Nat
  BY ContentsAssumption DEF Listings

\* What is proved inductive says at least what the runs check.
LEMMA TypeInvIs == TypeInv => TypeOK
  BY DEF TypeInv, TypeOK, UntarTypeOK, ParserType, ContextType, CoalesceType, CallType, PeerType,
         DeviceType, StoreType

\* The source of a turn of the parser: what is left of the block, or the buffer.
LEMMA SourceIs ==
  ASSUME ParserType, Parsing
  PROVE  /\ Rest \in Seq(AnyByte) /\ Len(Rest) \in Nat \ {0}
         /\ call.base + call.consumed + Len(Rest) = Len(call.block)
         /\ Source \in Seq(AnyByte) /\ SourceAt \in Nat /\ Now \in Nat
         /\ Collected => Source # <<>> /\ Len(Source) \in Nat \ {0}
<1>1. PICK l, b, c \in Nat : l = Len(call.block) /\ b = call.base /\ c = call.consumed /\ b + c <= l
  BY DEF ParserType, CallType
<1>2. call.block \in Seq(AnyByte) /\ call.offset \in Nat
  BY DEF ParserType, CallType
<1>3. Rest = SubSeq(call.block, b + c + 1, l)
  BY <1>1 DEF Rest, From
<1>4. Rest \in Seq(AnyByte) /\ Len(Rest) = (IF b + c + 1 <= l THEN l - (b + c) ELSE 0)
  <2>1. \A i \in (b + c + 1)..l : call.block[i] \in AnyByte
    BY <1>1, <1>2
  <2>2. b + c + 1 \in Int /\ l \in Int
    BY <1>1
  <2>3. /\ Rest \in Seq(AnyByte)
        /\ Len(Rest) = IF b + c + 1 <= l THEN l - (b + c + 1) + 1 ELSE 0
    BY <1>3, <2>1, <2>2, SubSeqProperties
  <2> QED BY <1>1, <2>3
<1>5. Rest # <<>>
  BY DEF Parsing
<1>6. Len(Rest) \in Nat \ {0}
  BY <1>4, <1>5
<1>7. b + c + Len(Rest) = l
  BY SMTT(30), <1>1, <1>4, <1>6
<1>8. Now \in Nat
  BY <1>1, <1>2 DEF Now
<1>9. coalesce.bytes \in Seq(AnyByte) /\ coalesce.at \in Nat /\ coalesce.needs \in Nat
  BY BlockAssumption DEF ParserType, CoalesceType
<1>10. Source \in Seq(AnyByte) /\ SourceAt \in Nat
  BY <1>4, <1>8, <1>9 DEF Source, SourceAt
<1>11. ASSUME Collected PROVE Source # <<>> /\ Len(Source) \in Nat \ {0}
  <2>1. CASE UsesCoalesce
    <3>1. Source = coalesce.bytes /\ Len(coalesce.bytes) >= coalesce.needs /\ coalesce.needs > 0
      BY <1>11, <2>1 DEF Source, UsesCoalesce, Collected
    <3> QED BY <1>9, <3>1
  <2>2. CASE ~UsesCoalesce
    BY <2>2, <1>5, <1>6 DEF Source
  <2> QED BY <2>1, <2>2
<1> QED BY <1>1, <1>4, <1>6, <1>7, <1>8, <1>10, <1>11

\* What is consumed is there.
LEMMA ConsumeTypes ==
  ASSUME NEW n, ParserType, Parsing, n \in Nat, n <= Len(Source), Consume(n)
  PROVE  CoalesceType' /\ CallType'
<1>1. CASE UsesCoalesce
  <2>1. call' = call
    BY <1>1 DEF Consume
  <2>2. CallType'
    BY <2>1 DEF ParserType, CallType
  <2>3. CASE n # 0 /\ n < Len(coalesce.bytes)
    <3>1. coalesce' = [coalesce EXCEPT !.bytes = From(@, n + 1), !.at = @ + n]
      BY <1>1, <2>3 DEF Consume
    <3>2. PICK l \in Nat : l = Len(coalesce.bytes)
      BY DEF ParserType, CoalesceType
    <3>3. \A i \in (n + 1)..l : coalesce.bytes[i] \in AnyByte
      BY <3>2 DEF ParserType, CoalesceType
    <3>4. /\ From(coalesce.bytes, n + 1) \in Seq(AnyByte)
          /\ Len(From(coalesce.bytes, n + 1)) = l - n
      BY <2>3, <3>2, <3>3, SubSeqProperties DEF From
    <3>5. coalesce'.bytes = From(coalesce.bytes, n + 1)
      BY <3>1 DEF ParserType, CoalesceType
    <3>8. coalesce.at + n \in Nat
      BY DEF ParserType, CoalesceType
    <3>6. coalesce' \in [needs : {0, Block, 2 * Block}, at : Nat, bytes : Seq(AnyByte)]
          /\ coalesce'.needs = coalesce.needs
      BY <3>1, <3>4, <3>8 DEF ParserType, CoalesceType
    <3>7. Len(coalesce'.bytes) <= coalesce'.needs
      <4>1. coalesce.needs \in Nat /\ l <= coalesce.needs
        BY <3>2, BlockAssumption DEF ParserType, CoalesceType
      <4> QED BY <4>1, <3>2, <3>4, <3>5, <3>6
    <3> QED BY <2>2, <3>6, <3>7 DEF CoalesceType
  <2>4. CASE ~(n # 0 /\ n < Len(coalesce.bytes))
    <3>1. coalesce' = NoCoalesce
      BY <1>1, <2>4 DEF Consume
    <3>2. CoalesceType'
      BY <3>1 DEF CoalesceType, NoCoalesce
    <3> QED BY <2>2, <3>2
  <2> QED BY <2>3, <2>4
<1>2. CASE ~UsesCoalesce
  <2>1. call' = [call EXCEPT !.consumed = @ + n] /\ coalesce' = coalesce
    BY <1>2 DEF Consume
  <2>2. Source = Rest
    BY <1>2 DEF Source
  <2>3. call.base + call.consumed + Len(Rest) = Len(call.block) /\ Len(Rest) \in Nat
    BY SourceIs
  <2>4. CallType'
    <3>1. PICK b, c, l, r \in Nat : b = call.base /\ c = call.consumed /\ l = Len(call.block) /\ r = Len(Rest)
      BY <2>3 DEF ParserType, CallType
    <3>2. b + (c + n) <= l
      BY SMTT(30), <2>2, <2>3, <3>1
    <3>3. /\ call' \in [status : {"none", "parse", "stored", "failed"}, offset : Nat,
                        block : Seq(AnyByte), base : Nat, consumed : Nat]
          /\ call'.base = b /\ call'.consumed = c + n /\ call'.block = call.block
      BY <2>1, <3>1 DEF ParserType, CallType
    <3> QED BY <3>1, <3>2, <3>3 DEF CallType
  <2> QED BY <2>1, <2>4 DEF ParserType, CoalesceType
<1> QED BY <1>1, <1>2

\* Each turn of the parser keeps the types of what it works with.
LEMMA CollectTypes ==
  ASSUME ParserType, Collect PROVE CoalesceType' /\ CallType'
<1>1. PICK r, l, k \in Nat : r = Len(Rest) /\ l = Len(coalesce.bytes) /\ k = coalesce.needs
  <2>1. Len(Rest) \in Nat
    BY SourceIs DEF Collect
  <2>2. Len(coalesce.bytes) \in Nat /\ coalesce.needs \in Nat
    BY BlockAssumption DEF ParserType, CoalesceType
  <2> QED BY <2>1, <2>2
<1>2. l < k /\ r # 0
  BY <1>1, SourceIs DEF Collect, Collected
<1> DEFINE n == Least(coalesce.needs - Len(coalesce.bytes), Len(Rest))
<1>3. /\ coalesce' = [coalesce EXCEPT !.bytes = @ \o SubSeq(Rest, 1, n),
                                      !.at = IF coalesce.bytes = <<>> THEN Now ELSE @]
      /\ call' = [call EXCEPT !.consumed = @ + n]
  BY DEF Collect
<1>4. n \in Nat /\ n <= r /\ l + n <= k
  BY <1>1, <1>2 DEF Least
<1> HIDE DEF n
<1> DEFINE add == SubSeq(Rest, 1, n)
<1>5. add \in Seq(AnyByte) /\ Len(add) = n
  <2>1. Rest \in Seq(AnyByte)
    BY SourceIs DEF Collect
  <2>2. \A i \in 1..n : Rest[i] \in AnyByte
    BY <1>1, <1>4, <2>1
  <2>3. add \in Seq(AnyByte) /\ Len(add) = IF 1 <= n THEN n - 1 + 1 ELSE 0
    BY <1>4, <2>2, SubSeqProperties
  <2> HIDE DEF add
  <2> QED BY <1>4, <2>3
<1>6. coalesce.bytes \in Seq(AnyByte) /\ coalesce.at \in Nat /\ coalesce.needs \in {0, Block, 2 * Block}
  BY DEF ParserType, CoalesceType
<1>7. coalesce.bytes \o add \in Seq(AnyByte) /\ Len(coalesce.bytes \o add) = l + n
  <2> HIDE DEF add
  <2>1. add \in Seq(AnyByte) /\ coalesce.bytes \in Seq(AnyByte)
    BY <1>5, <1>6
  <2>2. /\ coalesce.bytes \o add \in Seq(AnyByte)
        /\ Len(coalesce.bytes \o add) = Len(coalesce.bytes) + Len(add)
    BY <2>1, Concat
  <2> QED BY <1>1, <1>5, <2>2
<1>8. Now \in Nat
  BY SourceIs DEF Collect
<1>9. /\ coalesce'.bytes = coalesce.bytes \o add /\ coalesce'.needs = coalesce.needs
      /\ coalesce' \in [needs : {0, Block, 2 * Block}, at : Nat, bytes : Seq(AnyByte)]
  <2> HIDE DEF add
  <2>1. coalesce' = [coalesce EXCEPT !.bytes = @ \o add, !.at = IF coalesce.bytes = <<>> THEN Now ELSE @]
    BY <1>3 DEF add
  <2> QED BY <2>1, <1>7, <1>8 DEF ParserType, CoalesceType
<1>10. CoalesceType'
  <2>1. Len(coalesce'.bytes) <= coalesce'.needs
    BY <1>1, <1>4, <1>7, <1>9
  <2> QED BY <1>9, <2>1 DEF CoalesceType
<1>11. CallType'
  <2>1. PICK b, c, t \in Nat : b = call.base /\ c = call.consumed /\ t = Len(call.block) /\ b + c + r = t
    BY <1>1, SourceIs DEF Collect, ParserType, CallType
  <2>2. b + (c + n) <= t /\ c + n \in Nat
    <3>1. (b + c) + r = t
      BY <2>1
    <3>2. n \in Nat /\ n <= r
      BY <1>4
    <3> QED BY <3>1, <3>2
  <2>3. /\ call' \in [status : {"none", "parse", "stored", "failed"}, offset : Nat,
                      block : Seq(AnyByte), base : Nat, consumed : Nat]
        /\ call'.base = b /\ call'.consumed = c + n /\ call'.block = call.block
    BY <1>3, <2>1, <2>2 DEF ParserType, CallType
  <2> QED BY <2>1, <2>2, <2>3 DEF CallType
<1> QED BY <1>10, <1>11

\* The padding that is skipped is less than a block.
PaddingAt(at) == Block - (at % Block)

\* How far the next whole block is.
LEMMA PaddingIs ==
  ASSUME NEW at, at \in Nat
  PROVE  PaddingAt(at) \in 1..Block
<1>1. Block \in Nat \ {0}
  BY BlockAssumption
<1>2. PICK r \in 0..(Block - 1) : r = at % Block
  BY <1>1, DivMod
<1> QED BY <1>1, <1>2 DEF PaddingAt

\* What is taken of a file is there.
LEMMA FileBytesIs ==
  ASSUME ParserType, Parsing
  PROVE  FileOffset \in Nat /\ FileBytes \in Nat /\ FileBytes <= Len(Source)
<1>1. Word \in Nat \ {0} /\ Block \in Nat
  BY BlockAssumption
<1>2. SourceAt \in Nat /\ ctxt.header_offset \in Nat /\ ctxt.size \in Nat
  BY SourceIs DEF ParserType, ContextType
<1>3. FileOffset \in Nat
  <2>1. PICK d \in Int : d = SourceAt - (ctxt.header_offset + Block)
    BY <1>1, <1>2
  <2>2. d % Word \in Nat
    BY <1>1
  <2> QED BY <2>1, <2>2 DEF FileOffset
<1>4. PICK left \in Nat : left = (ctxt.size - FileOffset) % Word
  <2>1. PICK d \in Int : d = ctxt.size - FileOffset
    BY <1>2, <1>3
  <2>2. d % Word \in Nat
    BY <1>1
  <2> QED BY <2>1, <2>2
<1>5. Len(Source) \in Nat
  BY SourceIs
<1> QED BY <1>3, <1>4, <1>5 DEF FileBytes, Least

\* The header that a block starts with opens an entry of the size it names.
LEMMA EnterTypes ==
  ASSUME NEW index, NEW size, ParserType, Parsing, Enter(index, size),
         index \in 0..Len(ctxt.listed), size \in Nat
  PROVE  ContextType'
<1>1. SourceAt \in Nat
  BY SourceIs
<1>2. ctxt.num_files + 1 \in Nat /\ index \in Nat
  BY ListingIs DEF ParserType, ContextType
<1>3. ctxt' = [ctxt EXCEPT !.state = "DATA", !.num_files = @ + 1, !.current = index, !.size = size,
                           !.header_offset = SourceAt, !.processed = 0]
  BY DEF Enter
<1>4. /\ ctxt' \in [state : {"FIND_HEADER", "DATA"}, parsed : BOOLEAN, listed : Listings, num_files : Nat,
                    current : Nat, size : Nat, header_offset : Nat, processed : Nat]
      /\ ctxt'.current = index /\ ctxt'.listed = ctxt.listed /\ ctxt'.parsed = ctxt.parsed
  BY <1>1, <1>2, <1>3 DEF ParserType, ContextType
<1> QED BY <1>4 DEF ParserType, ContextType

\* A piece of a file is counted.
LEMMA ProcessedTypes ==
  ASSUME NEW n, ParserType, Processed(n), n \in Nat
  PROVE  ContextType'
<1>1. ctxt.processed + n \in Nat
  BY DEF ParserType, ContextType
<1>2. PICK st \in {"FIND_HEADER", "DATA"} :
        ctxt' = [ctxt EXCEPT !.processed = @ + n, !.state = st]
  <2>1. ctxt.state \in {"FIND_HEADER", "DATA"}
    BY DEF ParserType, ContextType
  <2> QED BY <2>1 DEF Processed
<1>3. /\ ctxt' \in [state : {"FIND_HEADER", "DATA"}, parsed : BOOLEAN, listed : Listings, num_files : Nat,
                    current : Nat, size : Nat, header_offset : Nat, processed : Nat]
      /\ ctxt'.current = ctxt.current /\ ctxt'.listed = ctxt.listed /\ ctxt'.parsed = ctxt.parsed
  BY <1>1, <1>2 DEF ParserType, ContextType
<1> QED BY <1>3 DEF ParserType, ContextType

\* The size of a list is rounded up to one block or two, as the buffer has them.
LEMMA AskForListTypes ==
  ASSUME ParserType, AskForList PROVE CoalesceType'
<1>1. PICK z, l \in Nat : z = ctxt.size /\ l = Len(Source) /\ l < z
  <2>1. Len(Source) \in Nat /\ ctxt.size \in Nat
    BY SourceIs DEF AskForList, AtList, Ready, ParserType, ContextType
  <2> QED BY <2>1 DEF AskForList
<1>2. Block \in Nat \ {0}
  BY BlockAssumption
<1>3. PICK r, q \in Nat : r = RoundUp(z) /\ z <= r /\ r = q * Block
  BY RoundUpIs
<1>4. r <= 2 * Block
  BY <1>1, <1>3 DEF AskForList
<1>5. r \in {Block, 2 * Block}
  <2>1. r # 0
    BY <1>1, <1>3
  <2>2. q \in 0..2
    <3>1. q >= 3 => q * Block >= 3 * Block
      BY <1>2, Z3
    <3> QED BY <1>2, <1>3, <1>4, <3>1
  <2>3. q = 0 => r = 0
    BY <1>2, <1>3
  <2>4. q = 1 => r = Block
    BY <1>2, <1>3
  <2>5. q = 2 => r = 2 * Block
    BY <1>3
  <2> QED BY <2>1, <2>2, <2>3, <2>4, <2>5
<1>6. Len(coalesce.bytes) <= r
  <2>1. CASE UsesCoalesce
    BY <2>1, <1>1, <1>3 DEF Source
  <2>2. CASE ~UsesCoalesce
    BY <2>2, <1>2, <1>3, BlockAssumption DEF UsesCoalesce, ParserType, CoalesceType
  <2> QED BY <2>1, <2>2
<1>7. coalesce' = [coalesce EXCEPT !.needs = r]
  BY <1>1, <1>3 DEF AskForList
<1> QED BY <1>5, <1>6, <1>7 DEF ParserType, CoalesceType

\* The buffer may be told to collect a block.
LEMMA AskForBlockTypes ==
  ASSUME ParserType, AskForBlock PROVE CoalesceType'
<1>1. Len(coalesce.bytes) <= Block
  <2>1. CASE UsesCoalesce
    <3>1. Len(coalesce.bytes) \in Nat /\ Len(coalesce.bytes) < Block
      BY <2>1 DEF Source, AskForBlock, ParserType, CoalesceType
    <3> QED BY <3>1, BlockAssumption
  <2>2. CASE ~UsesCoalesce
    BY <2>2, BlockAssumption DEF UsesCoalesce, ParserType, CoalesceType
  <2> QED BY <2>1, <2>2
<1>2. coalesce' = [coalesce EXCEPT !.needs = Block]
  BY DEF AskForBlock
<1> QED BY <1>1, <1>2 DEF ParserType, CoalesceType

\* Where the parser goes on after it returned, it is still in the block.
LEMMA BaseTypes ==
  ASSUME ParserType, call' = [call EXCEPT !.base = call.consumed, !.consumed = 0]
  PROVE  CallType'
<1>1. PICK b, c, t \in Nat : b = call.base /\ c = call.consumed /\ t = Len(call.block) /\ b + c <= t
  BY DEF ParserType, CallType
<1>2. c + 0 <= t
  BY <1>1
<1>3. /\ call' \in [status : {"none", "parse", "stored", "failed"}, offset : Nat,
                    block : Seq(AnyByte), base : Nat, consumed : Nat]
      /\ call'.base = c /\ call'.consumed = 0 /\ call'.block = call.block
  BY <1>1 DEF ParserType, CallType
<1> QED BY <1>1, <1>2, <1>3 DEF CallType

\* The first byte of the source is of some stream.
LEMMA FirstIs ==
  ASSUME ParserType, Parsing, Collected
  PROVE  /\ Source[1][1] \in Streams
         /\ Contents[Source[1][1]].list \in Nat /\ Contents[Source[1][1]].listed \in Listings
<1>1. Source \in Seq(AnyByte) /\ Len(Source) \in Nat \ {0}
  BY SourceIs
<1>2. Source[1] \in AnyByte
  BY <1>1
<1>3. Source[1][1] \in Streams
  BY <1>2 DEF AnyByte
<1> QED BY <1>3, ContentsAssumption DEF Listings

\* Every turn of the parser keeps the types.
LEMMA ParserTypes ==
  ASSUME ParserType, Shapes, Parse PROVE ParserType'
<1>0. ContextType /\ CoalesceType /\ CallType
  BY DEF ParserType
<1>19. StoreType'
  BY ParseIs DEF ParseLeaves, StoreType, Shapes
<1> SUFFICES ContextType' /\ CoalesceType' /\ CallType'
  BY <1>19 DEF ParserType
<1>1. UNCHANGED ctxt => ContextType'
  BY <1>0 DEF ContextType
<1>2. UNCHANGED coalesce => CoalesceType'
  BY <1>0 DEF CoalesceType
<1>3. UNCHANGED call => CallType'
  BY <1>0 DEF CallType
<1>4. Fail => CallType'
  BY <1>0 DEF CallType, Fail
<1>5. CASE Collect
  BY <1>1, <1>5, CollectTypes DEF Collect
<1>6. CASE AskForBlock
  BY <1>1, <1>3, <1>6, AskForBlockTypes DEF AskForBlock
<1>7. CASE AskForList
  BY <1>1, <1>3, <1>7, AskForListTypes DEF AskForList
<1>8. CASE SkipPadding
  <2>1. Parsing /\ UNCHANGED ctxt
    BY <1>8 DEF SkipPadding, Ready
  <2>2. PICK n \in 1..Block : n = Block - (SourceAt % Block)
    BY <2>1, SourceIs, PaddingIs DEF PaddingAt
  <2>3. Len(Source) \in Nat /\ Len(Source) >= Block /\ Block \in Nat
    BY <1>8, <2>1, SourceIs, BlockAssumption DEF SkipPadding
  <2>4. \E m \in Nat : m <= Len(Source) /\ Consume(m)
    <3>1. Consume(IF UsesCoalesce THEN Least(n, Len(Source)) ELSE n)
      BY <1>8, <2>2 DEF SkipPadding
    <3>2. Least(n, Len(Source)) = n
      BY <2>2, <2>3 DEF Least
    <3> QED BY <2>2, <2>3, <3>1, <3>2
  <2> QED BY <1>1, <2>1, <2>4, ConsumeTypes
<1>9. ASSUME AtHeader, Consume(Block) PROVE CoalesceType' /\ CallType'
  <2>1. Parsing /\ Block \in Nat /\ Block <= Len(Source)
    BY <1>9, SourceIs, BlockAssumption DEF AtHeader, Ready
  <2> QED BY <1>9, <2>1, ConsumeTypes
<1>10. CASE SkipZeros
  BY <1>1, <1>9, <1>10 DEF SkipZeros
<1>11. CASE ListHeader
  <2>1. Parsing /\ Collected /\ AtHeader /\ Consume(Block)
    BY <1>11 DEF ListHeader, AtHeader, Ready
  <2>2. Enter(0, Contents[Source[1][1]].list)
    BY <1>11 DEF ListHeader
  <2>3. 0 \in 0..Len(ctxt.listed)
    BY <1>0, ListingIs DEF ContextType
  <2>4. ContextType'
    BY <2>1, <2>2, <2>3, FirstIs, EnterTypes
  <2> QED BY <1>9, <2>1, <2>4
<1>12. CASE FileHeader
  <2>1. Parsing /\ AtHeader /\ Consume(Block)
    BY <1>12 DEF FileHeader, AtHeader, Ready
  <2>2. PICK j \in DOMAIN ctxt.listed : Enter(j, ctxt.listed[j].size)
    BY <1>12 DEF FileHeader, Listed
  <2>3. j \in 0..Len(ctxt.listed) /\ ctxt.listed[j].size \in Nat
    BY <1>0, <2>2, ListingIs DEF ContextType
  <2>4. ContextType'
    BY <2>1, <2>2, <2>3, EnterTypes
  <2> QED BY <1>9, <2>1, <2>4
<1>13. CASE HeaderFails \/ ListTooLarge
  BY <1>1, <1>2, <1>4, <1>13 DEF HeaderFails, ListTooLarge, parser
<1>14. CASE ListParsed
  <2>1. Parsing /\ Collected /\ Consume(ctxt.size) /\ ctxt.size <= Len(Source) /\ ctxt.size \in Nat
    BY <1>0, <1>14, SourceIs DEF ListParsed, AtList, Ready, ContextType
  <2>2. CoalesceType' /\ CallType'
    BY <2>1, ConsumeTypes
  <2>3. ctxt.listed = <<>> /\ ctxt.current = 0
    <3>1. ~ctxt.parsed
      BY <1>14 DEF ListParsed, AtList
    <3> QED BY <1>0, <3>1 DEF ContextType
  <2>4. ctxt' = [ctxt EXCEPT !.parsed = TRUE, !.state = "FIND_HEADER", !.listed = Contents[Source[1][1]].listed]
    BY <1>14 DEF ListParsed
  <2>5. /\ ctxt' \in [state : {"FIND_HEADER", "DATA"}, parsed : BOOLEAN, listed : Listings, num_files : Nat,
                      current : Nat, size : Nat, header_offset : Nat, processed : Nat]
        /\ ctxt'.current = 0 /\ ctxt'.listed \in Listings /\ ctxt'.parsed = TRUE
    BY <1>0, <2>1, <2>3, <2>4, FirstIs DEF ContextType
  <2>6. 0 \in 0..Len(ctxt'.listed)
    BY <2>5, ListingIs
  <2> QED BY <2>2, <2>5, <2>6 DEF ContextType
<1>15. CASE ListFails \/ ParseReturns
  <2>1. UNCHANGED <<ctxt, coalesce>>
    BY <1>15 DEF ListFails, ParseReturns, parser
  <2>2. CASE call' = [call EXCEPT !.base = call.consumed, !.consumed = 0]
    BY <1>1, <1>2, <2>1, <2>2, BaseTypes
  <2>3. CASE call' = [call EXCEPT !.status = "stored"]
    BY <1>0, <1>1, <1>2, <2>1, <2>3 DEF CallType
  <2> QED BY <1>15, <2>2, <2>3 DEF ListFails, ParseReturns
<1>16. CASE FileWritten
  <2>1. Parsing /\ Processed(FileBytes) /\ Consume(FileBytes)
    BY <1>16 DEF FileWritten, AtFile, Ready
  <2> QED BY <2>1, FileBytesIs, ProcessedTypes, ConsumeTypes
<1>17. CASE FileNothing
  <2>1. Parsing /\ Processed(0) /\ Consume(0) /\ 0 <= Len(Source)
    BY <1>17, SourceIs DEF FileNothing, AtFile, Ready
  <2> QED BY <2>1, ProcessedTypes, ConsumeTypes
<1>18. CASE FileFails
  BY <1>1, <1>2, <1>4, <1>18 DEF FileFails, parser
<1> QED BY <1>5, <1>6, <1>7, <1>8, <1>10, <1>11, <1>12, <1>13, <1>14, <1>15, <1>16, <1>17, <1>18 DEF Parse

\* They hold before the first command.
LEMMA TypeInit == Init => TypeInv
<1> SUFFICES ASSUME Init PROVE TypeInv
  OBVIOUS
<1>0. Block \in Nat
  BY BlockAssumption
<1>1. ContextType
  <2>1. Len(<<>>) = 0 /\ <<>> \in Listings
    BY DEF Listings
  <2> QED BY <2>1 DEF Init, UntarInit, NewContext, ContextType
<1>2. CoalesceType /\ CallType
  BY <1>0 DEF Init, UntarInit, NoCoalesce, NoCall, CoalesceType, CallType
<1>3. StoreType /\ PeerType
  BY DEF Init, UntarInit, StoreType, PeerType, NoTransfer
<1>4. DeviceType
  <2>1. 0 \in 0..MaxEvents
    BY PiecesAssumption
  <2> QED BY <2>1 DEF Init, DeviceType, States, Mixed
<1> QED BY <1>1, <1>2, <1>3, <1>4 DEF TypeInv, ParserType

\* A block of the peer begins a call.
LEMMA StartedTypes ==
  ASSUME NEW offset, NEW block, NEW status, offset \in Nat, block \in Seq(AnyByte),
         status \in {"none", "parse", "stored", "failed"}, call' = Started(offset, block, status)
  PROVE  CallType'
<1>1. Len(block) \in Nat /\ 0 + 0 <= Len(block)
  OBVIOUS
<1>2. /\ call' \in [status : {"none", "parse", "stored", "failed"}, offset : Nat, block : Seq(AnyByte),
                    base : Nat, consumed : Nat]
      /\ call'.base = 0 /\ call'.consumed = 0 /\ call'.block = block
  BY DEF Started
<1> QED BY <1>1, <1>2 DEF CallType

\* A command with bytes keeps the types.
LEMMA WriteTypes ==
  ASSUME TypeInv, Shapes', NEW n \in 1..SlotSize, Write(n) PROVE TypeInv'
<1>0. /\ ContextType /\ CoalesceType /\ CallType /\ PeerType /\ DeviceType
  BY DEF TypeInv, ParserType
<1>1. Piece(n) \in Seq(AnyByte)
  <2>1. peer.stream \in Streams /\ peer.sent \in Nat /\ n \in Nat
    BY <1>0, BlockAssumption DEF Write, Sending, PeerType
  <2>2. Bytes[peer.stream] \in Seq(AnyByte)
    BY <2>1, BytesAre
  <2>3. PICK l \in Nat : l = Len(Bytes[peer.stream])
    BY <2>2
  <2>4. peer.sent + n <= l
    BY <2>1, <2>3 DEF Write, Sending, Unsent
  <2>5. \A i \in (peer.sent + 1)..(peer.sent + n) : Bytes[peer.stream][i] \in AnyByte
    BY <2>1, <2>2, <2>3, <2>4
  <2> QED BY <2>1, <2>5, SubSeqProperties DEF Piece
<1>2. last_offset \in Nat
  BY <1>0 DEF DeviceType
<1>3. ContextType' /\ CoalesceType' /\ CallType'
  <2>1. CASE ArchiveBlock(last_offset, Piece(n))
    <3>1. CallType'
      BY <1>1, <1>2, <2>1, StartedTypes DEF ArchiveBlock
    <3>2. ctxt' \in {ctxt, NewContext} /\ coalesce' \in {coalesce, NoCoalesce}
      BY <2>1 DEF ArchiveBlock
    <3>3. ContextType'
      <4>1. ctxt' = ctxt => ContextType'
        BY <1>0 DEF ContextType
      <4>2. Len(<<>>) = 0 /\ <<>> \in Listings
        BY DEF Listings
      <4>3. ctxt' = NewContext => ContextType'
        BY <4>2 DEF ContextType, NewContext
      <4> QED BY <3>2, <4>1, <4>3
    <3>4. CoalesceType'
      <4>1. coalesce' = coalesce => CoalesceType'
        BY <1>0 DEF CoalesceType
      <4>2. coalesce' = NoCoalesce => CoalesceType'
        BY DEF CoalesceType, NoCoalesce
      <4> QED BY <3>2, <4>1, <4>2
    <3> QED BY <3>1, <3>3, <3>4
  <2>2. CASE ImageBlock(last_offset, Piece(n))
    <3>1. UNCHANGED <<ctxt, coalesce>>
      BY <2>2 DEF ImageBlock, parser
    <3>2. PICK status \in {"stored", "failed"} : call' = Started(last_offset, Piece(n), status)
      BY <2>2 DEF ImageBlock
    <3>3. CallType'
      BY <1>1, <1>2, <3>2, StartedTypes
    <3> QED BY <1>0, <3>1, <3>3 DEF ContextType, CoalesceType
  <2> QED BY <2>1, <2>2 DEF Write
<1>4. StoreType'
  BY DEF Shapes, StoreType
<1>5. PeerType'
  <2>1. n \in Nat /\ peer'.clean \in BOOLEAN /\ total_image_size' = total_image_size
    BY BlockAssumption DEF Shapes, Write
  <2>2. CASE peer.first = 0
    <3>1. peer' = [peer EXCEPT !.first = n, !.clean = peer'.clean]
      BY <1>0, <2>2 DEF Write, PeerType
    <3> QED BY <1>0, <2>1, <3>1 DEF PeerType
  <2>3. CASE peer.first # 0
    BY <1>0, <2>1, <2>3 DEF Write, PeerType
  <2> QED BY <2>2, <2>3
<1>6. DeviceType'
  BY <1>0 DEF Write, DeviceType, States
<1> QED BY <1>3, <1>4, <1>5, <1>6 DEF TypeInv, ParserType

\* So does what follows once they are stored.
LEMMA DoneTypes ==
  ASSUME TypeInv, WriteDone PROVE TypeInv'
<1>0. /\ ContextType /\ CoalesceType /\ CallType /\ PeerType /\ DeviceType /\ StoreType
  BY DEF TypeInv, ParserType
<1>1. PICK n \in Nat : n = Len(call.block)
  BY <1>0 DEF CallType
<1>2. CallType'
  BY DEF WriteDone, CallType, NoCall
<1>3. ContextType' /\ CoalesceType' /\ StoreType'
  BY <1>0 DEF WriteDone, parser, store, ContextType, CoalesceType, StoreType
<1>4. PeerType'
  <2>1. peer' = [peer EXCEPT !.sent = @ + n] /\ total_image_size' = total_image_size
    BY <1>1 DEF WriteDone
  <2>2. peer.sent + n \in Nat
    BY <1>0 DEF PeerType
  <2> QED BY <1>0, <2>1, <2>2 DEF PeerType
<1>5. DeviceType'
  <2>1. total_bytes_written + n \in Nat /\ last_offset + n \in Nat
    BY <1>0 DEF DeviceType
  <2>2. crc' \in Nat \cup {Mixed}
    <3>1. CASE Continues(call.block)
      <4>1. crc \in Nat /\ n \in Nat
        BY <1>0, <1>1, <3>1 DEF Continues, DeviceType
      <4>2. crc + n \in Nat
        BY <4>1
      <4> QED BY <1>1, <3>1, <4>2 DEF WriteDone
    <3>2. CASE ~Continues(call.block)
      BY <3>2 DEF WriteDone
    <3> QED BY <3>1, <3>2
  <2>3. /\ total_bytes_written' \in Nat /\ last_offset' \in Nat /\ state' \in States
        /\ UNCHANGED <<total_image_size, magic, events>>
    BY <1>1, <2>1 DEF WriteDone, States
  <2> QED BY <1>0, <2>2, <2>3 DEF DeviceType
<1> QED BY <1>2, <1>3, <1>4, <1>5 DEF TypeInv, ParserType

\* So do the commands that carry no bytes.
LEMMA CommandTypes ==
  ASSUME TypeInv,
         \/ \E s \in Streams, told \in BOOLEAN : Prepare(s, told)
         \/ \E told \in BOOLEAN : Start(told) \/ Verify(told)
         \/ \E n \in 1..SlotSize : PieceLost(n)
         \/ WriteFailed \/ Abort \/ UNCHANGED vars
  PROVE  TypeInv'
<1>0. /\ ContextType /\ CoalesceType /\ CallType /\ PeerType /\ DeviceType /\ StoreType
  BY DEF TypeInv, ParserType
<1>1. /\ UNCHANGED parser => ContextType' /\ CoalesceType'
      /\ UNCHANGED call => CallType'
      /\ UNCHANGED <<is_tar, store>> => StoreType'
  BY <1>0 DEF parser, store, ContextType, CoalesceType, CallType, StoreType
<1>2. /\ UNCHANGED <<peer, total_image_size>> => PeerType'
      /\ UNCHANGED <<device, events>> => DeviceType'
  BY <1>0 DEF PeerType, device, DeviceType
<1>3. Event => events' \in 0..MaxEvents
  BY <1>0, PiecesAssumption DEF Event, DeviceType
<1> SUFFICES /\ ContextType' /\ CoalesceType' /\ CallType' /\ PeerType' /\ DeviceType' /\ StoreType'
  BY DEF TypeInv, ParserType
<1>4. ASSUME NEW s \in Streams, NEW told \in BOOLEAN, Prepare(s, told)
      PROVE  /\ ContextType' /\ CoalesceType' /\ CallType' /\ PeerType' /\ DeviceType' /\ StoreType'
  <2>1. PeerType'
    BY <1>4 DEF Prepare, PeerType, NoTransfer
  <2>2. DeviceType'
    BY <1>0, <1>3, <1>4 DEF Prepare, DeviceType, States
  <2>3. StoreType'
    BY <1>0, <1>4 DEF Prepare, StoreType
  <2> QED BY <1>1, <1>4, <2>1, <2>2, <2>3 DEF Prepare
<1>5. ASSUME NEW told \in BOOLEAN, Start(told)
      PROVE  /\ ContextType' /\ CoalesceType' /\ CallType' /\ PeerType' /\ DeviceType' /\ StoreType'
  <2>1. peer.stream \in Streams
    BY <1>0, <1>5 DEF Start, PeerType
  <2>2. Len(Bytes[peer.stream]) \in Nat
    BY <2>1, BytesAre
  <2>3. peer' = [peer EXCEPT !.sent = 0, !.first = 0, !.clean = (last_offset = 0 /\ slots[0] = ErasedSlot)]
    BY <1>5 DEF Start
  <2>4. PeerType'
    <3>1. peer' \in [stream : Streams \cup {"none"}, sent : Nat, first : Nat, clean : BOOLEAN]
      <4>1. (last_offset = 0) \in BOOLEAN
        OBVIOUS
      <4> QED BY <1>0, <2>3, <4>1 DEF PeerType
    <3>2. peer'.stream = peer.stream /\ peer.stream # "none"
      BY <1>0, <1>5, <2>3 DEF Start, PeerType
    <3> QED BY <3>1, <3>2 DEF PeerType
  <2>5. DeviceType'
    BY <1>0, <1>3, <1>5, <2>2 DEF Start, DeviceType, States
  <2> QED BY <1>1, <1>5, <2>4, <2>5 DEF Start, untarVars
<1>6. ASSUME NEW told \in BOOLEAN, Verify(told)
      PROVE  /\ ContextType' /\ CoalesceType' /\ CallType' /\ PeerType' /\ DeviceType' /\ StoreType'
  <2>1. magic' \in BOOLEAN
    BY <1>0, <1>6 DEF Verify, DeviceType
  <2>2. DeviceType'
    BY <1>0, <1>6, <2>1 DEF Verify, DeviceType, States
  <2> QED BY <1>1, <1>2, <1>6, <2>2 DEF Verify, untarVars
<1>7. ASSUME NEW n \in 1..SlotSize, PieceLost(n)
      PROVE  /\ ContextType' /\ CoalesceType' /\ CallType' /\ PeerType' /\ DeviceType' /\ StoreType'
  <2>1. n \in Nat /\ peer.sent + n \in Nat
    BY <1>0, BlockAssumption DEF PeerType
  <2>2. peer' = [peer EXCEPT !.sent = @ + n, !.first = IF peer.first = 0 THEN n ELSE @]
        /\ total_image_size' = total_image_size
    BY <1>7 DEF PieceLost, device
  <2>3. PeerType'
    BY <1>0, <2>1, <2>2 DEF PeerType
  <2>4. DeviceType'
    BY <1>0, <1>3, <1>7 DEF PieceLost, device, DeviceType
  <2> QED BY <1>1, <1>7, <2>3, <2>4 DEF PieceLost, untarVars
<1>8. ASSUME WriteFailed
      PROVE  /\ ContextType' /\ CoalesceType' /\ CallType' /\ PeerType' /\ DeviceType' /\ StoreType'
  <2>1. CallType'
    BY <1>8 DEF WriteFailed, CallType, NoCall
  <2> QED BY <1>1, <1>2, <1>8, <2>1 DEF WriteFailed, device
<1>9. ASSUME Abort
      PROVE  /\ ContextType' /\ CoalesceType' /\ CallType' /\ PeerType' /\ DeviceType' /\ StoreType'
  <2>1. DeviceType'
    BY <1>0, <1>3, <1>9 DEF Abort, DeviceType, States
  <2> QED BY <1>1, <1>2, <1>9, <2>1 DEF Abort, untarVars
<1>10. ASSUME UNCHANGED vars
      PROVE  /\ ContextType' /\ CoalesceType' /\ CallType' /\ PeerType' /\ DeviceType' /\ StoreType'
  BY <1>1, <1>2, <1>10 DEF vars, untarVars, device
<1> QED BY <1>4, <1>5, <1>6, <1>7, <1>8, <1>9, <1>10

\* So does every step, given what ImageInv knows of the slots.
LEMMA TypeStep ==
  TypeInv /\ Shapes /\ Shapes' /\ [Next]_vars => TypeInv'
<1> SUFFICES ASSUME TypeInv, Shapes, Shapes', [Next]_vars PROVE TypeInv'
  OBVIOUS
<1>1. CASE ParseStep
  <2>1. ParserType'
    BY <1>1, ParserTypes DEF ParseStep, TypeInv
  <2>2. PeerType' /\ DeviceType'
    BY <1>1 DEF ParseStep, device, TypeInv, PeerType, DeviceType
  <2> QED BY <2>1, <2>2 DEF TypeInv
<1> QED BY <1>1, WriteTypes, DoneTypes, CommandTypes DEF Next

\* Every variable of a download over Bluetooth keeps its type (the coalesce buffer
\* never holds more than it was asked to, a call consumes no more than its block,
\* cy_untar_parse(), cy_ota_write_incoming_data_block()), whatever archives and
\* images are sent, whole or in pieces, lost, repeated or mixed up.
THEOREM BleTypeCorrect == Spec => []TypeOK
<1>1. ImageInv => Shapes
  BY DEF ImageInv
<1>2. []Shapes /\ Spec => []TypeInv
  BY TypeInit, TypeStep, PTL DEF Spec
<1>3. TypeInv => TypeOK
  BY TypeInvIs
<1> QED BY <1>1, <1>2, <1>3, ImageAlways, PTL

-----------------------------------------------------------------------------
(* The parser follows the archive: while a transfer is as it should be, it *)
(* knows where in the archive it is, and what comes there.                 *)

\* How far the archive was read, and where the parser is in it.
Reached      == IF Idle THEN last_offset ELSE Now
Position     == Reached - Len(coalesce.bytes)
EndOf(at, k) == at[k] + Block + SizeOf(Sent, k)

\* The components of the list that file k may be one of.
Components(s, k) ==
  {j \in DOMAIN Contents[s].listed : /\ Contents[s].listed[j].name = Contents[s].files[k].name
                                    /\ Contents[s].listed[j].size = Contents[s].files[k].size}

\* The block of a call is the next piece of the archive.
CallInSync ==
  /\ Idle => last_offset # 0
  /\ ~Idle => /\ call.status \in {"parse", "stored"} /\ call.base = 0 /\ call.offset = last_offset
              /\ BlockLen # 0 /\ call.offset + BlockLen <= Len(Bytes[Sent])
              /\ \A i \in 1..BlockLen : call.block[i] = Bytes[Sent][call.offset + i]
  /\ call.status = "stored" => call.consumed = BlockLen

\* The buffer holds what comes at the position.
BufferInSync ==
  /\ Len(coalesce.bytes) <= Reached
  /\ Len(coalesce.bytes) # 0 => coalesce.at = Position
  /\ \A i \in 1..Len(coalesce.bytes) : coalesce.bytes[i] = Bytes[Sent][Position + i]
  /\ coalesce.needs = 2 * Block => SizeOf(Sent, 0) > Block

\* The list of components comes first.
InList ==
  \/ /\ ctxt.state = "FIND_HEADER" /\ Position = 0
     /\ ctxt.num_files = 0 /\ coalesce.needs # 2 * Block
  \/ /\ ctxt.state = "DATA" /\ Position = Block
     /\ ctxt.size = SizeOf(Sent, 0) /\ coalesce.needs \in {0, RoundUp(SizeOf(Sent, 0))}

\* Behind the data of entry k - 1, before the header of entry k.
Before(at, k) ==
  \/ EndOf(at, k - 1) <= Position /\ Position <= at[k]
  \/ k = Files(Sent) + 1 /\ Position \in {at[k] + Block, at[k] + 2 * Block}

\* In the data of file k.
Inside(at, k) ==
  /\ ctxt.header_offset = at[k] /\ ctxt.size = SizeOf(Sent, k)
  /\ Position = at[k] + Block + ctxt.processed
  /\ ctxt.processed <= ctxt.size /\ (ctxt.size # 0 => ctxt.processed # ctxt.size)
  /\ ctxt.current \in Components(Sent, k) /\ coalesce.needs # Block

InFiles(at) ==
  /\ ctxt.listed = Contents[Sent].listed
  /\ ctxt.state = "FIND_HEADER" => \E k \in 1..(Files(Sent) + 1) : Before(at, k)
  /\ ctxt.state = "DATA" => \E k \in 1..Files(Sent) : Inside(at, k)

InPhase(at) ==
  /\ ~ctxt.parsed => InList
  /\ ctxt.parsed => InFiles(at)
InSync(at) == CallInSync /\ BufferInSync /\ InPhase(at)

\* The transfer begins with its first piece.
Begins ==
  /\ ~Idle => peer.first # 0
  /\ peer.first = 0 => peer.sent = 0
  /\ peer.clean => /\ Sent \in Streams /\ last_offset <= peer.sent
                   /\ peer.first = 0 => last_offset = 0

\* The inductive invariant: a transfer as it should be is in sync.
Sync == Regular => is_tar /\ \A at : Layout(Sent, at) => InSync(at)
Follows == Begins /\ Sync

-----------------------------------------------------------------------------
(* Whole blocks                                                            *)

\* Two whole blocks less than a block apart are the same one.
LEMMA Aligned ==
  ASSUME NEW a, NEW b, a \in Nat, b \in Nat, a % Block = 0, b % Block = 0, a <= b, b < a + Block
  PROVE  a = b
<1>1. Block \in Nat \ {0}
  BY BlockAssumption
<1>2. PICK p \in Nat : a = p * Block
  <2>1. a \div Block \in Nat /\ a = (a \div Block) * Block + (a % Block)
    BY <1>1, DivMod
  <2>2. a = (a \div Block) * Block
    BY <1>1, <2>1
  <2> QED BY <2>1, <2>2
<1>3. PICK q \in Nat : b = q * Block
  <2>1. b \div Block \in Nat /\ b = (b \div Block) * Block + (b % Block)
    BY <1>1, DivMod
  <2>2. b = (b \div Block) * Block
    BY <1>1, <2>1
  <2> QED BY <2>1, <2>2
<1>4. ~(q < p)
  <2> SUFFICES ASSUME q + 1 <= p PROVE FALSE
    BY <1>2, <1>3
  <2>1. (q + 1) * Block <= p * Block /\ (q + 1) * Block = q * Block + Block
    BY <1>1, <1>2, <1>3
  <2> QED BY <1>1, <1>2, <1>3, <2>1
<1>5. ~(p < q)
  <2> SUFFICES ASSUME p + 1 <= q PROVE FALSE
    BY <1>2, <1>3
  <2>1. (p + 1) * Block <= q * Block /\ (p + 1) * Block = p * Block + Block
    BY <1>1, <1>2, <1>3
  <2> QED BY <1>1, <1>2, <1>3, <2>1
<1> QED BY <1>2, <1>3, <1>4, <1>5

\* The padding leads to the next whole block.
LEMMA NextBlock ==
  ASSUME NEW a, NEW b, a \in Nat, b \in Nat, a % Block # 0, b % Block = 0, a <= b, b < a + Block
  PROVE  a + (Block - (a % Block)) = b
<1>1. Block \in Nat \ {0}
  BY BlockAssumption
<1>2. PICK p, r \in Nat : a = p * Block + r /\ r = a % Block /\ r # 0 /\ r < Block
  <2>1. /\ a \div Block \in Nat /\ a % Block \in 0..(Block - 1)
        /\ a = (a \div Block) * Block + (a % Block)
    BY <1>1, DivMod
  <2>2. a % Block \in Nat /\ a % Block < Block
    BY <1>1, <2>1
  <2> QED BY <2>1, <2>2
<1>3. PICK q \in Nat : b = q * Block
  <2>1. b \div Block \in Nat /\ b = (b \div Block) * Block + (b % Block)
    BY <1>1, DivMod
  <2>2. b = (b \div Block) * Block
    BY <1>1, <2>1
  <2> QED BY <2>1, <2>2
<1>4. ~(q < p + 1)
  <2> SUFFICES ASSUME q <= p PROVE FALSE
    BY <1>2, <1>3
  <2>1. q * Block <= p * Block /\ p * Block \in Nat /\ q * Block \in Nat
    BY <1>1, <1>2, <1>3
  <2> QED BY <1>1, <1>2, <1>3, <2>1
<1>5. ~(p + 1 < q)
  <2> SUFFICES ASSUME p + 2 <= q PROVE FALSE
    BY <1>2, <1>3
  <2>1. (p + 2) * Block <= q * Block /\ (p + 2) * Block = p * Block + 2 * Block
    BY <1>1, <1>2, <1>3
  <2>2. p * Block \in Nat /\ q * Block \in Nat
    BY <1>1, <1>2, <1>3
  <2> QED BY <1>1, <1>2, <1>3, <2>1, <2>2
<1>6. q = p + 1
  BY <1>2, <1>3, <1>4, <1>5
<1>7. q * Block = p * Block + Block /\ p * Block \in Nat
  BY <1>1, <1>2, <1>6
<1> QED BY <1>1, <1>2, <1>3, <1>7

\* Where the parts of an archive are, and that an entry ends less than a block
\* before the next.
LEMMA LayoutIs ==
  ASSUME NEW s, NEW at, s \in Streams, Layout(s, at)
  PROVE  /\ Files(s) \in Nat /\ Len(Bytes[s]) \in Nat /\ at[0] = 0
         /\ Len(Bytes[s]) = at[Files(s) + 1] + 2 * Block
         /\ \A k \in 0..(Files(s) + 1) : at[k] \in Nat /\ at[k] % Block = 0
         /\ \A k \in 0..Files(s) :
              /\ SizeOf(s, k) \in Nat /\ at[k] \in Nat /\ at[k + 1] \in Nat /\ at[k + 1] % Block = 0
              /\ at[k] + Block + SizeOf(s, k) <= at[k + 1]
              /\ at[k + 1] < at[k] + Block + SizeOf(s, k) + Block
              /\ at[k + 1] <= at[Files(s) + 1]
<1>1. PICK m \in Nat : m = Files(s)
  BY SizesAre
<1>2. Len(Bytes[s]) \in Nat
  BY BytesAre
<1>3. ASSUME NEW k \in 0..m
      PROVE  /\ SizeOf(s, k) \in Nat /\ at[k] \in Nat /\ at[k + 1] \in Nat /\ at[k + 1] % Block = 0
             /\ at[k] + Block + SizeOf(s, k) <= at[k + 1]
             /\ at[k + 1] < at[k] + Block + SizeOf(s, k) + Block
             /\ at[k + 1] <= at[m + 1]
  <2>1. SizeOf(s, k) \in Nat
    BY <1>1, SizesAre
  <2>2. k + 1 \in 0..(m + 1) /\ k \in 0..(m + 1)
    BY <1>1
  <2>3. at[k] \in Nat /\ at[k + 1] \in Nat /\ at[k + 1] % Block = 0
    BY <1>1, <2>2 DEF Layout
  <2>4. at[k + 1] = at[k] + Block + RoundUp(SizeOf(s, k)) /\ at[k + 1] <= at[m + 1]
    BY <1>1 DEF Layout
  <2>5. PICK z, r \in Nat : z = SizeOf(s, k) /\ r = RoundUp(SizeOf(s, k)) /\ z <= r /\ r <= z + Block - 1
    BY <2>1, RoundUpIs
  <2> QED BY <2>3, <2>4, <2>5, BlockAssumption
<1> QED BY <1>1, <1>2, <1>3 DEF Layout

-----------------------------------------------------------------------------
(* The turns of the parser                                                 *)

\* What is known of a turn of the parser while it is in sync.
Parses ==
  /\ ParserType /\ Parsing /\ Sent \in Streams /\ last_offset \in Nat
  /\ CallInSync /\ BufferInSync

\* What is known of the bytes that a turn works with.
LEMMA RestInSync ==
  ASSUME Parses
  PROVE  /\ ~Idle /\ Now \in Nat /\ Now = last_offset + call.consumed /\ call.base = 0
         /\ Len(Rest) \in Nat \ {0} /\ Rest \in Seq(AnyByte)
         /\ call.consumed + Len(Rest) = BlockLen
         /\ Now + Len(Rest) <= Len(Bytes[Sent])
         /\ \A i \in 1..Len(Rest) : Rest[i] = Bytes[Sent][Now + i]
<1>1. /\ ~Idle /\ call.base = 0 /\ call.offset = last_offset
      /\ call.offset + BlockLen <= Len(Bytes[Sent])
      /\ \A i \in 1..BlockLen : call.block[i] = Bytes[Sent][call.offset + i]
  BY DEF Parses, Parsing, Idle, CallInSync
<1>2. /\ Rest \in Seq(AnyByte) /\ Len(Rest) \in Nat \ {0} /\ Now \in Nat
      /\ call.base + call.consumed + Len(Rest) = BlockLen
  BY SourceIs DEF Parses, BlockLen
<1>3. PICK o, c, r, l \in Nat : o = last_offset /\ c = call.consumed /\ r = Len(Rest) /\ l = BlockLen
  BY <1>2 DEF Parses, ParserType, CallType, BlockLen
<1>4. /\ Now = o + c /\ c + r = l /\ r # 0
  BY <1>1, <1>2, <1>3 DEF Now
<1>5. Len(Bytes[Sent]) \in Nat
  BY BytesAre DEF Parses
<1>6. ASSUME NEW i \in 1..r PROVE Rest[i] = Bytes[Sent][Now + i]
  <2>1. Rest = SubSeq(call.block, c + 1, l)
    <3>1. call.base + call.consumed + 1 = c + 1
      BY <1>1, <1>3
    <3> QED BY <1>3, <3>1 DEF Rest, From, BlockLen
  <2>2. call.block \in Seq(AnyByte) /\ Len(call.block) = l
    BY <1>3 DEF Parses, ParserType, CallType, BlockLen
  <2>3. Rest[i] = call.block[c + i]
    <3>1. /\ c + 1 \in Int /\ l \in Int /\ i \in 1..(l - (c + 1) + 1) /\ (c + 1) + i - 1 = c + i
          /\ \A j \in (c + 1)..l : call.block[j] \in AnyByte
      <4>1. (c + 1) + i - 1 = c + i
        BY <1>3
      <4>2. l - (c + 1) + 1 = r
        BY SMTT(30), <1>3, <1>4
      <4>3. c + 1 \in Int /\ l \in Int
        BY <1>3
      <4>4. \A j \in (c + 1)..l : call.block[j] \in AnyByte
        BY <1>3, <2>2
      <4> QED BY <4>1, <4>2, <4>3, <4>4
    <3>2. \A j \in 1..(l - (c + 1) + 1) : SubSeq(call.block, c + 1, l)[j] = call.block[(c + 1) + j - 1]
      BY <3>1, SubSeqProperties
    <3> QED BY <2>1, <3>1, <3>2
  <2>4. c + i \in 1..l
    BY SMTT(30), <1>3, <1>4
  <2>5. call.block[c + i] = Bytes[Sent][call.offset + (c + i)]
    BY <1>1, <1>3, <2>4
  <2>6. call.offset + (c + i) = Now + i
    BY <1>1, <1>3, <1>4
  <2> QED BY <2>3, <2>5, <2>6
<1>7. Now + r <= Len(Bytes[Sent])
  <2>1. o + l <= Len(Bytes[Sent])
    BY <1>1, <1>3
  <2>2. Now + r = o + l
    BY <1>3, <1>4
  <2> QED BY <2>1, <2>2
<1>8. Now = last_offset + call.consumed /\ call.consumed + Len(Rest) = BlockLen
  BY <1>3, <1>4
<1> QED BY <1>1, <1>2, <1>3, <1>6, <1>7, <1>8

\* The source of the turn is what the archive has at the position.
LEMMA SourceInSync ==
  ASSUME Parses, Collected
  PROVE  /\ SourceAt = Position /\ Position \in Nat /\ Len(Source) \in Nat \ {0}
         /\ Len(Bytes[Sent]) \in Nat /\ Position + Len(Source) <= Len(Bytes[Sent])
         /\ \A i \in 1..Len(Source) : Source[i] = Bytes[Sent][Position + i]
         /\ UsesCoalesce => Len(Source) = Len(coalesce.bytes) /\ Len(Source) = coalesce.needs
<1>1. /\ ~Idle /\ Now \in Nat /\ Len(Rest) \in Nat \ {0}
      /\ Now + Len(Rest) <= Len(Bytes[Sent])
      /\ \A i \in 1..Len(Rest) : Rest[i] = Bytes[Sent][Now + i]
  BY RestInSync
<1>2. Len(Source) \in Nat \ {0} /\ Len(Bytes[Sent]) \in Nat
  BY SourceIs, BytesAre DEF Parses
<1>3. Reached = Now
  BY <1>1 DEF Reached
<1>4. PICK n \in Nat : n = Len(coalesce.bytes)
  BY DEF Parses, ParserType, CoalesceType
<1>5. coalesce.needs \in Nat /\ n <= coalesce.needs
  BY <1>4, BlockAssumption DEF Parses, ParserType, CoalesceType
<1>6. Position = Now - n /\ n <= Now
  BY <1>3, <1>4 DEF Position, Parses, BufferInSync
<1>7. CASE UsesCoalesce
  <2>1. Source = coalesce.bytes /\ SourceAt = coalesce.at /\ n = coalesce.needs /\ n # 0
    BY <1>4, <1>5, <1>7 DEF Source, SourceAt, UsesCoalesce, Collected
  <2>2. SourceAt = Position /\ \A i \in 1..n : Source[i] = Bytes[Sent][Position + i]
    BY <1>4, <2>1 DEF Parses, BufferInSync
  <2>3. Position + n <= Len(Bytes[Sent])
    BY <1>1, <1>2, <1>6
  <2>4. Len(Source) = n /\ Position \in Nat
    BY <1>1, <1>4, <1>6, <2>1
  <2> QED BY <1>2, <1>4, <2>1, <2>2, <2>3, <2>4
<1>8. CASE ~UsesCoalesce
  <2>1. Source = Rest /\ SourceAt = Now /\ n = 0
    BY <1>4, <1>5, <1>8 DEF Source, SourceAt, UsesCoalesce
  <2>2. Position = Now
    BY <1>1, <1>6, <2>1
  <2> QED BY <1>1, <1>2, <1>8, <2>1, <2>2
<1> QED BY <1>7, <1>8

\* What is consumed moves the position on.
LEMMA ConsumeMoves ==
  ASSUME NEW n, Parses, Collected, n \in Nat, n <= Len(Source), UsesCoalesce => n # 0,
         Consume(n), UNCHANGED <<peer, last_offset>>
  PROVE  /\ CallInSync' /\ BufferInSync' /\ Position' = Position + n
         /\ coalesce'.needs = 0 \/ (coalesce'.needs = coalesce.needs /\ n < Len(coalesce.bytes))
<1>0. /\ ~Idle /\ Now \in Nat /\ Now = last_offset + call.consumed /\ call.base = 0
      /\ Len(Rest) \in Nat \ {0} /\ call.consumed + Len(Rest) = BlockLen
      /\ call.status = "parse"
  BY RestInSync DEF Parses, Parsing
<1>1. PICK l \in Nat : l = Len(coalesce.bytes)
  BY DEF Parses, ParserType, CoalesceType
<1>2. /\ Position = Now - l /\ l <= Now
      /\ \A i \in 1..l : coalesce.bytes[i] = Bytes[Sent][Position + i]
      /\ coalesce.needs = 2 * Block => SizeOf(Sent, 0) > Block
      /\ l # 0 => coalesce.at = Position
  BY <1>0, <1>1 DEF Position, Reached, Parses, BufferInSync
<1>3. Sent' = Sent
  BY DEF Sent
<1>4. 2 * Block # 0
  BY BlockAssumption
<1>5. CASE UsesCoalesce
  <2>1. call' = call /\ n # 0 /\ n <= l /\ l = coalesce.needs
    BY <1>1, <1>5, SourceInSync DEF Consume
  <2>2. CallInSync' /\ Now' = Now /\ Idle' = Idle
    BY <1>3, <2>1 DEF Parses, CallInSync, BlockLen, Now, Idle
  <2>3. Reached' = Now
    BY <1>0, <2>2 DEF Reached
  <2>4. CASE n < l
    <3>1. coalesce' = [coalesce EXCEPT !.bytes = From(@, n + 1), !.at = @ + n]
      BY <1>1, <1>5, <2>1, <2>4 DEF Consume
    <3>2. /\ coalesce'.bytes = SubSeq(coalesce.bytes, n + 1, l) /\ coalesce'.needs = coalesce.needs
          /\ coalesce'.at = coalesce.at + n
      BY <1>1, <3>1 DEF Parses, ParserType, CoalesceType, From
    <3>3. coalesce.bytes \in Seq(AnyByte)
      BY DEF Parses, ParserType, CoalesceType
    <3>4. Len(coalesce'.bytes) = l - n
      BY <1>1, <2>4, <3>2, <3>3
    <3>5. \A i \in 1..(l - n) : coalesce'.bytes[i] = coalesce.bytes[n + i]
      BY <1>1, <2>4, <3>2, <3>3
    <3>6. Position' = Position + n
      BY <1>0, <1>1, <1>2, <2>3, <3>4 DEF Position
    <3>7. ASSUME NEW i \in 1..(l - n) PROVE coalesce'.bytes[i] = Bytes[Sent][Position' + i]
      <4>1. n + i \in 1..l
        BY <1>1, <2>4
      <4>2. coalesce'.bytes[i] = Bytes[Sent][Position + (n + i)]
        BY <1>2, <3>5, <4>1
      <4>3. Position + (n + i) = Position' + i
        BY <1>0, <1>1, <1>2, <3>6
      <4> QED BY <4>2, <4>3
    <3>8. BufferInSync'
      <4>1. coalesce'.at = Position' /\ Len(coalesce'.bytes) <= Reached'
        <5>1. coalesce.at = Position
          BY <1>1, <1>2, <2>4
        <5> QED BY <1>0, <1>1, <1>2, <2>3, <2>4, <3>2, <3>4, <3>6, <5>1
      <4>2. \A i \in 1..Len(coalesce'.bytes) : coalesce'.bytes[i] = Bytes[Sent][Position' + i]
        BY <3>4, <3>7
      <4> QED BY <1>2, <1>3, <3>2, <4>1, <4>2 DEF BufferInSync
    <3> QED BY <1>1, <2>2, <2>4, <3>2, <3>6, <3>8
  <2>5. CASE ~(n < l)
    <3>1. coalesce' = NoCoalesce
      BY <1>1, <1>5, <2>5 DEF Consume
    <3>2. Len(coalesce'.bytes) = 0 /\ coalesce'.needs = 0
      BY <3>1 DEF NoCoalesce
    <3>3. Position' = Position + n
      BY <1>0, <1>1, <1>2, <2>1, <2>3, <2>5, <3>2 DEF Position
    <3>4. BufferInSync'
      BY <1>0, <1>4, <2>3, <3>2 DEF BufferInSync
    <3> QED BY <2>2, <3>2, <3>3, <3>4
  <2> QED BY <2>4, <2>5
<1>6. CASE ~UsesCoalesce
  <2>1. call' = [call EXCEPT !.consumed = @ + n] /\ coalesce' = coalesce
    BY <1>6 DEF Consume
  <2>2. coalesce.needs = 0 /\ l = 0
    BY <1>1, <1>6, BlockAssumption DEF UsesCoalesce, Parses, ParserType, CoalesceType
  <2>3. /\ call'.consumed = call.consumed + n /\ call'.base = 0 /\ call'.status = "parse"
        /\ call'.offset = call.offset /\ call'.block = call.block
    BY <1>0, <2>1 DEF Parses, ParserType, CallType
  <2>4. CallInSync'
    BY <1>0, <1>3, <2>3 DEF Parses, CallInSync, BlockLen, Idle
  <2>5. Now' = Now + n /\ ~Idle'
    <3>1. call.offset \in Nat /\ call.consumed \in Nat
      BY DEF Parses, ParserType, CallType
    <3>2. ~Idle'
      BY <2>3 DEF Idle
    <3>3. Now = call.offset + 0 + call.consumed /\ Now' = call.offset + 0 + (call.consumed + n)
      BY <1>0, <2>3 DEF Now
    <3> QED BY <3>1, <3>2, <3>3
  <2>6. Reached' = Now + n
    BY <2>5 DEF Reached
  <2>7. Position' = Position + n
    BY <1>0, <1>1, <1>2, <2>1, <2>2, <2>6 DEF Position
  <2>8. BufferInSync'
    BY <1>0, <1>1, <1>4, <2>1, <2>2, <2>6 DEF BufferInSync
  <2> QED BY <2>1, <2>2, <2>4, <2>7, <2>8
<1> QED BY <1>5, <1>6

\* What is collected leaves the position where it is.
LEMMA CollectStays ==
  ASSUME Parses, Collect, UNCHANGED <<peer, last_offset>>
  PROVE  CallInSync' /\ BufferInSync' /\ Position' = Position /\ coalesce'.needs = coalesce.needs
<1>0. /\ ~Idle /\ Now \in Nat /\ Now = last_offset + call.consumed /\ call.base = 0
      /\ Rest \in Seq(AnyByte)
      /\ Len(Rest) \in Nat \ {0} /\ call.consumed + Len(Rest) = BlockLen
      /\ \A i \in 1..Len(Rest) : Rest[i] = Bytes[Sent][Now + i]
      /\ call.status = "parse"
  BY RestInSync DEF Parses, Parsing
<1>1. PICK l, k, r \in Nat : l = Len(coalesce.bytes) /\ k = coalesce.needs /\ r = Len(Rest)
  BY <1>0, BlockAssumption DEF Parses, ParserType, CoalesceType
<1>2. /\ Position = Now - l /\ l <= Now
      /\ \A i \in 1..l : coalesce.bytes[i] = Bytes[Sent][Position + i]
      /\ coalesce.needs = 2 * Block => SizeOf(Sent, 0) > Block
      /\ l # 0 => coalesce.at = Position
  BY <1>0, <1>1 DEF Position, Reached, Parses, BufferInSync
<1>3. Sent' = Sent
  BY DEF Sent
<1>4. l < k /\ r # 0
  BY <1>0, <1>1 DEF Collect, Collected
<1> DEFINE n == Least(coalesce.needs - Len(coalesce.bytes), Len(Rest))
<1>5. /\ coalesce' = [coalesce EXCEPT !.bytes = @ \o SubSeq(Rest, 1, n),
                                      !.at = IF coalesce.bytes = <<>> THEN Now ELSE @]
      /\ call' = [call EXCEPT !.consumed = @ + n]
  BY DEF Collect
<1>6. n \in Nat /\ n # 0 /\ n <= r /\ l + n <= k
  BY <1>1, <1>4 DEF Least
<1> HIDE DEF n
<1> DEFINE add == SubSeq(Rest, 1, n)
<1>7. add \in Seq(AnyByte) /\ Len(add) = n /\ \A i \in 1..n : add[i] = Rest[i]
  BY <1>0, <1>1, <1>6
<1>8. coalesce.bytes \in Seq(AnyByte)
  BY DEF Parses, ParserType, CoalesceType
<1>9. /\ coalesce'.bytes = coalesce.bytes \o add /\ coalesce'.needs = coalesce.needs
      /\ coalesce'.at = IF coalesce.bytes = <<>> THEN Now ELSE coalesce.at
  <2> HIDE DEF add
  <2>1. coalesce' = [coalesce EXCEPT !.bytes = @ \o add, !.at = IF coalesce.bytes = <<>> THEN Now ELSE @]
    BY <1>5 DEF add
  <2> QED BY <2>1 DEF Parses, ParserType, CoalesceType
<1> HIDE DEF add
<1>10. /\ Len(coalesce'.bytes) = l + n
       /\ \A i \in 1..l : coalesce'.bytes[i] = coalesce.bytes[i]
       /\ \A i \in 1..n : coalesce'.bytes[l + i] = add[i]
  <2>1. /\ Len(coalesce.bytes \o add) = Len(coalesce.bytes) + Len(add)
        /\ \A i \in 1..Len(coalesce.bytes) : (coalesce.bytes \o add)[i] = coalesce.bytes[i]
        /\ \A i \in 1..Len(add) : (coalesce.bytes \o add)[Len(coalesce.bytes) + i] = add[i]
    <3>1. coalesce.bytes \in Seq(AnyByte) /\ add \in Seq(AnyByte)
      BY <1>7, <1>8
    <3> QED BY <3>1, Concat
  <2> QED BY <1>1, <1>7, <1>9, <2>1
<1>11. /\ call'.consumed = call.consumed + n /\ call'.base = 0 /\ call'.status = "parse"
       /\ call'.offset = call.offset /\ call'.block = call.block
  BY <1>0, <1>5 DEF Parses, ParserType, CallType
<1>12. CallInSync'
  BY <1>0, <1>3, <1>11 DEF Parses, CallInSync, BlockLen, Idle
<1>13. Now' = Now + n /\ ~Idle'
  <2>1. call.offset \in Nat /\ call.consumed \in Nat
    BY DEF Parses, ParserType, CallType
  <2>2. ~Idle'
    BY <1>11 DEF Idle
  <2>3. Now = call.offset + 0 + call.consumed /\ Now' = call.offset + 0 + (call.consumed + n)
    BY <1>0, <1>11 DEF Now
  <2> QED BY <1>6, <2>1, <2>2, <2>3
<1>14. Reached' = Now + n
  BY <1>13 DEF Reached
<1>15. Position' = Position
  BY <1>0, <1>1, <1>2, <1>6, <1>10, <1>14 DEF Position
<1>16. coalesce'.at = Position'
  <2>1. CASE l = 0
    <3>1. coalesce.bytes = <<>>
      <4>1. Len(coalesce.bytes) = 0
        BY <1>1, <2>1
      <4> QED BY <1>8, <4>1, EmptySeq
    <3> QED BY <1>0, <1>2, <1>9, <1>15, <2>1, <3>1
  <2>2. CASE l # 0
    <3>1. coalesce.bytes # <<>>
      BY <1>1, <2>2
    <3> QED BY <1>2, <1>9, <1>15, <2>2, <3>1
  <2> QED BY <2>1, <2>2
<1>17. ASSUME NEW i \in 1..(l + n) PROVE coalesce'.bytes[i] = Bytes[Sent][Position' + i]
  <2>1. CASE i \in 1..l
    BY <1>2, <1>10, <1>15, <2>1
  <2>2. CASE i \in (l + 1)..(l + n)
    <3>1. i - l \in 1..n /\ i - l \in 1..Len(Rest)
      BY <1>1, <1>6, <2>2
    <3>2. coalesce'.bytes[i] = Rest[i - l]
      <4>1. l + (i - l) = i
        BY <1>1, <1>6, <2>2
      <4>2. coalesce'.bytes[l + (i - l)] = add[i - l] /\ add[i - l] = Rest[i - l]
        BY <1>7, <1>10, <3>1
      <4> QED BY <4>1, <4>2
    <3>3. Rest[i - l] = Bytes[Sent][Now + (i - l)]
      BY <1>0, <3>1
    <3>4. Now + (i - l) = Position' + i
      <4>1. i \in Nat /\ Position = Now - l /\ Position' = Now - l /\ Now \in Nat
        BY <1>0, <1>1, <1>2, <1>6, <1>15
      <4> HIDE DEF Position
      <4> QED BY <1>1, <4>1
    <3> QED BY <3>2, <3>3, <3>4
  <2> QED BY <1>1, <1>6, <2>1, <2>2
<1>18. BufferInSync'
  <2>1. Len(coalesce'.bytes) <= Reached'
    BY <1>0, <1>1, <1>2, <1>6, <1>10, <1>14
  <2>2. \A i \in 1..Len(coalesce'.bytes) : coalesce'.bytes[i] = Bytes[Sent][Position' + i]
    BY <1>10, <1>17
  <2> QED BY <1>2, <1>3, <1>9, <1>16, <2>1, <2>2 DEF BufferInSync
<1> QED BY <1>9, <1>12, <1>15, <1>18

-----------------------------------------------------------------------------
(* What there is at the position                                           *)

\* A whole block further on is a whole block.
LEMMA BlockOn ==
  ASSUME NEW a, a \in Nat, a % Block = 0
  PROVE  (a + Block) % Block = 0
<1>1. Block \in Nat \ {0} /\ a + Block \in Nat
  BY BlockAssumption
<1>2. PICK p \in Nat : a = p * Block
  <2>1. a \div Block \in Nat /\ a = (a \div Block) * Block + (a % Block)
    BY <1>1, DivMod
  <2>2. a = (a \div Block) * Block
    BY <1>1, <2>1
  <2> QED BY <2>1, <2>2
<1>3. PICK q, r \in Nat : a + Block = q * Block + r /\ r = (a + Block) % Block /\ r < Block
  <2>1. /\ (a + Block) \div Block \in Nat /\ (a + Block) % Block \in 0..(Block - 1)
        /\ a + Block = ((a + Block) \div Block) * Block + ((a + Block) % Block)
    BY <1>1, DivMod
  <2>2. (a + Block) % Block \in Nat /\ (a + Block) % Block < Block
    BY <1>1, <2>1
  <2> QED BY <2>1, <2>2
<1>4. p * Block \in Nat /\ q * Block \in Nat
  BY <1>1, <1>2, <1>3
<1>5. ~(q < p + 1)
  <2> SUFFICES ASSUME q <= p PROVE FALSE
    BY <1>2, <1>3
  <2>1. q * Block <= p * Block
    BY <1>1, <1>2, <1>3
  <2> QED BY <1>1, <1>2, <1>3, <1>4, <2>1
<1>6. ~(p + 1 < q)
  <2> SUFFICES ASSUME p + 2 <= q PROVE FALSE
    BY <1>2, <1>3
  <2>1. (p + 2) * Block <= q * Block /\ (p + 2) * Block = p * Block + 2 * Block
    BY <1>1, <1>2, <1>3
  <2> QED BY <1>1, <1>2, <1>3, <1>4, <2>1
<1>7. q * Block = p * Block + Block
  <2>1. q = p + 1
    BY <1>2, <1>3, <1>5, <1>6
  <2> QED BY <1>1, <1>2, <2>1
<1> QED BY <1>1, <1>2, <1>3, <1>4, <1>7

\* What fits into a slot fits into a word.
LEMMA FitsWord ==
  ASSUME NEW n, n \in Nat, n <= SlotSize
  PROVE  n % Word = n
<1>1. Word \in Nat \ {0} /\ n < Word
  BY BlockAssumption
<1>2. PICK q, r \in Nat : n = q * Word + r /\ r = n % Word
  <2>1. n \div Word \in Nat /\ n % Word \in 0..(Word - 1) /\ n = (n \div Word) * Word + (n % Word)
    BY <1>1, DivMod
  <2>2. n % Word \in Nat
    BY <1>1, <2>1
  <2> QED BY <2>1, <2>2
<1>3. q = 0
  <2> SUFFICES ASSUME q >= 1 PROVE FALSE
    BY <1>2
  <2>1. q * Word >= Word /\ q * Word \in Nat
    BY <1>1, <1>2
  <2> QED BY <1>1, <1>2, <2>1
<1> QED BY <1>1, <1>2, <1>3

\* How the size of a list is rounded up.
LEMMA ListRounds ==
  ASSUME NEW n, n \in Nat
  PROVE  /\ n = 0 => RoundUp(n) = 0
         /\ n <= 2 * Block => RoundUp(n) <= 2 * Block
         /\ RoundUp(n) = 2 * Block => n > Block
<1>1. Block \in Nat \ {0}
  BY BlockAssumption
<1>2. PICK q \in Nat : RoundUp(n) = q * Block
  BY RoundUpIs
<1>3. PICK r \in Nat : r = RoundUp(n) /\ r = q * Block /\ n <= r /\ r <= n + Block - 1
  BY <1>2, RoundUpIs
<1>4. n = 0 => r = 0
  <2> SUFFICES ASSUME n = 0, q >= 1 PROVE FALSE
    BY <1>1, <1>3
  <2>1. q * Block >= 1 * Block /\ 1 * Block = Block
    BY <1>1, <1>2
  <2> QED BY <1>1, <1>3, <2>1
<1>5. n <= 2 * Block => r <= 2 * Block
  <2> SUFFICES ASSUME n <= 2 * Block, q >= 3 PROVE FALSE
    <3>1. q <= 2 => q * Block <= 2 * Block
      BY <1>1
    <3> QED BY <1>1, <1>3, <3>1
  <2>1. q * Block >= 3 * Block
    BY <1>1, <1>2
  <2> QED BY <1>1, <1>3, <2>1
<1> QED BY <1>1, <1>3, <1>4, <1>5

\* A turn while the transfer is as it should be.
Turn(at) == Parses /\ Regular /\ ProperArchives /\ Layout(Sent, at) /\ InPhase(at)

\* No byte of a file is passed over.
Skips == \/ Position' = Position
         \/ \A q \in Nat : Position <= q /\ q < Position' => Bytes[Sent][q + 1][2] # "file"

\* What is consumed and is no byte of a file.
LEMMA SkipsIs ==
  ASSUME NEW n, Parses, Collected, n \in Nat, n <= Len(Source), Position' = Position + n,
         \A i \in 1..n : Source[i][2] # "file"
  PROVE  Skips
<1>1. /\ Position \in Nat /\ Len(Source) \in Nat
      /\ \A i \in 1..Len(Source) : Source[i] = Bytes[Sent][Position + i]
  BY SourceInSync
<1>2. ASSUME NEW q \in Nat, Position <= q, q < Position' PROVE Bytes[Sent][q + 1][2] # "file"
  <2>1. PICK a, l \in Nat : a = Position /\ l = Len(Source)
    BY <1>1
  <2>2. q + 1 - a \in 1..n /\ q + 1 - a \in 1..l /\ a + (q + 1 - a) = q + 1
    BY <1>2, <2>1
  <2>3. Source[q + 1 - a] = Bytes[Sent][a + (q + 1 - a)]
    BY <1>1, <2>1, <2>2
  <2> QED BY <2>2, <2>3
<1> QED BY <1>2 DEF Skips

\* What a proper archive holds, entry by entry.
LEMMA TurnIs ==
  ASSUME NEW at, Turn(at)
  PROVE  /\ Contents[Sent].archive /\ Contents[Sent].good /\ SizeOf(Sent, 0) <= 2 * Block
         /\ \A k \in 1..Files(Sent) :
              /\ \E j \in DOMAIN Contents[Sent].listed :
                   /\ Contents[Sent].listed[j].name = Contents[Sent].files[k].name
                   /\ Contents[Sent].listed[j].size = Contents[Sent].files[k].size
              /\ SizeOf(Sent, k) = Contents[Sent].files[k].size
              /\ SizeOf(Sent, k) \in Nat /\ SizeOf(Sent, k) <= SlotSize
              /\ SizeOf(Sent, 0) > Block => SizeOf(Sent, k) # 0
         /\ \A j \in DOMAIN Contents[Sent].listed : KnownType(Contents[Sent].listed[j].type)
<1>1. Contents[Sent].archive /\ WellFormed(Sent) /\ Sent \in Streams
  BY DEF Turn, Regular, TakenApart, Sent, Parses
<1>2. /\ Files(Sent) \in Nat /\ DOMAIN Contents[Sent].files = 1..Files(Sent)
      /\ \A k \in 0..Files(Sent) : SizeOf(Sent, k) \in Nat
  BY <1>1, SizesAre
<1>3. SizeOf(Sent, 0) = Contents[Sent].list
  BY DEF SizeOf
<1>4. ASSUME NEW k \in 1..Files(Sent)
      PROVE  SizeOf(Sent, k) = Contents[Sent].files[k].size /\ SizeOf(Sent, k) \in Nat
  <2>1. k \in 0..Files(Sent) /\ k # 0
    BY <1>2
  <2> QED BY <1>2, <2>1 DEF SizeOf
<1>5. /\ \A k \in 1..Files(Sent) : /\ Contents[Sent].files[k].size <= SlotSize
                                   /\ Contents[Sent].list > Block => Contents[Sent].files[k].size # 0
      /\ \A j \in DOMAIN Contents[Sent].listed : KnownType(Contents[Sent].listed[j].type)
  BY <1>1 DEF Turn, ProperArchives, Files
<1>6. ASSUME NEW k \in 1..Files(Sent)
      PROVE  SizeOf(Sent, k) <= SlotSize /\ (SizeOf(Sent, 0) > Block => SizeOf(Sent, k) # 0)
  BY <1>3, <1>4, <1>5
<1>7. /\ Contents[Sent].good /\ Contents[Sent].list <= 2 * Block
      /\ \A k \in DOMAIN Contents[Sent].files : \E j \in DOMAIN Contents[Sent].listed :
           /\ Contents[Sent].listed[j].name = Contents[Sent].files[k].name
           /\ Contents[Sent].listed[j].size = Contents[Sent].files[k].size
  BY <1>1 DEF WellFormed
<1> QED BY <1>1, <1>2, <1>3, <1>4, <1>5, <1>6, <1>7

\* The header of an entry, ...
LEMMA HeaderIs ==
  ASSUME NEW at, NEW k, Turn(at), Collected, Len(Source) >= Block,
         k \in 0..Files(Sent), Position = at[k]
  PROVE  /\ IsTarHeader(Source) /\ Source[1] = <<Sent, "header", k, 0>>
         /\ \A i \in 1..Block : Source[i][2] # "file"
<1>1. Block \in Nat /\ HeaderSize \in Nat /\ 2 <= HeaderSize /\ HeaderSize <= Block
  BY BlockAssumption
<1>2. /\ Len(Source) \in Nat
      /\ \A i \in 1..Len(Source) : Source[i] = Bytes[Sent][Position + i]
  BY SourceInSync DEF Turn
<1>3. \A i \in 1..Block : Bytes[Sent][at[k] + i] = <<Sent, "header", k, i - 1>>
  BY DEF Turn, Layout
<1>4. 1 \in 1..Block /\ 2 \in 1..Block /\ 1 \in 1..Len(Source) /\ 2 \in 1..Len(Source)
  BY <1>1, <1>2
<1>5. Source[1] = <<Sent, "header", k, 1 - 1>> /\ Source[2] = <<Sent, "header", k, 2 - 1>>
  BY <1>2, <1>3, <1>4
<1>6. Len(Source) >= HeaderSize
  BY <1>1, <1>2
<1>7. ASSUME NEW i \in 1..Block PROVE Source[i][2] # "file"
  <2>1. i \in 1..Len(Source)
    BY <1>1, <1>2
  <2>2. Source[i] = <<Sent, "header", k, i - 1>>
    BY <1>2, <1>3, <2>1
  <2> QED BY <2>2
<1> QED BY <1>5, <1>6, <1>7 DEF IsTarHeader

\* ... and the zeros at the end.
LEMMA ZerosAre ==
  ASSUME NEW at, Turn(at), Collected, Len(Source) >= Block,
         Position \in {at[Files(Sent) + 1], at[Files(Sent) + 1] + Block}
  PROVE  ~IsTarHeader(Source) /\ IsZero(Source)
<1>1. Block \in Nat /\ 2 <= Block
  BY BlockAssumption
<1>2. /\ Len(Source) \in Nat /\ Position \in Nat /\ Source \in Seq(AnyByte)
      /\ Position + Len(Source) <= Len(Bytes[Sent])
      /\ \A i \in 1..Len(Source) : Source[i] = Bytes[Sent][Position + i]
  BY SourceInSync, SourceIs DEF Turn, Parses
<1>3. PICK z \in Nat : z = at[Files(Sent) + 1] /\ Len(Bytes[Sent]) = z + 2 * Block
  <2>1. Files(Sent) \in Nat
    BY LayoutIs DEF Turn, Parses
  <2>2. Files(Sent) + 1 \in 0..(Files(Sent) + 1)
    BY <2>1
  <2> QED BY <2>2, LayoutIs DEF Turn, Parses
<1>4. \A i \in 1..(2 * Block) : Bytes[Sent][z + i] = <<Sent, "zero", 0, i - 1>>
  BY <1>3 DEF Turn, Layout
<1>5. PICK d \in Nat : Position = z + d
  BY <1>1, <1>3
<1>6. ASSUME NEW i \in 1..Len(Source) PROVE Source[i][2] = "zero"
  <2>1. d + i \in 1..(2 * Block) /\ z + (d + i) = Position + i
    <3>1. PICK l, p \in Nat : l = Len(Source) /\ p = Position /\ p + l <= z + 2 * Block /\ p = z + d
      BY <1>2, <1>3, <1>5
    <3>2. i \in Nat /\ 1 <= i /\ i <= l
      BY <3>1
    <3> QED BY <1>1, <3>1, <3>2
  <2>2. Source[i] = <<Sent, "zero", 0, (d + i) - 1>>
    BY <1>2, <1>4, <2>1
  <2> QED BY <2>2
<1>7. DOMAIN Source = 1..Len(Source)
  BY <1>2
<1>8. 2 \in 1..Len(Source)
  BY <1>1, <1>2
<1>9. Source[2][2] # "header"
  BY <1>6, <1>8
<1> QED BY <1>6, <1>7, <1>9 DEF IsTarHeader, IsZero

\* What the parser finds where it looks for a header.
LEMMA AtHeaderIs ==
  ASSUME NEW at, Turn(at), AtHeader
  PROVE  \/ /\ ~ctxt.parsed /\ Position = at[0] /\ at[0] = 0
            /\ ctxt.num_files = 0 /\ coalesce.needs # 2 * Block
         \/ ctxt.parsed /\ \E k \in 1..Files(Sent) : Position = at[k]
         \/ ctxt.parsed /\ Position \in {at[Files(Sent) + 1], at[Files(Sent) + 1] + Block}
<1>1. Collected /\ ctxt.state = "FIND_HEADER" /\ Len(Source) >= Block /\ SourceAt % Block = 0
  BY DEF AtHeader, Ready
<1>2. /\ SourceAt = Position /\ Position \in Nat /\ Len(Source) \in Nat
      /\ Position + Len(Source) <= Len(Bytes[Sent])
  BY <1>1, SourceInSync DEF Turn
<1>3. PICK m \in Nat : m = Files(Sent)
  BY LayoutIs DEF Turn, Parses
<1>4. Block \in Nat \ {0}
  BY BlockAssumption
<1>5. CASE ~ctxt.parsed
  <2>1. InList
    BY <1>5 DEF Turn, InPhase
  <2>2. at[0] = 0
    BY LayoutIs DEF Turn, Parses
  <2> QED BY <1>1, <1>5, <2>1, <2>2 DEF InList
<1>6. CASE ctxt.parsed
  <2>1. PICK k \in 1..(m + 1) : Before(at, k)
    BY <1>1, <1>3, <1>6 DEF Turn, InPhase, InFiles
  <2>2. CASE EndOf(at, k - 1) <= Position /\ Position <= at[k]
    <3>1. k - 1 \in 0..m /\ (k - 1) + 1 = k
      BY <1>3
    <3>2. /\ SizeOf(Sent, k - 1) \in Nat /\ at[k - 1] \in Nat /\ at[k] \in Nat /\ at[k] % Block = 0
          /\ at[k] < at[k - 1] + Block + SizeOf(Sent, k - 1) + Block
      BY <1>3, <3>1, LayoutIs DEF Turn, Parses
    <3>3. at[k] < Position + Block
      BY SMTT(30), <1>2, <1>4, <2>2, <3>2 DEF EndOf
    <3>4. Position = at[k]
      BY <1>1, <1>2, <2>2, <3>2, <3>3, Aligned
    <3>5. k \in 1..m \/ k = m + 1
      BY <1>3
    <3> QED BY <1>3, <1>6, <3>4, <3>5
  <2>3. CASE k = m + 1 /\ Position \in {at[k] + Block, at[k] + 2 * Block}
    <3>1. at[m + 1] \in Nat /\ Len(Bytes[Sent]) = at[m + 1] + 2 * Block
      <4>1. m + 1 \in 0..(m + 1)
        OBVIOUS
      <4> QED BY <1>3, <4>1, LayoutIs DEF Turn, Parses
    <3>2. Position # at[k] + 2 * Block
      BY <1>1, <1>2, <1>4, <2>3, <3>1
    <3> QED BY <1>3, <1>6, <2>3, <3>2
  <2> QED BY <1>3, <2>1, <2>2, <2>3 DEF Before
<1> QED BY <1>5, <1>6

-----------------------------------------------------------------------------
(* Every turn follows the archive                                          *)

\* The buffer is filled: the position stays.
LEMMA CollectFollows ==
  ASSUME NEW at, Turn(at), Collect, UNCHANGED <<peer, last_offset>>
  PROVE  InSync(at)' /\ Skips
<1>1. /\ CallInSync' /\ BufferInSync' /\ Position' = Position
      /\ coalesce'.needs = coalesce.needs
  BY CollectStays DEF Turn
<1>2. ctxt' = ctxt /\ Sent' = Sent
  BY DEF Collect, Sent
<1>3. InPhase(at)'
  BY <1>1, <1>2 DEF Turn, InPhase, InList, InFiles, Before, Inside, EndOf
<1> QED BY <1>1, <1>3 DEF InSync, Skips

\* The parser asks for a whole block: so far it has nothing in its buffer.
LEMMA AskBlockFollows ==
  ASSUME NEW at, Turn(at), AskForBlock, UNCHANGED <<peer, last_offset>>
  PROVE  InSync(at)' /\ Skips
<1>1. /\ Collected /\ ctxt.state = "FIND_HEADER" /\ Len(Source) < Block /\ call' = call /\ ctxt' = ctxt
      /\ coalesce' = [coalesce EXCEPT !.needs = Block]
  BY DEF AskForBlock, Ready
<1>2. Block \in Nat \ {0} /\ Block # 2 * Block
  BY BlockAssumption
<1>3. Len(coalesce.bytes) \in Nat /\ Len(coalesce.bytes) <= coalesce.needs /\ coalesce.needs \in {0, Block, 2 * Block}
  BY DEF Turn, Parses, ParserType, CoalesceType
<1>4. coalesce.needs = 0
  <2> SUFFICES ASSUME coalesce.needs # 0 PROVE FALSE
    OBVIOUS
  <2>1. UsesCoalesce
    BY <1>2, <1>3 DEF UsesCoalesce
  <2>2. Len(Source) = coalesce.needs
    BY <1>1, <2>1, SourceInSync DEF Turn
  <2> QED BY <1>1, <1>2, <1>3, <2>2
<1>5. /\ coalesce'.bytes = coalesce.bytes /\ coalesce'.at = coalesce.at /\ coalesce'.needs = Block
      /\ Sent' = Sent /\ Reached' = Reached
  BY <1>1 DEF Turn, Parses, ParserType, CoalesceType, Sent, Reached, Idle, Now
<1>6. Position' = Position
  BY <1>5 DEF Position
<1>7. CallInSync' /\ BufferInSync'
  BY <1>1, <1>2, <1>5, <1>6 DEF Turn, Parses, CallInSync, BufferInSync, Idle, BlockLen
<1>8. InPhase(at)'
  BY <1>1, <1>2, <1>5, <1>6 DEF Turn, InPhase, InList, InFiles, Before, EndOf
<1> QED BY <1>6, <1>7, <1>8 DEF InSync, Skips

\* Padding is skipped to where the next header is.
LEMMA PaddingFollows ==
  ASSUME NEW at, Turn(at), SkipPadding, UNCHANGED <<peer, last_offset>>
  PROVE  InSync(at)' /\ Skips
<1>1. /\ Collected /\ ctxt.state = "FIND_HEADER" /\ Len(Source) >= Block
      /\ SourceAt % Block # 0 /\ ctxt' = ctxt
  BY DEF SkipPadding, Ready
<1>2. /\ SourceAt = Position /\ Position \in Nat /\ Len(Source) \in Nat
      /\ Position + Len(Source) <= Len(Bytes[Sent])
  BY <1>1, SourceInSync DEF Turn
<1> DEFINE n == Block - (Position % Block)
<1>3. n \in 1..Block
  BY <1>2, PaddingIs DEF PaddingAt
<1>4. Block \in Nat
  BY BlockAssumption
<1>5. Consume(n)
  <2>1. Consume(IF UsesCoalesce THEN Least(n, Len(Source)) ELSE n)
    BY <1>2 DEF SkipPadding
  <2>2. Least(n, Len(Source)) = n
    <3> HIDE DEF n
    <3> QED BY <1>1, <1>2, <1>3, <1>4 DEF Least
  <2> QED BY <2>1, <2>2
<1>6. n \in Nat /\ n # 0 /\ n <= Len(Source)
  <2> HIDE DEF n
  <2> QED BY <1>1, <1>2, <1>3, <1>4
<1>7. /\ CallInSync' /\ BufferInSync' /\ Position' = Position + n
      /\ coalesce'.needs = 0 \/ coalesce'.needs = coalesce.needs
  <2> HIDE DEF n
  <2> QED BY <1>1, <1>5, <1>6, ConsumeMoves DEF Turn
<1>8. Sent' = Sent
  BY DEF Sent
<1>9. PICK m \in Nat : m = Files(Sent)
  BY LayoutIs DEF Turn, Parses
<1>10. ctxt.parsed
  <2> SUFFICES ASSUME ~ctxt.parsed PROVE FALSE
    OBVIOUS
  <2>1. Position = 0
    BY <1>1 DEF Turn, InPhase, InList
  <2>2. at[0] = 0 /\ at[0] % Block = 0
    <3>1. 0 \in 0..(Files(Sent) + 1)
      BY <1>9
    <3> QED BY <3>1, LayoutIs DEF Turn, Parses
  <2> QED BY <1>1, <1>2, <2>1, <2>2
<1>11. PICK k \in 1..(m + 1) : Before(at, k)
  BY <1>1, <1>9, <1>10 DEF Turn, InPhase, InFiles
<1>12. k - 1 \in 0..m /\ (k - 1) + 1 = k
  BY <1>9
<1>13. /\ SizeOf(Sent, k - 1) \in Nat /\ at[k - 1] \in Nat /\ at[k] \in Nat /\ at[k] % Block = 0
       /\ at[k - 1] + Block + SizeOf(Sent, k - 1) <= at[k]
       /\ at[k] < at[k - 1] + Block + SizeOf(Sent, k - 1) + Block
  BY <1>9, <1>12, LayoutIs DEF Turn, Parses
<1>14. EndOf(at, k - 1) <= Position /\ Position <= at[k]
  <2> SUFFICES ASSUME Position \in {at[k] + Block, at[k] + 2 * Block} PROVE FALSE
    BY <1>11 DEF Before
  <2>1. (at[k] + Block) % Block = 0 /\ at[k] + Block \in Nat
    BY <1>4, <1>13, BlockOn
  <2>2. ((at[k] + Block) + Block) % Block = 0
    BY <2>1, BlockOn
  <2>3. (at[k] + Block) + Block = at[k] + 2 * Block
    BY <1>4, <1>13
  <2> QED BY <1>1, <1>2, <2>1, <2>2, <2>3
<1>15. at[k] < Position + Block
  BY SMTT(30), <1>2, <1>4, <1>13, <1>14 DEF EndOf
<1>16. Position + n = at[k]
  BY <1>1, <1>2, <1>13, <1>14, <1>15, NextBlock
<1>17. Before(at, k)'
  <2>1. Position' = at[k] /\ EndOf(at, k - 1)' = at[k - 1] + Block + SizeOf(Sent, k - 1)
    BY <1>7, <1>8, <1>16 DEF EndOf
  <2> HIDE DEF n
  <2> QED BY <1>13, <2>1 DEF Before
<1>18. InPhase(at)'
  <2>1. ctxt.listed = Contents[Sent].listed
    BY <1>10 DEF Turn, InPhase, InFiles
  <2> QED BY <1>1, <1>8, <1>9, <1>10, <1>17, <2>1 DEF InPhase, InFiles
<1>19. Skips
  <2>1. PICK a, z, r, d \in Nat : /\ a = at[k - 1] /\ z = SizeOf(Sent, k - 1) /\ r = RoundUp(z)
                                 /\ d = Position - (a + Block) /\ d >= z
                                 /\ at[k] = a + Block + r
    <3>1. at[k] = at[k - 1] + Block + RoundUp(SizeOf(Sent, k - 1))
      BY <1>9, <1>12 DEF Turn, Layout
    <3>2. RoundUp(SizeOf(Sent, k - 1)) \in Nat
      BY <1>13, RoundUpIs
    <3>3. Position - (at[k - 1] + Block) \in Nat /\ Position - (at[k - 1] + Block) >= SizeOf(Sent, k - 1)
      BY SMTT(30), <1>2, <1>4, <1>13, <1>14 DEF EndOf
    <3> QED BY <1>13, <3>1, <3>2, <3>3
  <2>2. ASSUME NEW i \in 1..n PROVE Source[i][2] # "file"
    <3>1. i \in 1..Len(Source)
      <4> HIDE DEF n
      <4> QED BY <1>2, <1>6
    <3>2. Source[i] = Bytes[Sent][Position + i]
      BY <1>1, <3>1, SourceInSync DEF Turn
    <3>3. Position + i = a + Block + (d + i) /\ d + i \in (z + 1)..r
      <4> HIDE DEF n
      <4>1. PICK c, x, b \in Nat : c = Position /\ x = n /\ b = Block
        BY <1>2, <1>4, <1>6
      <4>2. d = c - (a + b) /\ c + x = a + b + r /\ i \in 1..x
        BY <1>16, <2>1, <4>1
      <4>3. c + i = a + b + (d + i) /\ d + i \in (z + 1)..r
        BY <2>1, <4>1, <4>2
      <4> QED BY <4>1, <4>3
    <3>4. Bytes[Sent][a + Block + (d + i)][2] = "zero"
      BY <1>9, <1>12, <2>1, <3>3 DEF Turn, Layout
    <3> QED BY <3>2, <3>3, <3>4
  <2> HIDE DEF n
  <2> QED BY <1>1, <1>6, <1>7, <2>2, SkipsIs DEF Turn
<1> QED BY <1>7, <1>18, <1>19 DEF InSync

\* The zeros at the end are skipped, block by block.
LEMMA ZerosFollow ==
  ASSUME NEW at, Turn(at), SkipZeros, UNCHANGED <<peer, last_offset>>
  PROVE  InSync(at)' /\ Skips
<1>1. /\ AtHeader /\ Collected /\ ctxt.state = "FIND_HEADER" /\ Len(Source) >= Block /\ ctxt' = ctxt
      /\ ~IsTarHeader(Source) /\ Consume(Block)
  BY DEF SkipZeros, AtHeader, Ready
<1>2. Block \in Nat \ {0}
  BY BlockAssumption
<1>3. CallInSync' /\ BufferInSync' /\ Position' = Position + Block
  BY <1>1, <1>2, ConsumeMoves DEF Turn
<1>4. PICK m \in Nat : m = Files(Sent)
  BY LayoutIs DEF Turn, Parses
<1>5. ctxt.parsed /\ Position \in {at[m + 1], at[m + 1] + Block}
  <2>1. 0 \in 0..m /\ \A k \in 1..m : k \in 0..m
    BY <1>4
  <2> QED BY <1>1, <1>4, <2>1, AtHeaderIs, HeaderIs
<1>6. at[m + 1] \in Nat
  <2>1. m + 1 \in 0..(m + 1)
    BY <1>4
  <2> QED BY <1>4, <2>1, LayoutIs DEF Turn, Parses
<1>7. Position' \in {at[m + 1] + Block, at[m + 1] + 2 * Block}
  BY <1>2, <1>3, <1>5, <1>6
<1>8. Sent' = Sent
  BY DEF Sent
<1>9. Before(at, m + 1)' /\ m + 1 \in 1..(m + 1)
  BY <1>4, <1>7, <1>8 DEF Before
<1>10. InPhase(at)'
  <2>1. ctxt.listed = Contents[Sent].listed
    BY <1>5 DEF Turn, InPhase, InFiles
  <2> QED BY <1>1, <1>4, <1>5, <1>8, <1>9, <2>1 DEF InPhase, InFiles
<1>11. Skips
  <2>1. Source \in Seq(AnyByte) /\ IsZero(Source) /\ Block <= Len(Source) /\ Len(Source) \in Nat
    BY <1>1, SourceIs, SourceInSync DEF SkipZeros, AtHeader, Ready, Turn, Parses
  <2>2. \A i \in 1..Block : i \in DOMAIN Source
    BY <1>2, <2>1
  <2>3. \A i \in 1..Block : Source[i][2] # "file"
    BY <2>1, <2>2 DEF IsZero
  <2> QED BY <1>1, <1>2, <1>3, <2>1, <2>3, SkipsIs DEF Turn
<1> QED BY <1>3, <1>10, <1>11 DEF InSync

\* The header of the list leads to the list.
LEMMA ListHeaderFollows ==
  ASSUME NEW at, Turn(at), ListHeader, UNCHANGED <<peer, last_offset>>
  PROVE  InSync(at)' /\ Skips
<1>1. /\ AtHeader /\ Collected /\ Len(Source) >= Block
      /\ IsTarHeader(Source) /\ Source[1][3] = 0 /\ Consume(Block)
      /\ Enter(0, Contents[Source[1][1]].list)
  BY DEF ListHeader, AtHeader, Ready, IsListHeader, Names
<1>2. Block \in Nat \ {0}
  BY BlockAssumption
<1>3. /\ CallInSync' /\ BufferInSync' /\ Position' = Position + Block
      /\ coalesce'.needs = 0 \/ (coalesce'.needs = coalesce.needs /\ Block < Len(coalesce.bytes))
  BY <1>1, <1>2, ConsumeMoves DEF Turn
<1>4. /\ ~ctxt.parsed /\ Position = at[0] /\ at[0] = 0
      /\ ctxt.num_files = 0 /\ coalesce.needs # 2 * Block
  <2>1. ~(Position \in {at[Files(Sent) + 1], at[Files(Sent) + 1] + Block})
    BY <1>1, ZerosAre
  <2>2. ASSUME NEW k \in 1..Files(Sent), Position = at[k] PROVE FALSE
    <3>1. k \in 0..Files(Sent) /\ k # 0
      BY LayoutIs DEF Turn, Parses
    <3> QED BY <1>1, <2>2, <3>1, HeaderIs
  <2> QED BY <1>1, <2>1, <2>2, AtHeaderIs
<1>5. Source[1] = <<Sent, "header", 0, 0>>
  <2>1. 0 \in 0..Files(Sent)
    BY LayoutIs DEF Turn, Parses
  <2> QED BY <1>1, <1>4, <2>1, HeaderIs
<1>6. coalesce'.needs = 0
  <2>1. Len(coalesce.bytes) \in Nat /\ Len(coalesce.bytes) <= coalesce.needs /\ coalesce.needs \in {0, Block}
    BY <1>4 DEF Turn, Parses, ParserType, CoalesceType
  <2> QED BY <1>2, <1>3, <2>1
<1>7. Sent' = Sent
  BY DEF Sent
<1>8. ctxt'.parsed = ctxt.parsed /\ ctxt'.state = "DATA" /\ ctxt'.size = SizeOf(Sent, 0)
  BY <1>1, <1>5 DEF Enter, Turn, Parses, ParserType, ContextType, SizeOf
<1>9. InPhase(at)'
  BY <1>2, <1>3, <1>4, <1>6, <1>7, <1>8 DEF InPhase, InList
<1>10. Skips
  <2>1. \A i \in 1..Block : Source[i][2] # "file"
    <3>1. 0 \in 0..Files(Sent)
      BY LayoutIs DEF Turn, Parses
    <3> QED BY <1>1, <1>4, <3>1, HeaderIs
  <2>2. Block <= Len(Source)
    BY <1>1, <1>2, SourceInSync DEF Turn
  <2> QED BY <1>1, <1>2, <1>3, <2>1, <2>2, SkipsIs DEF Turn
<1> QED BY <1>3, <1>9, <1>10 DEF InSync

\* The header of a file leads to its data.
LEMMA FileHeaderFollows ==
  ASSUME NEW at, Turn(at), FileHeader, UNCHANGED <<peer, last_offset>>
  PROVE  InSync(at)' /\ Skips
<1>1. /\ AtHeader /\ Collected /\ Len(Source) >= Block /\ Consume(Block)
  BY DEF FileHeader, AtHeader, Ready
<1>2. PICK j \in DOMAIN ctxt.listed :
         /\ IsTarHeader(Source) /\ Enter(j, ctxt.listed[j].size)
         /\ ctxt.listed[j].name = HeaderFile(Source).name
         /\ ctxt.listed[j].size = HeaderFile(Source).size
  BY DEF FileHeader, Listed
<1>3. Block \in Nat \ {0}
  BY BlockAssumption
<1>4. /\ CallInSync' /\ BufferInSync' /\ Position' = Position + Block
      /\ coalesce'.needs = 0 \/ (coalesce'.needs = coalesce.needs /\ Block < Len(coalesce.bytes))
  BY <1>1, <1>3, ConsumeMoves DEF Turn
<1>5. ctxt.parsed
  <2> SUFFICES ASSUME ~ctxt.parsed PROVE FALSE
    OBVIOUS
  <2>1. ctxt.listed = <<>>
    BY DEF Turn, Parses, ParserType, ContextType
  <2> QED BY <1>2, <2>1
<1>6. PICK k \in 1..Files(Sent) : Position = at[k]
  <2>1. ~(Position \in {at[Files(Sent) + 1], at[Files(Sent) + 1] + Block})
    BY <1>1, <1>2, ZerosAre
  <2> QED BY <1>1, <1>5, <2>1, AtHeaderIs
<1>7. Source[1] = <<Sent, "header", k, 0>> /\ k \in 0..Files(Sent) /\ at[k] \in Nat
  <2>1. k \in 0..Files(Sent)
    BY LayoutIs DEF Turn, Parses
  <2> QED BY <1>1, <1>6, <2>1, HeaderIs, LayoutIs DEF Turn, Parses
<1>8. /\ HeaderFile(Source).size = SizeOf(Sent, k) /\ SizeOf(Sent, k) \in Nat
      /\ HeaderFile(Source) = Contents[Sent].files[k]
  BY <1>7, TurnIs DEF HeaderFile
<1>9. coalesce'.needs # Block
  <2>1. Len(coalesce.bytes) \in Nat /\ Len(coalesce.bytes) <= coalesce.needs /\ coalesce.needs \in Nat
    BY <1>3 DEF Turn, Parses, ParserType, CoalesceType
  <2> QED BY <1>3, <1>4, <2>1
<1>10. Sent' = Sent
  BY DEF Sent
<1>11. SourceAt = Position
  BY <1>1, SourceInSync DEF Turn
<1>12. /\ ctxt'.parsed = ctxt.parsed /\ ctxt'.state = "DATA" /\ ctxt'.size = SizeOf(Sent, k)
       /\ ctxt'.header_offset = at[k] /\ ctxt'.processed = 0 /\ ctxt'.current = j
       /\ ctxt'.listed = ctxt.listed
  BY <1>2, <1>6, <1>8, <1>11 DEF Enter, Turn, Parses, ParserType, ContextType
<1>13. Inside(at, k)'
  <2>1. Position' = at[k] + Block + ctxt'.processed
    BY <1>3, <1>4, <1>6, <1>7, <1>12
  <2>3. j \in Components(Sent, k)
    <3>1. ctxt.listed = Contents[Sent].listed
      BY <1>5 DEF Turn, InPhase, InFiles
    <3> QED BY <1>2, <1>8, <3>1 DEF Components
  <2>2. ctxt'.processed <= ctxt'.size /\ (ctxt'.size # 0 => ctxt'.processed # ctxt'.size)
    BY <1>8, <1>12
  <2> QED BY <1>9, <1>10, <1>12, <2>1, <2>2, <2>3 DEF Inside
<1>14. InPhase(at)'
  <2>1. ctxt.listed = Contents[Sent].listed
    BY <1>5 DEF Turn, InPhase, InFiles
  <2> QED BY <1>5, <1>10, <1>12, <1>13, <2>1 DEF InPhase, InFiles
<1>15. Skips
  <2>1. \A i \in 1..Block : Source[i][2] # "file"
    BY <1>1, <1>6, <1>7, HeaderIs
  <2>2. Block <= Len(Source)
    BY <1>1, <1>3, SourceInSync DEF Turn
  <2> QED BY <1>1, <1>3, <1>4, <2>1, <2>2, SkipsIs DEF Turn
<1> QED BY <1>4, <1>14, <1>15 DEF InSync

\* No header is refused.
LEMMA HeadersAreTaken ==
  ASSUME NEW at, Turn(at)
  PROVE  ~HeaderFails
<1> SUFFICES ASSUME HeaderFails PROVE FALSE
  OBVIOUS
<1>1. /\ AtHeader /\ Collected /\ Len(Source) >= Block
      /\ ~(~IsTarHeader(Source) /\ IsZero(Source))
      /\ ~(IsListHeader(Source) /\ ctxt.num_files = 0)
      /\ Listed(Source) = {}
  BY DEF HeaderFails, AtHeader, Ready
<1>2. ~(Position \in {at[Files(Sent) + 1], at[Files(Sent) + 1] + Block})
  BY <1>1, ZerosAre
<1>3. CASE Position = at[0] /\ ctxt.num_files = 0
  <2>1. 0 \in 0..Files(Sent)
    BY LayoutIs DEF Turn, Parses
  <2> QED BY <1>1, <1>3, <2>1, HeaderIs DEF IsListHeader, Names
<1>4. ASSUME ctxt.parsed, NEW k \in 1..Files(Sent), Position = at[k] PROVE FALSE
  <2>1. k \in 0..Files(Sent) /\ k # 0
    BY LayoutIs DEF Turn, Parses
  <2>2. IsTarHeader(Source) /\ Source[1] = <<Sent, "header", k, 0>>
    BY <1>1, <1>4, <2>1, HeaderIs
  <2>3. PICK j \in DOMAIN Contents[Sent].listed :
           /\ Contents[Sent].listed[j].name = Contents[Sent].files[k].name
           /\ Contents[Sent].listed[j].size = Contents[Sent].files[k].size
    BY TurnIs
  <2>4. HeaderFile(Source) = Contents[Sent].files[k]
    BY <2>2 DEF HeaderFile
  <2>5. ctxt.listed = Contents[Sent].listed
    BY <1>4 DEF Turn, InPhase, InFiles
  <2>6. j \in Listed(Source)
    BY <2>1, <2>2, <2>3, <2>4, <2>5 DEF Listed
  <2> QED BY <1>1, <2>6
<1> QED BY <1>1, <1>2, <1>3, <1>4, AtHeaderIs

\* What the parser has where it expects the list.
LEMMA ListIs ==
  ASSUME NEW at, Turn(at), AtList
  PROVE  /\ Collected /\ ctxt.state = "DATA" /\ ~ctxt.parsed /\ Position = Block
         /\ ctxt.size = SizeOf(Sent, 0) /\ ctxt.size \in Nat /\ ctxt.size <= 2 * Block
         /\ coalesce.needs \in {0, RoundUp(ctxt.size)}
         /\ Source[1][1] = Sent
         /\ \A i \in 1..ctxt.size : i <= Len(Source) => Source[i] = <<Sent, "list", 0, i - 1>>
<1>1. Collected /\ ctxt.state = "DATA" /\ ~ctxt.parsed
  BY DEF AtList, Ready
<1>2. Position = Block /\ ctxt.size = SizeOf(Sent, 0) /\ coalesce.needs \in {0, RoundUp(ctxt.size)}
  BY <1>1 DEF Turn, InPhase, InList
<1>3. ctxt.size \in Nat /\ ctxt.size <= 2 * Block
  BY <1>2, TurnIs DEF Turn, Parses, ParserType, ContextType
<1>4. Block \in Nat \ {0}
  BY BlockAssumption
<1>5. /\ Len(Source) \in Nat \ {0} /\ Position + Len(Source) <= Len(Bytes[Sent])
      /\ \A i \in 1..Len(Source) : Source[i] = Bytes[Sent][Position + i]
  BY <1>1, SourceInSync DEF Turn
<1>6. PICK m \in Nat : m = Files(Sent)
  BY LayoutIs DEF Turn, Parses
<1>7. 0 \in 0..m /\ at[0] = 0
  BY <1>6, LayoutIs DEF Turn, Parses
<1>8. \A i \in 1..ctxt.size : Bytes[Sent][Block + i] = <<Sent, "list", 0, i - 1>>
  <2>1. \A i \in 1..SizeOf(Sent, 0) : Bytes[Sent][at[0] + Block + i] = <<Sent, KindOf(0), 0, i - 1>>
    BY <1>6, <1>7 DEF Turn, Layout
  <2>2. at[0] + Block = Block
    BY <1>4, <1>7
  <2> QED BY <1>2, <2>1, <2>2 DEF KindOf
<1>9. \A i \in 1..ctxt.size : i <= Len(Source) => Source[i] = <<Sent, "list", 0, i - 1>>
  <2> SUFFICES ASSUME NEW i \in 1..ctxt.size, i <= Len(Source) PROVE Source[i] = <<Sent, "list", 0, i - 1>>
    OBVIOUS
  <2>1. i \in 1..Len(Source)
    BY <1>3, <1>5
  <2> QED BY <1>2, <1>5, <1>8, <2>1
<1>10. Source[1][1] = Sent
  <2>1. Source[1] = Bytes[Sent][Block + 1]
    BY <1>2, <1>5
  <2>2. CASE ctxt.size # 0
    <3>1. 1 \in 1..ctxt.size
      BY <1>3, <2>2
    <3> QED BY <1>8, <2>1, <3>1
  <2>3. CASE ctxt.size = 0
    <3>1. at[1] = Block
      <4>1. at[0 + 1] = at[0] + Block + RoundUp(SizeOf(Sent, 0))
        BY <1>6, <1>7 DEF Turn, Layout
      <4>2. RoundUp(SizeOf(Sent, 0)) = 0
        BY <1>2, <2>3, ListRounds
      <4> QED BY <1>4, <1>7, <4>1, <4>2
    <3>2. CASE m = 0
      <4>1. \A i \in 1..(2 * Block) : Bytes[Sent][at[m + 1] + i] = <<Sent, "zero", 0, i - 1>>
        BY <1>6 DEF Turn, Layout
      <4>2. 1 \in 1..(2 * Block) /\ at[m + 1] = Block
        BY <1>4, <3>1, <3>2
      <4> QED BY <2>1, <4>1, <4>2
    <3>3. CASE m # 0
      <4>1. 1 \in 0..m /\ 1 \in 1..Block
        BY <1>4, <1>6, <3>3
      <4>2. \A i \in 1..Block : Bytes[Sent][at[1] + i] = <<Sent, "header", 1, i - 1>>
        BY <1>6, <4>1 DEF Turn, Layout
      <4> QED BY <2>1, <3>1, <4>1, <4>2
    <3> QED BY <3>2, <3>3
  <2> QED BY <2>2, <2>3
<1> QED BY <1>1, <1>2, <1>3, <1>9, <1>10

\* The whole list is the list, and no list is too large.
LEMMA ListsAreTaken ==
  ASSUME NEW at, Turn(at)
  PROVE  ~ListFails /\ ~ListTooLarge
<1>1. ASSUME ListFails PROVE FALSE
  <2>1. AtList /\ Len(Source) >= ctxt.size /\ ~IsList(Source, ctxt.size)
    BY <1>1 DEF ListFails
  <2>2. /\ ctxt.size \in Nat /\ Source[1][1] = Sent
        /\ \A i \in 1..ctxt.size : i <= Len(Source) => Source[i] = <<Sent, "list", 0, i - 1>>
    BY <2>1, ListIs
  <2>3. Source \in Seq(AnyByte) /\ Len(Source) \in Nat
    BY <2>1, SourceIs DEF Turn, Parses, AtList, Ready
  <2> DEFINE n == ctxt.size
             list == SubSeq(Source, 1, n)
             part == Part(Sent, "list", 0, n)
  <2>4. list \in Seq(AnyByte) /\ Len(list) = n /\ \A i \in 1..n : list[i] = Source[i]
    BY <2>1, <2>2, <2>3
  <2>5. part \in Seq(AnyByte) /\ Len(part) = n /\ \A i \in 1..n : part[i] = <<Sent, "list", 0, i - 1>>
    BY <2>2, PartIs DEF Turn, Parses
  <2>6. \A i \in 1..n : list[i] = part[i]
    <3> HIDE DEF list, part
    <3>1. \A i \in 1..n : i <= Len(Source)
      BY <2>1, <2>2, <2>3
    <3> QED BY <2>2, <2>4, <2>5, <3>1
  <2>7. list = part
    <3> HIDE DEF list, part
    <3> QED BY <2>4, <2>5, <2>6
  <2>8. Contents[Sent].good
    BY TurnIs
  <2> QED BY <2>1, <2>2, <2>7, <2>8 DEF IsList
<1>2. ASSUME ListTooLarge PROVE FALSE
  <2>1. AtList /\ RoundUp(ctxt.size) > 2 * Block
    BY <1>2 DEF ListTooLarge
  <2>2. ctxt.size \in Nat /\ ctxt.size <= 2 * Block
    BY <2>1, ListIs
  <2>3. RoundUp(ctxt.size) <= 2 * Block /\ RoundUp(ctxt.size) \in Nat
    BY <2>2, ListRounds, RoundUpIs
  <2> QED BY <2>1, <2>3, BlockAssumption
<1> QED BY <1>1, <1>2

\* The list leads to the first file.
LEMMA ListFollows ==
  ASSUME NEW at, Turn(at), ListParsed, UNCHANGED <<peer, last_offset>>
  PROVE  InSync(at)' /\ Skips
<1>1. AtList /\ Len(Source) >= ctxt.size /\ Consume(ctxt.size)
  BY DEF ListParsed
<1>2. /\ Collected /\ Position = Block /\ Source[1][1] = Sent
      /\ ctxt.size = SizeOf(Sent, 0) /\ ctxt.size \in Nat
      /\ coalesce.needs \in {0, RoundUp(ctxt.size)}
  BY <1>1, ListIs
<1>3. UsesCoalesce => ctxt.size # 0
  <2> SUFFICES ASSUME ctxt.size = 0 PROVE ~UsesCoalesce
    OBVIOUS
  <2>1. RoundUp(ctxt.size) = 0
    BY <1>2, ListRounds
  <2> QED BY <1>2, <2>1 DEF UsesCoalesce
<1>4. CallInSync' /\ BufferInSync' /\ Position' = Position + ctxt.size
  <2>1. ctxt.size <= Len(Source)
    BY <1>1, <1>2, SourceInSync DEF Turn
  <2> QED BY <1>1, <1>2, <1>3, <2>1, ConsumeMoves DEF Turn
<1>5. ctxt'.parsed /\ ctxt'.state = "FIND_HEADER" /\ ctxt'.listed = Contents[Sent].listed
  <2>1. ctxt' = [ctxt EXCEPT !.parsed = TRUE, !.state = "FIND_HEADER", !.listed = Contents[Sent].listed]
    BY <1>2 DEF ListParsed
  <2> QED BY <2>1 DEF Turn, Parses, ParserType, ContextType
<1>6. Sent' = Sent
  BY DEF Sent
<1>7. PICK m \in Nat : m = Files(Sent)
  BY LayoutIs DEF Turn, Parses
<1>8. /\ at[0] = 0 /\ 0 + 1 = 1 /\ at[1] \in Nat
      /\ at[0] + Block + SizeOf(Sent, 0) <= at[1]
  <2>1. 0 \in 0..m /\ 0 + 1 = 1
    BY <1>7
  <2> QED BY <1>7, <2>1, LayoutIs DEF Turn, Parses
<1>9. Before(at, 1)' /\ 1 \in 1..(m + 1)
  <2>1. Position' = at[0] + Block + SizeOf(Sent, 0)
    BY <1>2, <1>4, <1>8, BlockAssumption
  <2>2. EndOf(at, 1 - 1)' = Position'
    <3>1. 1 - 1 = 0
      OBVIOUS
    <3> QED BY <1>6, <2>1, <3>1 DEF EndOf
  <2>3. Position' \in Nat
    BY <1>2, <1>4, BlockAssumption
  <2>4. EndOf(at, 1 - 1)' <= Position' /\ Position' <= at[1]
    BY <1>8, <2>1, <2>2, <2>3
  <2> QED BY <1>7, <2>4 DEF Before
<1>10. InPhase(at)'
  BY <1>5, <1>6, <1>7, <1>9 DEF InPhase, InFiles
<1>11. Skips
  <2>1. PICK n \in Nat : n = ctxt.size /\ n <= Len(Source) /\ Len(Source) \in Nat
    BY <1>1, <1>2, SourceInSync DEF Turn
  <2>2. ASSUME NEW i \in 1..n PROVE Source[i][2] # "file"
    <3>1. i <= Len(Source)
      BY <2>1
    <3>2. Source[i] = <<Sent, "list", 0, i - 1>>
      BY <1>1, <2>1, <3>1, ListIs
    <3> QED BY <3>2
  <2> QED BY <1>2, <1>4, <2>1, <2>2, SkipsIs DEF Turn
<1> QED BY <1>4, <1>10, <1>11 DEF InSync

\* The parser asks for the list: so far it has nothing in its buffer.
LEMMA AskListFollows ==
  ASSUME NEW at, Turn(at), AskForList, UNCHANGED <<peer, last_offset>>
  PROVE  InSync(at)' /\ Skips
<1>1. /\ AtList /\ Len(Source) < ctxt.size /\ call' = call /\ ctxt' = ctxt
      /\ coalesce' = [coalesce EXCEPT !.needs = RoundUp(ctxt.size)]
  BY DEF AskForList
<1>2. /\ Collected /\ ctxt.state = "DATA" /\ ~ctxt.parsed /\ Position = Block
      /\ ctxt.size = SizeOf(Sent, 0) /\ ctxt.size \in Nat
      /\ coalesce.needs \in {0, RoundUp(ctxt.size)}
  BY <1>1, ListIs
<1>3. RoundUp(ctxt.size) \in Nat /\ ctxt.size <= RoundUp(ctxt.size)
      /\ (RoundUp(ctxt.size) = 2 * Block => ctxt.size > Block)
  BY <1>2, RoundUpIs, ListRounds
<1>4. coalesce.needs = 0
  <2> SUFFICES ASSUME coalesce.needs # 0 PROVE FALSE
    OBVIOUS
  <2>1. coalesce.needs = RoundUp(ctxt.size) /\ UsesCoalesce
    BY <1>2, <1>3 DEF UsesCoalesce
  <2>2. Len(Source) = coalesce.needs /\ Len(Source) \in Nat
    BY <1>2, <2>1, SourceInSync DEF Turn
  <2> QED BY <1>1, <1>2, <1>3, <2>1, <2>2
<1>5. /\ coalesce'.bytes = coalesce.bytes /\ coalesce'.at = coalesce.at
      /\ coalesce'.needs = RoundUp(ctxt.size)
      /\ Sent' = Sent /\ Reached' = Reached
  BY <1>1 DEF Turn, Parses, ParserType, CoalesceType, Sent, Reached, Idle, Now
<1>6. Position' = Position
  BY <1>5 DEF Position
<1>7. CallInSync' /\ BufferInSync'
  BY <1>1, <1>2, <1>3, <1>5, <1>6 DEF Turn, Parses, CallInSync, BufferInSync, Idle, BlockLen
<1>8. InPhase(at)'
  BY <1>1, <1>2, <1>5, <1>6 DEF Turn, InPhase, InList
<1> QED BY <1>6, <1>7, <1>8 DEF InSync, Skips

\* What the parser has in the data of a file.
LEMMA FileIs ==
  ASSUME NEW at, NEW k, Turn(at), AtFile, k \in 1..Files(Sent), Inside(at, k)
  PROVE  /\ Collected /\ Position \in Nat /\ at[k] \in Nat /\ Len(Source) \in Nat \ {0}
         /\ ctxt.size \in Nat /\ ctxt.processed \in Nat /\ ctxt.size <= SlotSize
         /\ FileOffset = ctxt.processed
         /\ FileBytes = Least(ctxt.size - ctxt.processed, Len(Source))
         /\ FileBytes \in Nat /\ ctxt.processed + FileBytes <= ctxt.size /\ FileBytes <= Len(Source)
         /\ FileBytes = 0 => ctxt.size = 0 /\ ~UsesCoalesce
<1>1. Collected
  BY DEF AtFile, Ready
<1>2. SourceAt = Position /\ Position \in Nat /\ Len(Source) \in Nat \ {0}
  BY <1>1, SourceInSync DEF Turn
<1>3. k \in 0..Files(Sent) /\ at[k] \in Nat
  BY LayoutIs DEF Turn, Parses
<1>4. /\ ctxt.size = SizeOf(Sent, k) /\ ctxt.size \in Nat /\ ctxt.size <= SlotSize
      /\ SizeOf(Sent, 0) > Block => ctxt.size # 0
  BY TurnIs DEF Inside
<1>5. PICK p, z \in Nat : p = ctxt.processed /\ z = ctxt.size /\ p <= z /\ (z # 0 => p # z)
  BY <1>4 DEF Inside, Turn, Parses, ParserType, ContextType
<1>6. SourceAt - (ctxt.header_offset + Block) = p
  BY SMTT(30), <1>2, <1>3, <1>5, BlockAssumption DEF Inside
<1>7. z <= SlotSize /\ p <= SlotSize /\ z - p \in Nat /\ z - p <= SlotSize
  BY <1>4, <1>5, BlockAssumption
<1>8. FileOffset = p
  BY <1>6, <1>7, FitsWord DEF FileOffset
<1>9. FileBytes = Least(z - p, Len(Source))
  <2>1. (ctxt.size - FileOffset) % Word = z - p
    BY <1>5, <1>7, <1>8, FitsWord
  <2> QED BY <2>1 DEF FileBytes
<1>10. FileBytes \in Nat /\ p + FileBytes <= z /\ FileBytes <= Len(Source)
  <2>1. PICK l \in Nat : l = Len(Source)
    BY <1>2
  <2>2. FileBytes = IF z - p < l THEN z - p ELSE l
    BY <1>9, <2>1 DEF Least
  <2>3. p \in Nat /\ z - p \in Nat /\ p + (z - p) = z
    BY <1>5, <1>7
  <2> QED BY <2>1, <2>2, <2>3
<1>11. ASSUME FileBytes = 0 PROVE z = 0 /\ ~UsesCoalesce
  <2>1. z = 0
    BY <1>2, <1>5, <1>7, <1>9, <1>11 DEF Least
  <2>2. coalesce.needs # 2 * Block
    BY <1>4, <1>5, <2>1 DEF Turn, Parses, BufferInSync
  <2>3. coalesce.needs # Block
    BY DEF Inside
  <2>4. coalesce.needs = 0
    BY <2>2, <2>3 DEF Turn, Parses, ParserType, CoalesceType
  <2> QED BY <2>1, <2>4 DEF UsesCoalesce
<1> QED BY <1>1, <1>2, <1>3, <1>4, <1>5, <1>8, <1>9, <1>10, <1>11

\* A piece of a file that is done with leads on in the file, or behind it.
LEMMA FileFollows ==
  ASSUME NEW at, Turn(at), AtFile, Processed(FileBytes), Consume(FileBytes),
         UNCHANGED <<peer, last_offset>>
  PROVE  InSync(at)' /\ Position' = Position + FileBytes
<1>1. ctxt.state = "DATA" /\ ctxt.parsed
  BY DEF AtFile, Ready
<1>2. PICK k \in 1..Files(Sent) : Inside(at, k)
  BY <1>1 DEF Turn, InPhase, InFiles
<1>3. PICK f, p, z, a, c \in Nat :
         /\ f = FileBytes /\ p = ctxt.processed /\ z = ctxt.size /\ a = at[k] /\ c = Position
         /\ p + f <= z /\ f <= Len(Source) /\ Collected /\ (UsesCoalesce => f # 0)
  BY <1>2, FileIs
<1>4. /\ CallInSync' /\ BufferInSync' /\ Position' = c + f
      /\ coalesce'.needs = 0 \/ coalesce'.needs = coalesce.needs
  BY <1>3, ConsumeMoves DEF Turn
<1>5. /\ ctxt'.processed = p + f /\ ctxt'.parsed = TRUE /\ ctxt'.listed = ctxt.listed
      /\ ctxt'.size = z /\ ctxt'.header_offset = ctxt.header_offset /\ ctxt'.current = ctxt.current
      /\ ctxt'.state = IF p + f >= z THEN "FIND_HEADER" ELSE "DATA"
  BY <1>1, <1>3 DEF Processed, Turn, Parses, ParserType, ContextType
<1>6. Sent' = Sent
  BY DEF Sent
<1>7. /\ ctxt.header_offset = a /\ z = SizeOf(Sent, k) /\ c = a + Block + p
      /\ ctxt.current \in Components(Sent, k) /\ coalesce.needs # Block
  BY <1>2, <1>3 DEF Inside
<1>8. Block \in Nat \ {0}
  BY BlockAssumption
<1>9. ctxt.listed = Contents[Sent].listed
  BY <1>1 DEF Turn, InPhase, InFiles
<1>10. CASE p + f >= z
  <2>1. k \in 0..Files(Sent) /\ k + 1 \in 1..(Files(Sent) + 1) /\ (k + 1) - 1 = k
    BY LayoutIs DEF Turn, Parses
  <2>2. at[k] + Block + SizeOf(Sent, k) <= at[k + 1]
    BY <2>1, LayoutIs DEF Turn, Parses
  <2>3. Position' = a + Block + z
    <3>1. p \in Nat /\ f \in Nat /\ z \in Nat /\ a \in Nat /\ Block \in Nat
      BY <1>8
    <3>2. p + f <= z /\ p + f >= z
      BY <1>3, <1>10
    <3>3. p + f = z
      BY <3>1, <3>2
    <3>4. c + f = (a + Block + p) + f
      BY <1>7
    <3>5. (a + Block + p) + f = a + Block + (p + f)
      BY <3>1
    <3> QED BY <1>4, <3>3, <3>4, <3>5
  <2>4. EndOf(at, (k + 1) - 1)' = Position'
    BY <1>3, <1>6, <1>7, <2>1, <2>3 DEF EndOf
  <2>5. Position' <= at[k + 1] /\ Position' \in Nat
    <3>1. a + Block + z \in Nat
      BY <1>3, <1>8
    <3>2. at[k] + Block + SizeOf(Sent, k) = a + Block + z
      BY <1>3, <1>7
    <3>3. a + Block + z <= at[k + 1]
      BY <2>2, <3>2
    <3> QED BY <2>3, <3>1, <3>3
  <2>6. Before(at, k + 1)'
    BY <2>4, <2>5 DEF Before
  <2>7. ctxt'.state = "FIND_HEADER"
    BY <1>5, <1>10
  <2>8. InPhase(at)'
    BY <1>5, <1>6, <1>9, <2>1, <2>6, <2>7 DEF InPhase, InFiles
  <2> QED BY <1>3, <1>4, <2>8 DEF InSync
<1>11. CASE ~(p + f >= z)
  <2>1. Position' = a + Block + (p + f)
    <3>1. (a + Block + p) + f = a + Block + (p + f)
      BY <1>8
    <3> QED BY <1>4, <1>7, <3>1, Zenon
  <2>2. p + f <= z /\ p + f # z
    BY <1>3, <1>11
  <2>3. Inside(at, k)'
    <3>1. /\ ctxt'.header_offset = at[k] /\ ctxt'.size = SizeOf(Sent', k)
          /\ ctxt'.current \in Components(Sent', k)
      BY <1>3, <1>5, <1>6, <1>7
    <3>2. /\ ctxt'.processed <= ctxt'.size /\ ctxt'.processed # ctxt'.size
          /\ Position' = at[k] + Block + ctxt'.processed
      BY <1>3, <1>5, <2>1, <2>2
    <3>3. coalesce'.needs # Block
      BY <1>4, <1>7, <1>8
    <3> QED BY <3>1, <3>2, <3>3 DEF Inside
  <2>4. InPhase(at)'
    BY <1>5, <1>6, <1>9, <1>11, <2>3 DEF InPhase, InFiles
  <2> QED BY <1>3, <1>4, <2>4 DEF InSync
<1> QED BY <1>10, <1>11

\* What is written in a slot's bounds ends in them, to the end of its last row.
LEMMA PieceFits ==
  ASSUME NEW offset, NEW n, offset \in Nat, n \in Nat, offset + n <= SlotSize
  PROVE  Fits(offset, n)
<1>1. Row \in Nat \ {0} /\ SlotSize \in Nat /\ SlotSize % Row = 0
  BY BlockAssumption
<1>2. CASE n % Row = 0
  BY <1>2 DEF Fits, StoreEnd
<1>3. CASE n % Row # 0
  <2>1. PICK q, r \in Nat : n = q * Row + r /\ r # 0
    <3>1. n \div Row \in Nat /\ n % Row \in 0..(Row - 1) /\ n = (n \div Row) * Row + (n % Row)
      BY <1>1, DivMod
    <3>2. n % Row \in Nat
      BY <1>1, <3>1
    <3> QED BY <1>3, <3>1, <3>2
  <2>2. n \div Row \in Nat /\ n % Row \in Nat /\ n = (n \div Row) * Row + (n % Row)
    <3>1. n \div Row \in Nat /\ n % Row \in 0..(Row - 1) /\ n = (n \div Row) * Row + (n % Row)
      BY <1>1, DivMod
    <3> QED BY <1>1, <3>1
  <2>3. PICK x \in Nat : x = LastPart(offset, n) /\ x < SlotSize
    <3>1. PICK y \in Nat : y = (n \div Row) * Row
      BY <1>1, <2>2
    <3>2. offset + y < offset + n
      BY <1>3, <2>2, <3>1
    <3> QED BY <1>1, <3>1, <3>2 DEF LastPart
  <2>4. PICK d \in Nat : d = x \div Row /\ d * Row <= x /\ d * Row \in Nat
    <3>1. x \div Row \in Nat /\ x % Row \in 0..(Row - 1) /\ x = (x \div Row) * Row + (x % Row)
      BY <1>1, DivMod
    <3>2. PICK y \in Nat : y = (x \div Row) * Row
      BY <1>1, <3>1
    <3> QED BY <1>1, <3>1, <3>2
  <2>5. PICK e \in Nat : SlotSize = e * Row
    <3>1. SlotSize \div Row \in Nat /\ SlotSize = (SlotSize \div Row) * Row + (SlotSize % Row)
      BY <1>1, DivMod
    <3>2. SlotSize = (SlotSize \div Row) * Row
      BY <1>1, <3>1
    <3> QED BY <3>1, <3>2
  <2>6. d + 1 <= e
    <3> SUFFICES ASSUME e <= d PROVE FALSE
      BY <2>4, <2>5
    <3>1. e * Row <= d * Row
      BY <1>1, <2>4, <2>5
    <3> QED BY <1>1, <2>3, <2>4, <2>5, <3>1
  <2>7. (d + 1) * Row <= e * Row
    BY <1>1, <2>4, <2>5, <2>6
  <2>8. StoreEnd(offset, n) = (d + 1) * Row
    BY <1>3, <2>3, <2>4 DEF StoreEnd, RowEnd
  <2> QED BY <2>5, <2>7, <2>8 DEF Fits
<1> QED BY <1>2, <1>3

\* No file is refused.
LEMMA FilesAreTaken ==
  ASSUME NEW at, Turn(at)
  PROVE  ~FileFails
<1> SUFFICES ASSUME FileFails PROVE FALSE
  OBVIOUS
<1>1. /\ AtFile /\ ctxt.state = "DATA" /\ ctxt.parsed
      /\ ~(KnownType(FileType) /\ Fits(FileOffset, FileBytes))
  BY DEF FileFails, AtFile, Ready
<1>2. PICK k \in 1..Files(Sent) : Inside(at, k)
  BY <1>1 DEF Turn, InPhase, InFiles
<1>3. PICK f, p, z \in Nat : /\ f = FileBytes /\ p = FileOffset /\ z = ctxt.size
                             /\ p + f <= z /\ z <= SlotSize
  BY <1>1, <1>2, FileIs
<1>4. p + f <= SlotSize
  BY <1>3, BlockAssumption
<1>5. Fits(FileOffset, FileBytes)
  BY <1>3, <1>4, PieceFits
<1>6. KnownType(FileType)
  <2>1. ctxt.listed = Contents[Sent].listed /\ ctxt.current \in DOMAIN ctxt.listed
    BY <1>1, <1>2 DEF Turn, InPhase, InFiles, Inside, Components
  <2> QED BY <2>1, TurnIs DEF FileType
<1> QED BY <1>1, <1>5, <1>6

\* A call that used its block up was stored.
LEMMA ReturnFollows ==
  ASSUME NEW at, ParserType, Sent \in Streams, InSync(at), ParseReturns, UNCHANGED <<peer, last_offset>>
  PROVE  InSync(at)' /\ Skips
<1>1. /\ call.status = "parse" /\ Rest = <<>> /\ ctxt' = ctxt /\ coalesce' = coalesce
      /\ call.base = 0
  BY DEF ParseReturns, parser, InSync, CallInSync, Idle
<1>2. PICK c, l \in Nat : c = call.consumed /\ l = Len(call.block) /\ c <= l
  <2>1. call.base + call.consumed <= Len(call.block) /\ call.consumed \in Nat /\ call.block \in Seq(AnyByte)
    BY DEF ParserType, CallType
  <2> QED BY <1>1, <2>1
<1>3. c = l
  <2> SUFFICES ASSUME c < l PROVE FALSE
    BY <1>2
  <2>1. Rest = SubSeq(call.block, c + 1, l)
    <3>1. call.base + call.consumed + 1 = c + 1
      BY <1>1, <1>2
    <3> QED BY <1>2, <3>1 DEF Rest, From
  <2>2. call.block \in Seq(AnyByte)
    BY DEF ParserType, CallType
  <2>3. \A i \in (c + 1)..l : call.block[i] \in AnyByte
    BY <1>2, <2>2
  <2>4. Len(Rest) = IF c + 1 <= l THEN l - (c + 1) + 1 ELSE 0
    BY <1>2, <2>1, <2>3, SubSeqProperties
  <2>5. Len(Rest) = 0
    BY <1>1
  <2> QED BY <1>2, <2>4, <2>5
<1>4. call' = [call EXCEPT !.status = "stored"]
  BY <1>2, <1>3 DEF ParseReturns
<1>5. /\ call'.status = "stored" /\ call'.base = call.base /\ call'.consumed = call.consumed
      /\ call'.offset = call.offset /\ call'.block = call.block
  BY <1>4 DEF ParserType, CallType
<1>6. Sent' = Sent /\ Reached' = Reached /\ BlockLen' = BlockLen
  BY <1>1, <1>5 DEF Sent, Reached, Idle, Now, BlockLen
<1>7. Position' = Position
  BY <1>1, <1>6 DEF Position
<1>8. CallInSync'
  BY <1>1, <1>2, <1>3, <1>5, <1>6 DEF InSync, CallInSync, Idle, BlockLen
<1>9. BufferInSync' /\ InPhase(at)'
  BY <1>1, <1>6, <1>7 DEF InSync, BufferInSync, InPhase, InList, InFiles, Before, Inside, EndOf
<1> QED BY <1>7, <1>8, <1>9 DEF InSync, Skips

\* Unless the block is used up, a turn goes on with what comes next in the archive.
LEMMA TurnComes ==
  ASSUME NEW at, ParserType, Sent \in Streams, last_offset \in Nat, InSync(at), Layout(Sent, at),
         Regular, ProperArchives, Parse, ~ParseReturns
  PROVE  Turn(at)
<1>1. Parsing
  BY DEF Parse, Collect, AskForBlock, SkipPadding, SkipZeros, ListHeader, FileHeader,
     HeaderFails, ListParsed, ListFails, AskForList, ListTooLarge, FileWritten, FileNothing,
     FileFails, AtHeader, AtList, AtFile, Ready
<1> QED BY <1>1 DEF Turn, Parses, InSync

\* Every turn of the parser follows the archive.
LEMMA ParseFollows ==
  ASSUME TypeInv, Shapes, ProperArchives, Follows, ParseStep
  PROVE  Follows'
<1>1. /\ Parse /\ peer' = peer /\ last_offset' = last_offset /\ crc' = crc
  BY DEF ParseStep, device
<1>2. ParseLeaves
  BY <1>1, ParseIs
<1>3. ~Idle /\ ~Idle' /\ is_tar' = is_tar
  BY <1>2 DEF ParseLeaves, Idle
<1>4. Begins'
  BY <1>1, <1>3 DEF Follows, Begins, Sent
<1>5. Regular' = Regular /\ Sent' = Sent
  BY <1>1 DEF Regular, TakenApart, Sent
<1>6. ASSUME Regular, NEW at, Layout(Sent, at) PROVE InSync(at)'
  <2>1. InSync(at) /\ Sent \in Streams /\ ParserType /\ last_offset \in Nat
    BY <1>6 DEF Follows, Begins, Sync, Regular, TypeInv, DeviceType
  <2>2. CASE ParseReturns
    BY <1>1, <2>1, <2>2, ReturnFollows
  <2>3. CASE ~ParseReturns
    <3>2. Turn(at)
      BY <1>1, <1>6, <2>1, <2>3, TurnComes
    <3>3. CASE Collect \/ AskForBlock \/ SkipPadding
      BY <1>1, <3>2, <3>3, CollectFollows, AskBlockFollows, PaddingFollows
    <3>4. CASE SkipZeros \/ ListHeader \/ FileHeader
      BY <1>1, <3>2, <3>4, ZerosFollow, ListHeaderFollows, FileHeaderFollows
    <3>5. CASE ListParsed \/ AskForList
      BY <1>1, <3>2, <3>5, ListFollows, AskListFollows
    <3>6. CASE FileWritten
      <4>1. AtFile /\ Processed(FileBytes) /\ Consume(FileBytes)
        BY <3>6 DEF FileWritten
      <4> QED BY <1>1, <3>2, <4>1, FileFollows
    <3>7. CASE FileNothing
      <4>1. AtFile /\ Processed(FileBytes) /\ Consume(FileBytes)
        BY <3>7 DEF FileNothing
      <4> QED BY <1>1, <3>2, <4>1, FileFollows
    <3>8. ~HeaderFails /\ ~ListFails /\ ~ListTooLarge /\ ~FileFails
      BY <3>2, HeadersAreTaken, ListsAreTaken, FilesAreTaken
    <3> QED BY <1>1, <2>3, <3>3, <3>4, <3>5, <3>6, <3>7, <3>8 DEF Parse
  <2> QED BY <2>2, <2>3
<1>7. Sync'
  <2> SUFFICES ASSUME Regular' PROVE is_tar' /\ \A at : Layout(Sent', at) => InSync(at)'
    BY DEF Sync
  <2> QED BY <1>3, <1>5, <1>6 DEF Follows, Sync
<1> QED BY <1>4, <1>7 DEF Follows

\* The next piece of the archive.
LEMMA PieceIs ==
  ASSUME NEW n, n \in 1..SlotSize, TypeInv, Sending(n), Sent \in Streams
  PROVE  /\ n \in Nat \ {0} /\ Idle /\ peer.sent \in Nat
         /\ Len(Bytes[Sent]) \in Nat /\ peer.sent + n <= Len(Bytes[Sent])
         /\ Len(Piece(n)) = n
         /\ \A i \in 1..n : Piece(n)[i] = Bytes[Sent][peer.sent + i]
<1>1. n \in Nat \ {0} /\ Idle /\ peer.sent \in Nat
  BY BlockAssumption DEF Sending, TypeInv, PeerType
<1>2. Bytes[Sent] \in Seq(AnyByte)
  BY BytesAre
<1>3. PICK l, a \in Nat : l = Len(Bytes[Sent]) /\ a = peer.sent
  BY <1>1, <1>2
<1>4. a + n <= l
  <2>1. n <= l - a
    BY <1>3 DEF Sending, Unsent, Sent
  <2> QED BY <1>1, <1>3, <2>1
<1>5. Piece(n) = SubSeq(Bytes[Sent], a + 1, a + n)
  BY <1>3 DEF Piece, Sent
<1>6. \A i \in (a + 1)..(a + n) : Bytes[Sent][i] \in AnyByte
  BY <1>1, <1>2, <1>3, <1>4
<1>7. a + 1 \in Int /\ a + n \in Int
  BY <1>1, <1>3
<1>8. /\ Len(Piece(n)) = IF a + 1 <= a + n THEN (a + n) - (a + 1) + 1 ELSE 0
      /\ \A i \in 1..((a + n) - (a + 1) + 1) : Piece(n)[i] = Bytes[Sent][(a + 1) + i - 1]
  <2>1. /\ Len(SubSeq(Bytes[Sent], a + 1, a + n))
             = IF a + 1 <= a + n THEN (a + n) - (a + 1) + 1 ELSE 0
        /\ \A i \in 1..((a + n) - (a + 1) + 1) :
             SubSeq(Bytes[Sent], a + 1, a + n)[i] = Bytes[Sent][(a + 1) + i - 1]
    BY <1>6, <1>7, SubSeqProperties
  <2> QED BY <1>5, <2>1
<1>9. (a + n) - (a + 1) + 1 = n /\ a + 1 <= a + n
  BY <1>1, <1>3
<1>10. ASSUME NEW i \in 1..n PROVE Piece(n)[i] = Bytes[Sent][a + i]
  <2>1. (a + 1) + i - 1 = a + i
    BY <1>1, <1>3
  <2> QED BY <1>8, <1>9, <2>1
<1> QED BY <1>1, <1>3, <1>4, <1>8, <1>9, <1>10

\* A piece begins the archive, or goes on with it.
LEMMA WriteFollows ==
  ASSUME TypeInv, Shapes, Follows, NEW n, n \in 1..SlotSize, Write(n)
  PROVE  /\ Follows'
         /\ Regular' => /\ is_tar'
                        /\ IF peer.first = 0 THEN Position' = 0 ELSE Regular /\ Position' = Position
<1> DEFINE Moves == IF peer.first = 0 THEN Position' = 0 ELSE Regular /\ Position' = Position
<1>1. /\ Sending(n) /\ last_offset' = last_offset /\ crc' = crc
      /\ ArchiveBlock(last_offset, Piece(n)) \/ ImageBlock(last_offset, Piece(n))
      /\ Idle
  BY DEF Write, Sending
<1>2. /\ Sent' = Sent /\ peer'.sent = peer.sent
      /\ peer'.first = IF peer.first = 0 THEN n ELSE peer.first
      /\ peer'.clean => peer.clean
      /\ peer.first # 0 => peer' = peer
  BY DEF Write, TypeInv, PeerType, Sent
<1>3. n # 0
  BY BlockAssumption
<1>4. Begins'
  BY <1>1, <1>2, <1>3 DEF Follows, Begins
<1>5. ASSUME Regular', NEW at, Layout(Sent, at) PROVE is_tar' /\ InSync(at)' /\ Moves
  <2>1. /\ peer.clean /\ Sent \in Streams /\ peer.sent = last_offset
        /\ Contents[Sent].archive /\ peer'.first >= HeaderSize /\ last_offset \in Nat
    BY <1>1, <1>2, <1>5 DEF Regular, TakenApart, Follows, Begins, Sent, TypeInv, DeviceType
  <2>2. /\ n \in Nat \ {0} /\ Len(Bytes[Sent]) \in Nat /\ last_offset + n <= Len(Bytes[Sent])
        /\ Len(Piece(n)) = n
        /\ \A i \in 1..n : Piece(n)[i] = Bytes[Sent][last_offset + i]
    BY <1>1, <2>1, PieceIs
  <2> DEFINE Called == call' = Started(last_offset, Piece(n), "parse")
  <2>3. ASSUME Called
        PROVE  /\ CallInSync' /\ Reached' = last_offset
    <3>1. /\ call'.status = "parse" /\ call'.offset = last_offset /\ call'.block = Piece(n)
          /\ call'.base = 0 /\ call'.consumed = 0
      BY <2>3 DEF Started
    <3>2. ~Idle' /\ BlockLen' = n
      BY <2>2, <3>1 DEF Idle, BlockLen
    <3>3. CallInSync'
      BY <1>1, <1>2, <2>2, <3>1, <3>2 DEF CallInSync
    <3>4. Reached' = last_offset
      BY <2>1, <3>1, <3>2 DEF Reached, Now
    <3> QED BY <3>3, <3>4
  <2>4. CASE peer.first = 0
    <3>1. last_offset = 0 /\ n >= HeaderSize
      BY <1>2, <2>1, <2>4 DEF Follows, Begins
    <3>2. IsTarHeader(Piece(n))
      <4>1. HeaderSize \in Nat /\ 2 <= HeaderSize /\ HeaderSize <= Block /\ Block \in Nat
        BY BlockAssumption
      <4>2. 2 \in 1..n /\ 2 \in 1..Block
        BY <2>2, <3>1, <4>1
      <4>3. 0 \in 0..Files(Sent) /\ at[0] = 0
        BY <1>5, <2>1, LayoutIs
      <4>4. Bytes[Sent][0 + 2] = <<Sent, "header", 0, 2 - 1>>
        <5>1. \A i \in 1..Block : Bytes[Sent][at[0] + i] = <<Sent, "header", 0, i - 1>>
          BY <1>5, <4>3 DEF Layout
        <5> QED BY <4>2, <4>3, <5>1
      <4>5. Piece(n)[2] = Bytes[Sent][0 + 2]
        BY <2>2, <3>1, <4>2
      <4> QED BY <2>2, <3>1, <4>4, <4>5 DEF IsTarHeader
    <3>3. StartsArchive(last_offset, Piece(n))
      BY <3>1, <3>2 DEF StartsArchive
    <3>4. is_tar' /\ ctxt' = NewContext /\ coalesce' = NoCoalesce /\ Called
      BY <1>1, <3>3 DEF ArchiveBlock, ImageBlock
    <3>5. CallInSync' /\ Reached' = 0
      BY <2>3, <3>1, <3>4
    <3>6. Len(coalesce'.bytes) = 0 /\ coalesce'.needs = 0
      BY <3>4 DEF NoCoalesce
    <3>7. Position' = 0
      BY <3>5, <3>6 DEF Position
    <3>8. BufferInSync'
      BY <3>5, <3>6, BlockAssumption DEF BufferInSync
    <3>9. InPhase(at)'
      BY <3>4, <3>6, <3>7, BlockAssumption DEF InPhase, InList, NewContext
    <3> QED BY <2>4, <3>4, <3>5, <3>7, <3>8, <3>9 DEF InSync
  <2>5. CASE peer.first # 0
    <3>1. peer' = peer
      BY <1>2, <2>5
    <3>2. Regular
      BY <1>1, <1>5, <3>1 DEF Regular, TakenApart
    <3>3. is_tar /\ InSync(at)
      BY <1>5, <3>2 DEF Follows, Sync
    <3>4. last_offset # 0
      BY <1>1, <3>3 DEF InSync, CallInSync
    <3>5. is_tar' /\ ctxt' = ctxt /\ coalesce' = coalesce /\ Called
      BY <1>1, <3>3, <3>4 DEF ArchiveBlock, ImageBlock, StartsArchive
    <3>6. CallInSync' /\ Reached' = Reached
      BY <1>1, <2>3, <3>5 DEF Reached
    <3>7. Position' = Position
      BY <3>5, <3>6 DEF Position
    <3>8. BufferInSync' /\ InPhase(at)'
      BY <1>2, <3>3, <3>5, <3>6, <3>7
         DEF InSync, BufferInSync, InPhase, InList, InFiles, Before, Inside, EndOf
    <3> QED BY <2>5, <3>2, <3>5, <3>6, <3>7, <3>8 DEF InSync
  <2> QED BY <2>4, <2>5
<1>6. Sync' /\ (Regular' => is_tar' /\ Moves)
  <2> SUFFICES ASSUME Regular' PROVE is_tar' /\ Moves /\ \A at : Layout(Sent', at) => InSync(at)'
    BY DEF Sync
  <2>1. Sent \in Streams /\ Contents[Sent].archive
    BY <1>2 DEF Regular, TakenApart, Follows, Begins, Sent
  <2>2. \E at : Layout(Sent, at)
    BY <2>1, ArchiveIs
  <2> QED BY <1>2, <1>5, <2>2
<1> QED BY <1>4, <1>6 DEF Follows

\* A block that was stored is behind the position.
LEMMA DoneFollows ==
  ASSUME TypeInv, Follows, WriteDone
  PROVE  Follows' /\ (Regular' => Regular /\ Position' = Position)
<1>1. PICK n \in Nat : n = Len(call.block)
  BY DEF TypeInv, ParserType, CallType
<1>2. /\ call.status = "stored" /\ call' = NoCall /\ is_tar' = is_tar
      /\ ctxt' = ctxt /\ coalesce' = coalesce
      /\ last_offset' = last_offset + n
      /\ (crc' # Mixed => crc # Mixed)
      /\ peer' = [peer EXCEPT !.sent = @ + n]
  BY <1>1 DEF WriteDone, Continues, parser, NoCall
<1>3. /\ peer'.sent = peer.sent + n /\ peer'.first = peer.first /\ peer'.clean = peer.clean
      /\ Sent' = Sent /\ peer.sent \in Nat /\ last_offset \in Nat
  BY <1>2 DEF TypeInv, PeerType, DeviceType, Sent
<1>4. ~Idle /\ Idle'
  BY <1>2 DEF Idle, NoCall
<1>5. Begins'
  <2>1. peer.first # 0
    BY <1>4 DEF Follows, Begins
  <2>2. peer'.clean => Sent' \in Streams /\ last_offset' <= peer'.sent
    <3>1. last_offset <= peer.sent => last_offset + n <= peer.sent + n
      BY <1>1, <1>3
    <3>2. peer.clean => Sent \in Streams /\ last_offset <= peer.sent
      BY DEF Follows, Begins
    <3> QED BY <1>2, <1>3, <3>1, <3>2
  <2> QED BY <1>3, <1>4, <2>1, <2>2 DEF Begins
<1>6. ASSUME Regular' PROVE Regular
  <2>1. peer.sent = last_offset
    <3>1. peer'.sent = last_offset'
      BY <1>6 DEF Regular
    <3>2. peer.sent + n = last_offset + n
      BY <1>2, <1>3, <3>1
    <3> QED BY <1>1, <1>3, <3>2
  <2> QED BY <1>2, <1>3, <1>6, <2>1 DEF Regular, TakenApart, Sent
<1>7. ASSUME Regular, NEW at, InSync(at) PROVE InSync(at)' /\ Position' = Position
  <2>1. /\ call.base = 0 /\ call.offset = last_offset /\ call.consumed = n /\ n # 0
    BY <1>1, <1>2, <1>4, <1>7 DEF InSync, CallInSync, BlockLen
  <2>2. Reached = last_offset + n /\ Reached' = last_offset + n
    <3>1. Now = last_offset + 0 + n
      BY <2>1 DEF Now
    <3>2. Now = last_offset + n
      BY <1>1, <1>3, <3>1
    <3> QED BY <1>2, <1>4, <3>2 DEF Reached
  <2>3. Position' = Position
    BY <1>2, <2>2 DEF Position
  <2>4. CallInSync'
    <3>1. last_offset' # 0
      BY <1>1, <1>2, <1>3, <2>1
    <3> QED BY <1>2, <1>4, <3>1 DEF CallInSync, NoCall
  <2>5. BufferInSync' /\ InPhase(at)'
    BY <1>2, <1>3, <1>7, <2>2, <2>3
       DEF InSync, BufferInSync, InPhase, InList, InFiles, Before, Inside, EndOf
  <2> QED BY <2>3, <2>4, <2>5 DEF InSync
<1>8. Sync'
  <2> SUFFICES ASSUME Regular' PROVE is_tar' /\ \A at : Layout(Sent', at) => InSync(at)'
    BY DEF Sync
  <2> QED BY <1>2, <1>3, <1>6, <1>7 DEF Follows, Sync
<1>9. ASSUME Regular' PROVE Position' = Position
  <2>1. Regular /\ Sent \in Streams /\ Contents[Sent].archive
    BY <1>6, <1>9 DEF Regular, TakenApart, Follows, Begins, Sent
  <2>2. PICK at : Layout(Sent, at)
    BY <2>1, ArchiveIs
  <2>3. InSync(at)
    BY <2>1, <2>2 DEF Follows, Sync
  <2> QED BY <1>7, <2>1, <2>3
<1> QED BY <1>5, <1>6, <1>8, <1>9 DEF Follows

\* A transfer as it should be was never refused.
LEMMA NeverFails ==
  ASSUME Follows, Regular PROVE call.status # "failed"
<1>1. Sent \in Streams /\ Contents[Sent].archive
  BY DEF Regular, TakenApart, Follows, Begins, Sent
<1>2. PICK at : Layout(Sent, at)
  BY <1>1, ArchiveIs
<1>3. CallInSync
  BY <1>2 DEF Follows, Sync, InSync
<1> QED BY <1>3 DEF CallInSync, Idle

\* The other commands start a transfer anew, leave it alone, or break it off.
LEMMA CommandFollows ==
  ASSUME TypeInv, Follows,
         \/ \E s \in Streams, told \in BOOLEAN : Prepare(s, told)
         \/ \E told \in BOOLEAN : Start(told) \/ Verify(told)
         \/ \E n \in 1..SlotSize : PieceLost(n)
         \/ WriteFailed \/ Abort \/ UNCHANGED vars
  PROVE  Follows'
<1>1. ASSUME NEW s \in Streams, NEW told \in BOOLEAN, Prepare(s, told) PROVE Follows'
  <2>1. /\ peer'.first = 0 /\ peer'.sent = 0 /\ ~peer'.clean /\ Idle'
    BY <1>1 DEF Prepare, NoTransfer, Idle
  <2> QED BY <2>1 DEF Follows, Begins, Sync, Regular
<1>2. ASSUME NEW told \in BOOLEAN, Start(told) PROVE Follows'
  <2>1. /\ peer'.first = 0 /\ peer'.sent = 0 /\ Idle' /\ last_offset' = last_offset
        /\ peer'.clean = (last_offset = 0 /\ slots[0] = ErasedSlot) /\ Sent' = Sent /\ Sent \in Streams
    BY <1>2 DEF Start, Idle, untarVars, TypeInv, PeerType, Sent
  <2>2. peer'.clean => last_offset = 0
    BY <2>1, Zenon
  <2>3. last_offset = 0 => last_offset' <= peer'.sent
    BY <2>1
  <2> QED BY <2>1, <2>2, <2>3 DEF Follows, Begins, Sync, Regular
<1>3. ASSUME UNCHANGED <<ctxt, coalesce, is_tar, call, last_offset, crc, peer>> PROVE Follows'
  BY <1>3 DEF Follows, Begins, Sync, Regular, TakenApart, InSync, CallInSync, BufferInSync,
     InPhase, InList, InFiles, Before, Inside, EndOf, Position, Reached, Idle, Now, Sent, BlockLen
<1>4. ASSUME NEW told \in BOOLEAN, Verify(told) PROVE Follows'
  BY <1>3, <1>4 DEF Verify, untarVars, parser
<1>5. ASSUME Abort \/ UNCHANGED vars PROVE Follows'
  BY <1>3, <1>5 DEF Abort, vars, untarVars, parser, device
<1>6. ASSUME NEW n \in 1..SlotSize, PieceLost(n) PROVE Follows'
  <2>1. n \in Nat \ {0} /\ peer.sent \in Nat /\ peer.first \in Nat /\ last_offset \in Nat
    BY BlockAssumption DEF TypeInv, PeerType, DeviceType
  <2>2. /\ peer'.sent = peer.sent + n /\ peer'.clean = peer.clean /\ Sent' = Sent
        /\ peer'.first = IF peer.first = 0 THEN n ELSE peer.first
        /\ last_offset' = last_offset /\ Idle' = Idle
    BY <1>6 DEF PieceLost, TypeInv, PeerType, device, untarVars, Idle, Sent
  <2>3. peer'.first # 0
    BY <2>1, <2>2
  <2>4. ~Regular'
    BY <2>1, <2>2 DEF Regular, Follows, Begins
  <2>5. peer'.clean => last_offset' <= peer'.sent
    BY <2>1, <2>2 DEF Follows, Begins
  <2> QED BY <2>2, <2>3, <2>4, <2>5 DEF Follows, Begins, Sync
<1>7. ASSUME WriteFailed PROVE Follows'
  <2>1. /\ call.status = "failed" /\ call' = NoCall /\ peer' = peer /\ last_offset' = last_offset
        /\ crc' = crc
    BY <1>7 DEF WriteFailed, device
  <2>2. ~Idle /\ Idle' /\ Sent' = Sent /\ (Regular' <=> Regular)
    BY <2>1 DEF Idle, NoCall, Sent, Regular, TakenApart
  <2>3. ~Regular
    BY <2>1, NeverFails
  <2> QED BY <2>1, <2>2, <2>3 DEF Follows, Begins, Sync
<1> QED BY <1>1, <1>2, <1>4, <1>5, <1>6, <1>7

\* Nothing is transferred at first.
LEMMA FollowsInit == Init => Follows
  BY DEF Init, UntarInit, NoTransfer, NoCall, Follows, Begins, Sync, Regular, Idle

\* Every step keeps what was sent and the parser together.
LEMMA FollowsStep ==
  ASSUME ProperArchives PROVE TypeInv /\ Shapes /\ Follows /\ [Next]_vars => Follows'
<1> SUFFICES ASSUME TypeInv, Shapes, Follows, [Next]_vars PROVE Follows'
  OBVIOUS
<1>1. ASSUME NEW n \in 1..SlotSize, Write(n) PROVE Follows'
  BY <1>1, WriteFollows
<1> QED BY <1>1, ParseFollows, DoneFollows, CommandFollows DEF Next

\* The buffer of a transfer that is in sync.
LEMMA FollowsIs ==
  ASSUME TypeInv, Follows PROVE CoalesceInOrder
<1> DEFINE n == Len(coalesce.bytes)
<1> SUFFICES ASSUME Regular, n # 0
             PROVE  /\ coalesce.bytes = SubSeq(Bytes[Sent], coalesce.at + 1, coalesce.at + n)
                    /\ coalesce.at + n = Reached
  BY DEF CoalesceInOrder, Sent, Reached
<1>1. Sent \in Streams /\ Contents[Sent].archive
  BY DEF Regular, TakenApart, Follows, Begins, Sent
<1>2. PICK at : Layout(Sent, at)
  BY <1>1, ArchiveIs
<1>3. BufferInSync
  BY <1>2 DEF Follows, Sync, InSync
<1>4. coalesce.bytes \in Seq(AnyByte) /\ coalesce.at \in Nat
  BY DEF TypeInv, ParserType, CoalesceType
<1>5. Reached \in Nat
  BY DEF Reached, Now, TypeInv, ParserType, CallType, DeviceType
<1>6. PICK l, a \in Nat : l = n /\ a = coalesce.at
  BY <1>4
<1>7. a = Reached - l /\ \A i \in 1..l : coalesce.bytes[i] = Bytes[Sent][a + i]
  BY <1>3, <1>6 DEF BufferInSync, Position
<1>8. a + l = Reached
  BY <1>5, <1>6, <1>7
<1> DEFINE part == SubSeq(Bytes[Sent], a + 1, a + l)
<1>9. ASSUME NEW i \in (a + 1)..(a + l) PROVE Bytes[Sent][i] \in AnyByte
  <2>1. i - a \in 1..l /\ a + (i - a) = i
    BY <1>6
  <2>2. coalesce.bytes[i - a] = Bytes[Sent][i]
    <3>1. coalesce.bytes[i - a] = Bytes[Sent][a + (i - a)]
      BY <1>7, <2>1
    <3> QED BY <2>1, <3>1
  <2>3. coalesce.bytes[i - a] \in AnyByte
    BY SMTT(30), <1>4, <1>6, <2>1
  <2> QED BY <2>2, <2>3
<1>10. /\ part \in Seq(AnyByte) /\ Len(part) = IF a + 1 <= a + l THEN (a + l) - (a + 1) + 1 ELSE 0
       /\ \A i \in 1..((a + l) - (a + 1) + 1) : part[i] = Bytes[Sent][(a + 1) + i - 1]
  <2>1. a + 1 \in Int /\ a + l \in Int
    BY <1>6
  <2> QED BY SMTT(30), <1>9, <2>1, SubSeqProperties
<1> HIDE DEF part
<1>11. (a + l) - (a + 1) + 1 = l /\ (l # 0 => a + 1 <= a + l)
  BY <1>6
<1>12. ASSUME NEW i \in 1..l PROVE part[i] = coalesce.bytes[i]
  <2>1. (a + 1) + i - 1 = a + i
    BY <1>6
  <2> QED BY <1>7, <1>10, <1>11, <2>1
<1>13. part = coalesce.bytes
  <2>1. Len(part) = l
    BY <1>6, <1>10, <1>11
  <2>2. part \in Seq(AnyByte) /\ coalesce.bytes \in Seq(AnyByte) /\ Len(coalesce.bytes) = l
    BY <1>4, <1>6, <1>10
  <2> HIDE DEF n
  <2> QED BY <1>12, <2>1, <2>2
<1> QED BY <1>6, <1>8, <1>13 DEF part

\* However an archive that is what its list says is cut into pieces, the coalesce
\* buffer holds consecutive bytes of it, at the offset it is said to have, up to the
\* next that come (cy_untar_parse(), untar.c), for every number and size of files,
\* block size, order of commands, loss and restart.
THEOREM ArchivesInOrder == ASSUME ProperArchives PROVE Spec => []CoalesceInOrder
<1>1. ImageInv => Shapes
  BY DEF ImageInv
<1>2. []Shapes /\ Spec => []TypeInv
  BY TypeInit, TypeStep, PTL DEF Spec
<1>3. []Shapes /\ []TypeInv /\ Spec => []Follows
  BY FollowsInit, FollowsStep, PTL DEF Spec
<1>4. TypeInv /\ Follows => CoalesceInOrder
  BY FollowsIs
<1> QED BY <1>1, <1>2, <1>3, <1>4, ImageAlways, PTL

-----------------------------------------------------------------------------
(* What is in the slots: the files of an archive, each in the slot of its  *)
(* type, or the bytes of one that is not taken apart.                      *)

FileByte(k, p) == <<Sent, "file", k, p>>
SlotOf(s, j)   == ImageOf(Contents[s].listed[j].type)

\* The bytes of files that were read are in place.
Filled(at) ==
  \A k \in 1..Files(Sent) : \A j \in Components(Sent, k) : \A p \in 0..(SizeOf(Sent, k) - 1) :
    at[k] + Block + p < Position => slots[SlotOf(Sent, j)][p] = FileByte(k, p)

\* Nothing else is in the slot that was erased.
Covered(p) ==
  \E k \in 1..Files(Sent) : \E j \in Components(Sent, k) : SlotOf(Sent, j) = 0 /\ p < SizeOf(Sent, k)
Clear == \A p \in 0..(SlotSize - 1) : Covered(p) \/ slots[0][p] = ErasedByte

FilesStored == Regular /\ ~overrun => \A at : Layout(Sent, at) => Filled(at) /\ Clear

\* The slots have their size; one that a transfer begins on is erased.
Sized == DOMAIN slots = Images /\ \A i \in Images : DOMAIN slots[i] = 0..(SlotSize - 1)
Fresh == peer.clean /\ peer.first = 0 => slots[0] = ErasedSlot

\* Nothing is sent from behind the end; as long as the CRC is that of the first
\* bytes, the offset is their number.
Counted ==
  peer.clean => /\ peer.sent + (IF Idle THEN 0 ELSE BlockLen) <= Len(Bytes[Sent])
                /\ crc # Mixed => crc = last_offset

\* An archive whose first piece is too short for a header is stored as it comes.
Raw ==
  /\ peer.clean /\ crc # Mixed /\ peer.sent = last_offset
  /\ peer.first # 0 /\ peer.first < HeaderSize /\ Contents[Sent].archive
Placed == IF call.status = "stored" THEN last_offset + BlockLen ELSE last_offset
RawBytes ==
  /\ \A p \in 0..(Placed - 1) : p \in 0..(SlotSize - 1) /\ slots[0][p] = Bytes[Sent][p + 1]
  /\ \A p \in 0..(SlotSize - 1) : p < Len(Bytes[Sent]) \/ slots[0][p] = ErasedByte
RawStored ==
  Raw => /\ ~is_tar /\ (Idle \/ call.status = "failed" => last_offset # 0)
         /\ ~Idle => call.status \in {"stored", "failed"} /\ BlockLen # 0
         /\ ~overrun => RawBytes

\* When an archive was verified, a transfer that is clean is that one, and complete.
VerifiedKept ==
  verified.clean /\ Contents[verified.stream].archive =>
    /\ last_offset # 0
    /\ peer.clean => peer = verified /\ crc = Len(Bytes[Sent]) /\ Idle

\* The inductive invariant, with TypeInv and Follows.
ArchiveInv == Sized /\ Fresh /\ Counted /\ FilesStored /\ RawStored /\ VerifiedKept

\* What the parts of an archive are.
LEMMA PartsAre ==
  ASSUME NEW s, s \in Streams
  PROVE  /\ \A k \in 1..Files(s) : \A j \in Components(s, k) :
              [img |-> SlotOf(s, j), bytes |-> Part(s, "file", k, SizeOf(s, k))] \in PartsOf(s)
         /\ \A e \in PartsOf(s) : \E k \in 1..Files(s) : \E j \in Components(s, k) :
              e.img = SlotOf(s, j) /\ e.bytes = Part(s, "file", k, SizeOf(s, k))
<1> DEFINE c == Contents[s]
           pairs == {m \in (DOMAIN c.files) \X (DOMAIN c.listed) :
                       /\ c.listed[m[2]].name = c.files[m[1]].name
                       /\ c.listed[m[2]].size = c.files[m[1]].size}
           file(m) == [img |-> ImageOf(c.listed[m[2]].type),
                       bytes |-> Part(s, "file", m[1], c.files[m[1]].size)]
<1>1. PartsOf(s) = {file(m) : m \in pairs}
  BY DEF PartsOf
<1>2. DOMAIN c.files = 1..Files(s)
  BY SizesAre
<1>3. \A k \in 1..Files(s) : SizeOf(s, k) = c.files[k].size
  BY SizesAre DEF SizeOf
<1>4. ASSUME NEW k \in 1..Files(s), NEW j \in Components(s, k)
      PROVE  [img |-> SlotOf(s, j), bytes |-> Part(s, "file", k, SizeOf(s, k))] \in PartsOf(s)
  <2>1. <<k, j>> \in pairs
    BY <1>2 DEF Components
  <2>2. file(<<k, j>>) = [img |-> SlotOf(s, j), bytes |-> Part(s, "file", k, SizeOf(s, k))]
    BY <1>3 DEF SlotOf
  <2> HIDE DEF pairs, file
  <2> QED BY <1>1, <2>1, <2>2
<1>5. ASSUME NEW e \in PartsOf(s)
      PROVE  \E k \in 1..Files(s) : \E j \in Components(s, k) :
               e.img = SlotOf(s, j) /\ e.bytes = Part(s, "file", k, SizeOf(s, k))
  <2>1. PICK m \in pairs : e = file(m)
    <3> HIDE DEF pairs, file
    <3> QED BY <1>1
  <2>2. m[1] \in 1..Files(s) /\ m[2] \in Components(s, m[1])
    BY <1>2 DEF Components
  <2>3. e.img = SlotOf(s, m[2]) /\ e.bytes = Part(s, "file", m[1], SizeOf(s, m[1]))
    BY <1>3, <2>1, <2>2 DEF SlotOf
  <2> QED BY <2>2, <2>3
<1> QED BY <1>4, <1>5

\* The bytes of a file.
LEMMA FilePart ==
  ASSUME NEW s, NEW k, s \in Streams, k \in 1..Files(s)
  PROVE  /\ k \in Nat /\ SizeOf(s, k) \in Nat /\ Len(Part(s, "file", k, SizeOf(s, k))) = SizeOf(s, k)
         /\ \A i \in 1..SizeOf(s, k) : Part(s, "file", k, SizeOf(s, k))[i] = <<s, "file", k, i - 1>>
<1>1. k \in Nat /\ SizeOf(s, k) \in Nat
  BY SizesAre
<1> QED BY <1>1, PartIs

\* Two files are for the same slot if they are the same.
LEMMA OneSlot ==
  ASSUME NEW s, NEW k, NEW l, NEW i, NEW j, OneFileEach,
         s \in Streams, Contents[s].archive, WellFormed(s), k \in 1..Files(s), l \in 1..Files(s),
         i \in Components(s, k), j \in Components(s, l), SizeOf(s, k) # 0, SizeOf(s, l) # 0
  PROVE  SlotOf(s, i) = SlotOf(s, j) <=> k = l
<1> DEFINE a == Part(s, "file", k, SizeOf(s, k))
           b == Part(s, "file", l, SizeOf(s, l))
           e == [img |-> SlotOf(s, i), bytes |-> a]
           f == [img |-> SlotOf(s, j), bytes |-> b]
<1>1. k \in Nat /\ l \in Nat /\ SizeOf(s, k) \in Nat /\ SizeOf(s, l) \in Nat
  BY FilePart
<1>2. a # <<>> /\ b # <<>> /\ a[1] = <<s, "file", k, 0>> /\ b[1] = <<s, "file", l, 0>>
  <2>1. /\ Len(a) = SizeOf(s, k) /\ \A x \in 1..SizeOf(s, k) : a[x] = <<s, "file", k, x - 1>>
        /\ Len(b) = SizeOf(s, l) /\ \A x \in 1..SizeOf(s, l) : b[x] = <<s, "file", l, x - 1>>
    BY FilePart
  <2>2. 1 \in 1..SizeOf(s, k) /\ 1 \in 1..SizeOf(s, l)
    BY <1>1
  <2> HIDE DEF a, b
  <2>3. a[1] = <<s, "file", k, 1 - 1>> /\ b[1] = <<s, "file", l, 1 - 1>>
    BY <2>1, <2>2
  <2>4. a # <<>> /\ b # <<>>
    BY <1>1, <2>1
  <2> QED BY <2>3, <2>4
<1>3. e \in PartsOf(s) /\ f \in PartsOf(s)
  BY PartsAre
<1>4. e.img = SlotOf(s, i) /\ f.img = SlotOf(s, j) /\ e.bytes = a /\ f.bytes = b
  OBVIOUS
<1>5. a = b <=> k = l
  <2>1. k = l => a = b
    OBVIOUS
  <2>2. ASSUME a = b PROVE k = l
    <3>1. <<s, "file", k, 0>> = <<s, "file", l, 0>>
      BY <1>2, <2>2
    <3> QED BY <3>1
  <2> QED BY <2>1, <2>2
<1> HIDE DEF e, f, a, b
<1>6. e.img = f.img <=> e.bytes = f.bytes
  BY <1>2, <1>3, <1>4 DEF OneFileEach
<1> QED BY <1>4, <1>5, <1>6

\* A store brings its bytes to their place, and moves no others.
Brought(img, offset, bytes, n) ==
  /\ \A i \in Images : \A p \in 0..(SlotSize - 1) :
       i # img \/ ~(p \in offset..(offset + n - 1)) => slots'[i][p] = slots[i][p]
  /\ Fits(offset, n) /\ ~overrun' =>
       \A p \in offset..(offset + n - 1) : /\ p \in 0..(SlotSize - 1)
                                           /\ slots'[img][p] = bytes[p - offset + 1]

LEMMA StoreMoves ==
  ASSUME NEW img, NEW offset, NEW bytes, NEW n, img \in Images, offset \in Nat, n \in Nat,
         Len(bytes) = n, Store(img, offset, bytes), Sized
  PROVE  Sized' /\ (~overrun' => ~overrun) /\ Brought(img, offset, bytes, n)
<1>1. /\ slots' = [slots EXCEPT ![img] = Stored(slots[img], offset, bytes)]
      /\ overrun' = (overrun \/ Overruns(offset, n))
  BY DEF Store
<1>2. /\ DOMAIN Stored(slots[img], offset, bytes) = DOMAIN slots[img]
      /\ \A p \in DOMAIN slots[img] \ (offset..(offset + n - 1)) :
           Stored(slots[img], offset, bytes)[p] = slots[img][p]
  BY StoredElsewhere
<1>3. \A i \in Images : slots'[i] = IF i = img THEN Stored(slots[img], offset, bytes) ELSE slots[i]
  BY <1>1 DEF Sized
<1>4. Sized'
  BY <1>1, <1>2, <1>3 DEF Sized
<1>5. ASSUME NEW i \in Images, NEW p \in 0..(SlotSize - 1),
             i # img \/ ~(p \in offset..(offset + n - 1))
      PROVE  slots'[i][p] = slots[i][p]
  <2>1. CASE i = img
    <3>1. p \in DOMAIN slots[img] \ (offset..(offset + n - 1))
      BY <1>5, <2>1 DEF Sized
    <3> QED BY <1>2, <1>3, <2>1, <3>1
  <2>2. CASE i # img
    BY <1>3, <2>2
  <2> QED BY <2>1, <2>2
<1>6. ASSUME Fits(offset, n), ~overrun', NEW p \in offset..(offset + n - 1)
      PROVE  /\ p \in 0..(SlotSize - 1)
             /\ slots'[img][p] = bytes[p - offset + 1]
  <2>1. ~Overruns(offset, n)
    BY <1>1, <1>6
  <2>2. /\ p \in 0..(SlotSize - 1) /\ p < StoreEnd(offset, n) /\ ChunkEnd(offset, n, p) <= SlotSize
    BY <1>6, <2>1, StoredHere
  <2>3. Stored(slots[img], offset, bytes)[p] = bytes[p - offset + 1]
    BY <1>6, <2>2 DEF Stored, Sized
  <2> QED BY <1>3, <2>2, <2>3
<1>7. ~overrun' => ~overrun
  BY <1>1
<1> QED BY <1>4, <1>5, <1>6, <1>7 DEF Brought

-----------------------------------------------------------------------------
(* The slots while an archive is taken apart                               *)

\* Passing over no byte of a file leaves the files as they are.
LEMMA SkipsFill ==
  ASSUME NEW at, ParserType, last_offset \in Nat, Sent \in Streams, Layout(Sent, at), Skips,
         UNCHANGED <<peer, slots>>, Filled(at), Clear
  PROVE  Filled(at)' /\ Clear'
<1>1. Sent' = Sent /\ slots' = slots
  BY DEF Sent
<1>2. Clear'
  BY <1>1 DEF Clear, Covered
<1>3. Position \in Int
  BY DEF Position, Reached, Now, ParserType, CallType, CoalesceType
<1>4. ASSUME NEW k \in 1..Files(Sent), NEW j \in Components(Sent, k),
             NEW p \in 0..(SizeOf(Sent, k) - 1), at[k] + Block + p < Position'
      PROVE  slots[SlotOf(Sent, j)][p] = FileByte(k, p)
  <2>1. k \in 0..Files(Sent) /\ k # 0
    BY LayoutIs
  <2>2. PICK a, z \in Nat : a = at[k] /\ z = SizeOf(Sent, k)
    BY <2>1, LayoutIs
  <2>3. Block \in Nat /\ p \in Nat /\ p + 1 \in 1..z /\ (p + 1) - 1 = p
        /\ a + Block + (p + 1) = (a + Block + p) + 1 /\ a + Block + p \in Nat
    BY <2>2, BlockAssumption
  <2>4. Bytes[Sent][a + Block + (p + 1)] = <<Sent, "file", k, p>>
    <3>1. Bytes[Sent][at[k] + Block + (p + 1)] = <<Sent, KindOf(k), k, (p + 1) - 1>>
      BY <2>1, <2>2, <2>3 DEF Layout
    <3> QED BY <2>1, <2>2, <2>3, <3>1 DEF KindOf
  <2>5. Bytes[Sent][(a + Block + p) + 1] = <<Sent, "file", k, p>>
    BY <2>3, <2>4, Zenon
  <2>6. a + Block + p < Position
    <3> SUFFICES ASSUME Position <= a + Block + p PROVE FALSE
      BY <1>3, <2>3
    <3>1. Position' # Position
      BY <1>3, <1>4, <2>2, <2>3
    <3>2. Bytes[Sent][(a + Block + p) + 1][2] # "file"
      BY <1>4, <2>2, <2>3, <3>1 DEF Skips
    <3> QED BY <2>5, <3>2
  <2> QED BY <2>2, <2>6 DEF Filled
<1>5. Filled(at)'
  BY <1>1, <1>4 DEF Filled, FileByte
<1> QED BY <1>2, <1>5

\* A piece of a file comes to its place, and over no other file.
LEMMA FileFills ==
  ASSUME NEW at, Turn(at), OneFileEach, Sized, FileWritten, ~overrun',
         UNCHANGED <<peer, last_offset>>, Filled(at), Clear
  PROVE  Filled(at)' /\ Clear'
<1>1. /\ AtFile /\ ctxt.state = "DATA" /\ ctxt.parsed
      /\ FileBytes # 0 /\ Fits(FileOffset, FileBytes)
      /\ Store(ImageOf(FileType), FileOffset, SubSeq(Source, 1, FileBytes))
      /\ Processed(FileBytes) /\ Consume(FileBytes)
  BY DEF FileWritten, AtFile, Ready
<1>2. PICK k \in 1..Files(Sent) : Inside(at, k)
  BY <1>1 DEF Turn, InPhase, InFiles
<1>3. PICK f, o, z, a, c, l \in Nat :
         /\ f = FileBytes /\ o = ctxt.processed /\ z = ctxt.size /\ a = at[k] /\ c = Position
         /\ l = Len(Source) /\ o + f <= z /\ f <= l /\ FileOffset = o /\ f # 0 /\ z <= SlotSize
  BY <1>1, <1>2, FileIs
<1>4. Position' = c + f
  BY <1>1, <1>3, FileFollows
<1>5. /\ Collected /\ Sent \in Streams /\ Sent' = Sent /\ Contents[Sent].archive /\ WellFormed(Sent)
      /\ k \in 0..Files(Sent) /\ k # 0 /\ Layout(Sent, at) /\ Block \in Nat
  BY <1>1, <1>2, LayoutIs, BlockAssumption
     DEF Turn, Parses, Regular, TakenApart, Sent, AtFile, Ready
<1>6. c = a + Block + o /\ z = SizeOf(Sent, k) /\ ctxt.current \in Components(Sent, k)
      /\ ctxt.listed = Contents[Sent].listed
  BY <1>1, <1>2, <1>3 DEF Inside, Turn, InPhase, InFiles
<1>7. \A i \in 1..z : Bytes[Sent][a + Block + i] = <<Sent, "file", k, i - 1>>
  BY <1>3, <1>5, <1>6 DEF Layout, KindOf
<1>16. /\ Block \in Nat /\ SlotSize \in Nat /\ o + f <= z /\ f <= l /\ f # 0 /\ z <= SlotSize
       /\ c = a + Block + o
  BY <1>3, <1>6, BlockAssumption
<1> DEFINE img   == ImageOf(FileType)
           bytes == SubSeq(Source, 1, f)
<1>8. img = SlotOf(Sent, ctxt.current) /\ img \in Images
  BY <1>6 DEF FileType, SlotOf, ImageOf, Images
<1>9. Len(bytes) = f /\ \A i \in 1..f : bytes[i] = <<Sent, "file", k, (o + i) - 1>>
  <2>1. Source \in Seq(AnyByte) /\ Len(Source) = l /\ \A i \in 1..l : Source[i] = Bytes[Sent][c + i]
    BY <1>3, <1>5, SourceIs, SourceInSync DEF Turn, Parses
  <2>2. Len(bytes) = f /\ \A i \in 1..f : bytes[i] = Source[i]
    BY <1>3, <2>1
  <2>3. ASSUME NEW i \in 1..f PROVE bytes[i] = <<Sent, "file", k, (o + i) - 1>>
    <3>1. i \in 1..l /\ o + i \in 1..z /\ a + Block + (o + i) = c + i
      BY <1>16
    <3>2. Source[i] = Bytes[Sent][a + Block + (o + i)]
      BY <2>1, <3>1
    <3> HIDE DEF bytes
    <3> QED BY <1>7, <2>2, <3>1, <3>2
  <2> QED BY <2>2, <2>3
<1>10. Store(img, o, bytes)
  BY <1>1, <1>3
<1> HIDE DEF img, bytes
<1>11. /\ \A i \in Images : \A p \in 0..(SlotSize - 1) :
            i # img \/ ~(p \in o..(o + f - 1)) => slots'[i][p] = slots[i][p]
       /\ \A p \in o..(o + f - 1) : /\ p \in 0..(SlotSize - 1)
                                    /\ slots'[img][p] = bytes[p - o + 1]
  <2>1. Fits(o, f)
    BY <1>1, <1>3, Zenon
  <2>2. Len(bytes) = f
    BY <1>9
  <2>3. o \in Nat /\ f \in Nat
    BY <1>3
  <2>4. Sized' /\ Brought(img, o, bytes, f)
    BY <1>8, <1>10, <2>2, <2>3, StoreMoves
  <2> QED BY <2>1, <2>4 DEF Brought
<1>12. ASSUME NEW m \in 1..Files(Sent), NEW j \in Components(Sent, m),
              NEW p \in 0..(SizeOf(Sent, m) - 1), at[m] + Block + p < c + f
       PROVE  slots'[SlotOf(Sent, j)][p] = FileByte(m, p)
  <2>1. m \in 0..Files(Sent) /\ m # 0 /\ SlotOf(Sent, j) \in Images
    BY <1>5, LayoutIs DEF SlotOf, ImageOf, Images
  <2>2. PICK b, y \in Nat : b = at[m] /\ y = SizeOf(Sent, m) /\ y <= SlotSize
    BY <1>5, <2>1, LayoutIs, TurnIs
  <2>7. p \in 0..(y - 1)
    BY <2>2
  <2>3. p \in Nat /\ p \in 0..(SlotSize - 1) /\ p < y /\ y # 0 /\ z # 0
    BY <1>16, <2>2, <2>7
  <2>8. b + Block + p < c + f
    BY <1>12, <2>2
  <2>4. SlotOf(Sent, j) = img <=> m = k
    BY <1>5, <1>6, <1>8, <2>2, <2>3, OneSlot
  <2>5. CASE b + Block + p < c
    <3>1. slots[SlotOf(Sent, j)][p] = FileByte(m, p)
      BY <1>3, <2>2, <2>5 DEF Filled
    <3>2. SlotOf(Sent, j) # img \/ ~(p \in o..(o + f - 1))
      <4>1. m = k => p < o
        <5> SUFFICES ASSUME m = k PROVE p < o
          OBVIOUS
        <5>1. a = b
          BY <1>3, <2>2
        <5> QED BY <1>16, <2>3, <2>5, <5>1
      <4> QED BY <1>3, <2>3, <2>4, <4>1
    <3> QED BY <1>11, <2>1, <2>3, <3>1, <3>2
  <2>6. CASE ~(b + Block + p < c)
    <3>1. PICK q \in Nat : b + Block + p = a + Block + q /\ q \in o..(o + f - 1) /\ q + 1 \in 1..z
      <4>1. b + Block + p - (a + Block) \in o..(o + f - 1)
        BY <1>16, <2>3, <2>6, <2>8
      <4>2. PICK q \in Nat : q = b + Block + p - (a + Block)
        BY <4>1
      <4>3. b + Block + p = a + Block + q /\ q \in o..(o + f - 1) /\ q + 1 \in 1..z
        BY <1>16, <2>3, <4>1, <4>2
      <4> QED BY <4>3
    <3>2. Bytes[Sent][a + Block + (q + 1)] = <<Sent, "file", k, q>>
      BY <1>7, <3>1
    <3>3. Bytes[Sent][b + Block + (p + 1)] = <<Sent, "file", m, p>>
      <4>1. p + 1 \in 1..SizeOf(Sent, m) /\ (p + 1) - 1 = p
        BY <2>2, <2>3
      <4>2. Bytes[Sent][at[m] + Block + (p + 1)] = <<Sent, KindOf(m), m, (p + 1) - 1>>
        BY <1>5, <2>1, <4>1 DEF Layout
      <4> QED BY <2>1, <2>2, <4>1, <4>2 DEF KindOf
    <3>4. a + Block + (q + 1) = b + Block + (p + 1)
      BY <1>16, <2>3, <3>1
    <3>5. <<Sent, "file", k, q>> = <<Sent, "file", m, p>>
      BY <3>2, <3>3, <3>4, Zenon
    <3>6. k = m /\ q = p
      BY <3>5
    <3>7. slots'[img][p] = bytes[p - o + 1]
      BY <1>11, <3>1, <3>6
    <3>8. p - o + 1 \in 1..f /\ (o + (p - o + 1)) - 1 = p
      BY <1>16, <2>3, <3>1, <3>6
    <3>9. bytes[p - o + 1] = <<Sent, "file", k, (o + (p - o + 1)) - 1>>
      BY <1>9, <3>8
    <3> QED BY <2>4, <3>6, <3>7, <3>8, <3>9 DEF FileByte
  <2> QED BY <2>2, <2>5, <2>6
<1>13. Filled(at)'
  BY <1>4, <1>5, <1>12 DEF Filled, FileByte
<1>14. ASSUME NEW p \in 0..(SlotSize - 1) PROVE Covered(p) \/ slots'[0][p] = ErasedByte
  <2>0. 0 \in Images
    BY DEF Images
  <2>1. CASE 0 = img /\ p \in o..(o + f - 1)
    <3>1. o \in Nat /\ f \in Nat /\ z \in Nat /\ o + f <= z
      BY <1>3
    <3>2. p < z
      BY <2>1, <3>1
    <3> QED BY <1>6, <1>8, <2>1, <3>2 DEF Covered
  <2>2. CASE ~(0 = img /\ p \in o..(o + f - 1))
    BY <1>11, <2>0, <2>2 DEF Clear
  <2> QED BY <2>1, <2>2
<1>15. Clear'
  BY <1>5, <1>14 DEF Clear, Covered
<1> QED BY <1>13, <1>15

-----------------------------------------------------------------------------
(* Every step keeps what is in the slots                                   *)

\* What is sent comes to its end once, and an archive that was verified is complete.
LEMMA Complete ==
  ASSUME TypeInv, Follows, Counted, VerifiedKept,
         verified.clean, Contents[verified.stream].archive, peer.clean
  PROVE  /\ peer.sent = last_offset /\ last_offset = Len(Bytes[Sent]) /\ last_offset \in Nat
         /\ peer = verified /\ Idle /\ Sent \in Streams
<1>1. peer = verified /\ crc = Len(Bytes[Sent]) /\ Idle
  BY DEF VerifiedKept
<1>2. Sent \in Streams /\ last_offset <= peer.sent
  BY DEF Follows, Begins
<1>3. PICK l \in Nat : l = Len(Bytes[Sent])
  BY <1>2, BytesAre
<1>4. crc # Mixed
  BY <1>1, <1>3 DEF Mixed
<1>5. crc = last_offset /\ peer.sent + 0 <= l
  BY <1>1, <1>3, <1>4 DEF Counted
<1>6. peer.sent \in Nat /\ last_offset \in Nat
  BY DEF TypeInv, PeerType, DeviceType
<1> QED BY <1>1, <1>2, <1>3, <1>5, <1>6

\* Nothing is transferred at first.
LEMMA ArchiveInit == Init => ArchiveInv
<1> SUFFICES ASSUME Init PROVE ArchiveInv
  OBVIOUS
<1>1. ~peer.clean /\ ~verified.clean
  BY DEF Init, NoTransfer
<1>2. Sized
  BY DEF Init, UntarInit, Sized, ErasedSlot
<1> QED BY <1>1, <1>2 DEF ArchiveInv, Fresh, Counted, FilesStored, Regular, RawStored, Raw,
     VerifiedKept

\* The first slot is erased for another transfer.
LEMMA PrepareStores ==
  ASSUME Sized, NEW s, NEW told, Prepare(s, told) PROVE ArchiveInv'
<1>1. ~peer'.clean /\ ~verified'.clean
  BY DEF Prepare, NoTransfer
<1>2. slots' = [slots EXCEPT ![0] = ErasedSlot]
  BY DEF Prepare
<1>3. Sized'
  BY <1>2 DEF Sized, ErasedSlot
<1> QED BY <1>1, <1>3 DEF ArchiveInv, Fresh, Counted, FilesStored, Regular, RawStored, Raw,
     VerifiedKept

\* A transfer starts, and is only clean in an erased slot.
LEMMA StartStores ==
  ASSUME TypeInv, ArchiveInv, NEW told, Start(told) PROVE ArchiveInv'
<1>1. /\ peer'.first = 0 /\ peer'.sent = 0 /\ Sent' = Sent
      /\ peer'.clean = (last_offset = 0 /\ slots[0] = ErasedSlot)
      /\ Sent \in Streams
  BY DEF Start, TypeInv, PeerType, Sent
<1>2. /\ slots' = slots /\ last_offset' = last_offset /\ crc' = 0 /\ verified' = verified /\ Idle'
  BY DEF Start, untarVars, store, Idle
<1>3. peer'.clean => last_offset = 0 /\ slots[0] = ErasedSlot
  BY <1>1, Zenon
<1>4. Len(Bytes[Sent]) \in Nat
  BY <1>1, BytesAre
<1>5. Sized'
  BY <1>2 DEF ArchiveInv, Sized
<1>6. Fresh'
  BY <1>2, <1>3 DEF Fresh
<1>7. Counted'
  BY <1>1, <1>2, <1>3, <1>4 DEF Counted
<1>8. ~Regular' /\ ~Raw'
  BY <1>1 DEF Regular, Raw
<1>9. VerifiedKept'
  <2>1. verified.clean /\ Contents[verified.stream].archive => last_offset # 0
    BY DEF ArchiveInv, VerifiedKept
  <2> QED BY <1>2, <1>3, <2>1 DEF VerifiedKept
<1> QED BY <1>5, <1>6, <1>7, <1>8, <1>9 DEF ArchiveInv, FilesStored, RawStored

\* What is verified has come to its end.
LEMMA VerifyStores ==
  ASSUME TypeInv, Follows, ArchiveInv, NEW told, Verify(told) PROVE ArchiveInv'
<1>1. /\ UNCHANGED <<ctxt, coalesce, is_tar, call, slots, overrun, last_offset, crc, peer>> /\ Idle
      /\ verified' = IF Matches THEN peer ELSE verified
  BY DEF Verify, untarVars, parser, store
<1>2. /\ Sized' /\ Fresh' /\ Counted' /\ FilesStored' /\ RawStored'
  <2>1. Sent' = Sent /\ Idle' /\ BlockLen' = BlockLen /\ Regular' = Regular /\ Raw' = Raw
    BY <1>1 DEF Sent, Idle, BlockLen, Regular, Raw, TakenApart
  <2>2. Position' = Position /\ Placed' = Placed
    BY <1>1 DEF Position, Reached, Idle, Now, Placed, BlockLen
  <2> QED BY <1>1, <2>1, <2>2 DEF ArchiveInv, Sized, Fresh, Counted, FilesStored, Filled, Clear,
       Covered, FileByte, RawStored, RawBytes
<1>3. VerifiedKept'
  <2>1. CASE ~Matches
    <3>1. verified' = verified /\ Sent' = Sent /\ Idle'
      BY <1>1, <2>1 DEF Sent, Idle
    <3> QED BY <1>1, <3>1 DEF ArchiveInv, VerifiedKept
  <2>2. CASE Matches
    <3> SUFFICES ASSUME peer.clean, Contents[Sent].archive
                 PROVE  last_offset # 0 /\ crc = Len(Bytes[Sent])
      BY <1>1, <2>2 DEF VerifiedKept, Sent, Idle
    <3>1. crc = Len(Bytes[Sent]) /\ Sent \in Streams
      BY <2>2 DEF Matches, Sent, Follows, Begins
    <3>2. PICK at : Layout(Sent, at)
      BY <3>1, ArchiveIs
    <3>3. Files(Sent) + 1 \in 0..(Files(Sent) + 1)
      BY <3>1, <3>2, LayoutIs
    <3>4. PICK l, a \in Nat : l = Len(Bytes[Sent]) /\ a = at[Files(Sent) + 1] /\ l = a + 2 * Block
      BY <3>1, <3>2, <3>3, LayoutIs
    <3>5. l # 0 /\ l # Mixed
      BY <3>4, BlockAssumption DEF Mixed
    <3>6. crc = last_offset
      BY <3>1, <3>4, <3>5 DEF ArchiveInv, Counted
    <3> QED BY <3>1, <3>4, <3>5, <3>6
  <2> QED BY <2>1, <2>2
<1> QED BY <1>2, <1>3 DEF ArchiveInv

\* After a loss the transfer is not as it should be any more.
LEMMA LossStores ==
  ASSUME TypeInv, Follows, ArchiveInv, NEW n \in 1..SlotSize, PieceLost(n) PROVE ArchiveInv'
<1>1. n \in Nat \ {0} /\ peer.sent \in Nat /\ peer.first \in Nat /\ last_offset \in Nat
  BY BlockAssumption DEF TypeInv, PeerType, DeviceType
<1>2. /\ peer'.sent = peer.sent + n /\ peer'.clean = peer.clean /\ Sent' = Sent
      /\ peer'.first = IF peer.first = 0 THEN n ELSE peer.first
      /\ last_offset' = last_offset /\ crc' = crc /\ slots' = slots /\ verified' = verified
      /\ Sending(n) /\ Idle /\ Idle'
  BY DEF PieceLost, TypeInv, PeerType, device, untarVars, store, Idle, Sent, Sending
<1>3. peer.clean => /\ Sent \in Streams /\ last_offset <= peer.sent
                    /\ Len(Bytes[Sent]) \in Nat /\ peer.sent + n <= Len(Bytes[Sent])
  BY <1>2, PieceIs DEF Follows, Begins
<1>4. peer'.first # 0
  BY <1>1, <1>2
<1>5. ~Regular' /\ ~Raw'
  <2>1. peer.clean => peer'.sent # last_offset'
    BY <1>1, <1>2, <1>3
  <2> QED BY <1>2, <2>1 DEF Regular, Raw
<1>6. Sized' /\ Fresh'
  BY <1>2, <1>4 DEF ArchiveInv, Sized, Fresh
<1>7. Counted'
  <2>1. peer.clean => peer.sent + n + 0 <= Len(Bytes[Sent])
    BY <1>1, <1>3
  <2> QED BY <1>2, <2>1 DEF ArchiveInv, Counted
<1>8. VerifiedKept'
  <2>1. verified.clean /\ Contents[verified.stream].archive => last_offset # 0 /\ ~peer.clean
    <3>1. ASSUME verified.clean, Contents[verified.stream].archive, peer.clean PROVE FALSE
      <4>1. peer.sent = last_offset /\ last_offset = Len(Bytes[Sent])
        BY <3>1, Complete DEF ArchiveInv
      <4> QED BY <1>1, <1>3, <3>1, <4>1
    <3> QED BY <3>1 DEF ArchiveInv, VerifiedKept
  <2> QED BY <1>2, <2>1 DEF VerifiedKept
<1> QED BY <1>5, <1>6, <1>7, <1>8 DEF ArchiveInv, FilesStored, RawStored

\* What leaves the transfer and the slots alone keeps them.
LEMMA NothingStores ==
  ASSUME ArchiveInv, UNCHANGED <<ctxt, coalesce, call, is_tar, store, last_offset, crc, peer, verified>>
  PROVE  ArchiveInv'
<1>1. /\ UNCHANGED <<ctxt, coalesce, is_tar, call, slots, overrun, last_offset, crc, peer, verified>>
  BY DEF store
<1>2. Sent' = Sent /\ Idle' = Idle /\ BlockLen' = BlockLen /\ Regular' = Regular /\ Raw' = Raw
  BY <1>1 DEF Sent, Idle, BlockLen, Regular, Raw, TakenApart
<1>3. Position' = Position /\ Placed' = Placed
  BY <1>1 DEF Position, Reached, Idle, Now, Placed, BlockLen
<1> QED BY <1>1, <1>2, <1>3 DEF ArchiveInv, Sized, Fresh, Counted, FilesStored, Filled, Clear,
     Covered, FileByte, RawStored, RawBytes, VerifiedKept

\* A block that was refused.
LEMMA FailureStores ==
  ASSUME TypeInv, Follows, ArchiveInv, WriteFailed PROVE ArchiveInv'
<1>1. /\ call.status = "failed" /\ call' = NoCall /\ is_tar' = is_tar
      /\ slots' = slots /\ overrun' = overrun
      /\ last_offset' = last_offset /\ crc' = crc /\ peer' = peer /\ verified' = verified
  BY DEF WriteFailed, store, device
<1>2. /\ ~Idle /\ Idle' /\ Sent' = Sent /\ Regular' = Regular /\ Raw' = Raw
      /\ call'.status = "none"
  BY <1>1 DEF Idle, NoCall, Sent, Regular, Raw, TakenApart
<1>3. ~Regular'
  BY <1>1, <1>2, NeverFails
<1>4. Sized' /\ Fresh'
  BY <1>1 DEF ArchiveInv, Sized, Fresh
<1>5. Counted'
  <2>1. peer.clean => peer.sent + 0 <= Len(Bytes[Sent])
    <3> SUFFICES ASSUME peer.clean PROVE peer.sent + 0 <= Len(Bytes[Sent])
      OBVIOUS
    <3>1. Sent \in Streams /\ peer.sent + BlockLen <= Len(Bytes[Sent])
      BY <1>2 DEF Follows, Begins, ArchiveInv, Counted
    <3>2. Len(Bytes[Sent]) \in Nat /\ peer.sent \in Nat /\ BlockLen \in Nat
      BY <3>1, BytesAre DEF TypeInv, PeerType, ParserType, CallType, BlockLen
    <3> QED BY <3>1, <3>2
  <2> QED BY <1>1, <1>2, <2>1 DEF ArchiveInv, Counted
<1>6. RawStored'
  <2> SUFFICES ASSUME Raw
               PROVE  ~is_tar /\ last_offset # 0 /\ (~overrun => RawBytes')
    BY <1>1, <1>2 DEF RawStored
  <2>1. Placed' = Placed
    BY <1>1, <1>2 DEF Placed
  <2> QED BY <1>1, <1>2, <2>1 DEF ArchiveInv, RawStored, RawBytes
<1>7. VerifiedKept'
  BY <1>1, <1>2 DEF ArchiveInv, VerifiedKept
<1> QED BY <1>3, <1>4, <1>5, <1>6, <1>7 DEF ArchiveInv, FilesStored

\* A block that was stored.
LEMMA SuccessStores ==
  ASSUME TypeInv, Follows, ArchiveInv, WriteDone PROVE ArchiveInv'
<1>1. PICK n, o, t \in Nat : n = BlockLen /\ o = last_offset /\ t = peer.sent
  <2>1. call.block \in Seq(AnyByte) /\ last_offset \in Nat /\ peer.sent \in Nat
    BY DEF TypeInv, ParserType, CallType, DeviceType, PeerType
  <2>2. BlockLen \in Nat
    BY <2>1 DEF BlockLen
  <2> QED BY <2>1, <2>2
<1>2. /\ call.status = "stored" /\ call' = NoCall /\ is_tar' = is_tar
      /\ slots' = slots /\ overrun' = overrun /\ verified' = verified
      /\ last_offset' = o + n
      /\ (crc' # Mixed => crc # Mixed /\ crc' = crc + n)
      /\ peer' = [peer EXCEPT !.sent = @ + n]
  BY <1>1 DEF WriteDone, Continues, store, BlockLen
<1>3. /\ peer'.sent = t + n /\ peer'.first = peer.first /\ peer'.clean = peer.clean /\ Sent' = Sent
  BY <1>1, <1>2 DEF TypeInv, PeerType, Sent
<1>4. ~Idle /\ Idle' /\ call'.status = "none" /\ peer.first # 0
  BY <1>2 DEF Idle, NoCall, Follows, Begins
<1>5. Sized' /\ Fresh'
  BY <1>2, <1>3, <1>4 DEF ArchiveInv, Sized, Fresh
<1>6. Counted'
  <2>1. peer.clean => t + n <= Len(Bytes[Sent]) /\ (crc # Mixed => crc = o)
    BY <1>1, <1>4 DEF ArchiveInv, Counted
  <2>2. peer.clean => Len(Bytes[Sent]) \in Nat
    BY BytesAre DEF Follows, Begins
  <2>3. peer.clean => t + n + 0 <= Len(Bytes[Sent])
    BY <1>1, <2>1, <2>2
  <2> QED BY <1>2, <1>3, <1>4, <2>1, <2>3 DEF Counted
<1>7. FilesStored'
  <2> SUFFICES ASSUME Regular', ~overrun', NEW at, Layout(Sent, at) PROVE Filled(at)' /\ Clear'
    BY <1>3 DEF FilesStored
  <2>1. Regular /\ Position' = Position
    BY DoneFollows
  <2>2. Filled(at) /\ Clear
    BY <1>2, <2>1 DEF ArchiveInv, FilesStored
  <2> QED BY <1>2, <1>3, <2>1, <2>2 DEF Filled, Clear, Covered, FileByte
<1>8. RawStored'
  <2> SUFFICES ASSUME Raw'
               PROVE  ~is_tar /\ last_offset' # 0 /\ (~overrun => RawBytes')
    BY <1>2, <1>4 DEF RawStored
  <2>1. Raw
    <3>1. t = o
      <4>1. t + n = o + n
        BY <1>2, <1>3 DEF Raw
      <4> QED BY <1>1, <4>1
    <3> QED BY <1>1, <1>2, <1>3, <3>1 DEF Raw
  <2>2. ~is_tar /\ n # 0 /\ (~overrun => RawBytes)
    BY <1>1, <1>4, <2>1 DEF ArchiveInv, RawStored
  <2>3. o + n # 0
    BY <1>1, <2>2
  <2>4. Placed = o + n /\ Placed' = o + n
    BY <1>1, <1>2, <1>4 DEF Placed
  <2> QED BY <1>2, <1>3, <2>2, <2>3, <2>4 DEF RawBytes
<1>9. VerifiedKept'
  <2>1. verified.clean /\ Contents[verified.stream].archive => o # 0 /\ ~peer.clean
    BY <1>1, <1>4 DEF ArchiveInv, VerifiedKept
  <2>2. o # 0 => o + n # 0
    BY <1>1
  <2> QED BY <1>2, <1>3, <2>1, <2>2 DEF VerifiedKept
<1> QED BY <1>5, <1>6, <1>7, <1>8, <1>9 DEF ArchiveInv

\* The first pieces of an archive, when they are too short for a header.
LEMMA RawFollows ==
  ASSUME TypeInv, Follows, ArchiveInv, NEW n \in 1..SlotSize, Write(n), Raw', ~overrun',
         ImageBlock(last_offset, Piece(n)), peer.first # 0 => Raw
  PROVE  RawBytes'
<1>1. /\ Sending(n) /\ last_offset' = last_offset /\ Sent' = Sent /\ peer'.sent = peer.sent
      /\ (peer'.clean => peer.clean) /\ Idle
  BY DEF Write, Sending, TypeInv, PeerType, Sent
<1>2. /\ peer.clean /\ Sent \in Streams /\ peer.sent = last_offset
      /\ peer.first = 0 => last_offset = 0
  BY <1>1 DEF Raw, Follows, Begins
<1>3. /\ n \in Nat \ {0} /\ Len(Bytes[Sent]) \in Nat /\ last_offset + n <= Len(Bytes[Sent])
      /\ Len(Piece(n)) = n /\ last_offset \in Nat
      /\ \A i \in 1..n : Piece(n)[i] = Bytes[Sent][last_offset + i]
  BY <1>1, <1>2, PieceIs DEF TypeInv, DeviceType
<1>4. /\ Store(0, last_offset, Piece(n)) /\ BlockLen' = n
      /\ call'.status = IF Fits(last_offset, n) THEN "stored" ELSE "failed"
  <2>1. /\ Store(0, last_offset, Piece(n))
        /\ call' = Started(last_offset, Piece(n),
                           IF Fits(last_offset, Len(Piece(n))) THEN "stored" ELSE "failed")
    BY DEF ImageBlock
  <2>2. call'.block = Piece(n)
    BY <2>1 DEF Started
  <2>3. call'.status = IF Fits(last_offset, Len(Piece(n))) THEN "stored" ELSE "failed"
    BY <2>1, Zenon DEF Started
  <2> QED BY <1>3, <2>1, <2>2, <2>3 DEF BlockLen
<1>5. PICK o, l \in Nat : o = last_offset /\ l = Len(Bytes[Sent]) /\ o + n <= l
  BY <1>3
<1>6. 0 \in Images /\ n \in Nat
  BY <1>3 DEF Images
<1>7. /\ \A i \in Images : \A p \in 0..(SlotSize - 1) :
           i # 0 \/ ~(p \in o..(o + n - 1)) => slots'[i][p] = slots[i][p]
      /\ Fits(o, n) =>
           \A p \in o..(o + n - 1) : /\ p \in 0..(SlotSize - 1)
                                     /\ slots'[0][p] = Piece(n)[p - o + 1]
  <2>1. Store(0, o, Piece(n)) /\ Len(Piece(n)) = n /\ Sized
    BY <1>3, <1>4, <1>5 DEF ArchiveInv
  <2>2. Brought(0, o, Piece(n), n)
    BY <1>5, <1>6, <2>1, StoreMoves
  <2> QED BY <2>2 DEF Brought
<1>8. ~overrun
  BY <1>4 DEF Store
<1>9. /\ \A p \in 0..(o - 1) : p \in 0..(SlotSize - 1) /\ slots[0][p] = Bytes[Sent][p + 1]
      /\ \A p \in 0..(SlotSize - 1) : p < l \/ slots[0][p] = ErasedByte
  <2>1. CASE peer.first = 0
    <3>1. o = 0 /\ slots[0] = ErasedSlot
      BY <1>2, <1>5, <2>1 DEF ArchiveInv, Fresh
    <3> QED BY <3>1 DEF ErasedSlot
  <2>2. CASE peer.first # 0
    <3>1. RawBytes /\ Placed = o
      BY <1>1, <1>5, <1>8, <2>2 DEF ArchiveInv, RawStored, Placed, Idle
    <3> QED BY <1>5, <3>1 DEF RawBytes
  <2> QED BY <2>1, <2>2
<1>10. ASSUME NEW p \in 0..(o - 1)
       PROVE  p \in 0..(SlotSize - 1) /\ slots'[0][p] = Bytes[Sent][p + 1]
  <2>1. ~(p \in o..(o + n - 1))
    BY <1>5, <1>6
  <2> QED BY <1>6, <1>7, <1>9, <2>1
<1>11. ASSUME Fits(o, n), NEW p \in o..(o + n - 1)
       PROVE  p \in 0..(SlotSize - 1) /\ slots'[0][p] = Bytes[Sent][p + 1]
  <2>1. p \in 0..(SlotSize - 1) /\ slots'[0][p] = Piece(n)[p - o + 1]
    BY <1>7, <1>11
  <2>2. p - o + 1 \in 1..n /\ o + (p - o + 1) = p + 1
    BY <1>5, <1>6
  <2>3. Piece(n)[p - o + 1] = Bytes[Sent][o + (p - o + 1)]
    BY <1>3, <1>5, <2>2
  <2> QED BY <2>1, <2>2, <2>3
<1>12. ASSUME NEW p \in 0..(SlotSize - 1) PROVE p < l \/ slots'[0][p] = ErasedByte
  <2> SUFFICES ASSUME ~(p < l) PROVE slots'[0][p] = ErasedByte
    OBVIOUS
  <2>1. ~(p \in o..(o + n - 1))
    BY <1>5, <1>6
  <2> QED BY <1>6, <1>7, <1>9, <2>1
<1>13. ASSUME NEW p \in 0..(Placed' - 1)
       PROVE  p \in 0..(SlotSize - 1) /\ slots'[0][p] = Bytes[Sent][p + 1]
  <2>1. CASE Fits(o, n)
    <3>1. Placed' = o + n
      BY <1>1, <1>4, <1>5, <2>1 DEF Placed
    <3>2. p \in 0..(o - 1) \/ p \in o..(o + n - 1)
      BY <1>5, <1>6, <1>13, <3>1
    <3> QED BY <1>10, <1>11, <2>1, <3>2
  <2>2. CASE ~Fits(o, n)
    <3>1. call'.status = "failed"
      BY <1>4, <1>5, <2>2, Zenon
    <3>2. Placed' = o
      BY <1>1, <1>5, <3>1 DEF Placed
    <3> QED BY <1>10, <1>13, <3>2
  <2> QED BY <2>1, <2>2
<1> QED BY <1>1, <1>5, <1>12, <1>13 DEF RawBytes

\* A piece goes to the parser, or to its place.
LEMMA PieceStores ==
  ASSUME TypeInv, Shapes, Follows, ArchiveInv, NEW n \in 1..SlotSize, Write(n) PROVE ArchiveInv'
<1>1. /\ Sending(n) /\ Idle /\ total_image_size # 0 /\ n \in Nat \ {0}
      /\ last_offset' = last_offset /\ crc' = crc /\ verified' = verified
      /\ ArchiveBlock(last_offset, Piece(n)) \/ ImageBlock(last_offset, Piece(n))
  BY BlockAssumption DEF Write, Sending
<1>2. /\ Sent' = Sent /\ peer'.sent = peer.sent
      /\ peer'.first = IF peer.first = 0 THEN n ELSE peer.first
      /\ peer.first = 0 /\ peer'.clean /\ is_tar => StartsArchive(last_offset, Piece(n))
      /\ peer'.clean => peer.clean
      /\ peer.first # 0 => peer' = peer
  <2>1. peer.first = 0 => /\ peer' = [peer EXCEPT !.first = n,
                             !.clean = peer.clean /\ (is_tar => StartsArchive(last_offset, Piece(n)))]
                          /\ peer'.clean = (peer.clean /\ (is_tar => StartsArchive(last_offset, Piece(n))))
    BY DEF Write, TypeInv, PeerType
  <2>2. peer.first = 0 => /\ peer'.clean => peer.clean
                          /\ peer'.clean /\ is_tar => StartsArchive(last_offset, Piece(n))
    BY <2>1, Zenon
  <2>3. /\ Sent' = Sent /\ peer'.sent = peer.sent
        /\ peer'.first = IF peer.first = 0 THEN n ELSE peer.first
        /\ peer.first # 0 => peer' = peer
    BY DEF Write, TypeInv, PeerType, Sent
  <2> QED BY <2>2, <2>3
<1>3. /\ Sent \in Streams /\ Len(Bytes[Sent]) \in Nat /\ peer.sent + n <= Len(Bytes[Sent])
      /\ Len(Piece(n)) = n /\ peer.sent \in Nat /\ last_offset \in Nat
  <2>1. Sent \in Streams
    BY <1>1 DEF TypeInv, PeerType, Sent
  <2> QED BY <1>1, <2>1, PieceIs DEF TypeInv, DeviceType
<1>4. /\ ~Idle' /\ BlockLen' = n
      /\ ArchiveBlock(last_offset, Piece(n)) => UNCHANGED <<slots, overrun>>
      /\ ImageBlock(last_offset, Piece(n)) =>
           /\ Store(0, last_offset, Piece(n)) /\ ~is_tar /\ ~is_tar'
           /\ call'.status \in {"stored", "failed"}
  <2>1. CASE ArchiveBlock(last_offset, Piece(n))
    <3>1. call' = Started(last_offset, Piece(n), "parse") /\ UNCHANGED <<slots, overrun>>
      BY <2>1 DEF ArchiveBlock, store
    <3>2. call'.status = "parse" /\ call'.block = Piece(n)
      BY <3>1 DEF Started
    <3>3. ~ImageBlock(last_offset, Piece(n))
      BY <2>1 DEF ArchiveBlock, ImageBlock
    <3> QED BY <1>3, <3>1, <3>2, <3>3 DEF Idle, BlockLen
  <2>2. CASE ImageBlock(last_offset, Piece(n))
    <3>1. \E t \in {"stored", "failed"} : call' = Started(last_offset, Piece(n), t)
      BY <2>2 DEF ImageBlock
    <3>2. call'.status \in {"stored", "failed"} /\ call'.block = Piece(n)
      BY <3>1 DEF Started
    <3>3. Store(0, last_offset, Piece(n)) /\ ~is_tar /\ is_tar' = is_tar
      BY <2>2 DEF ImageBlock
    <3>4. ~ArchiveBlock(last_offset, Piece(n))
      BY <2>2 DEF ArchiveBlock, ImageBlock
    <3> QED BY <1>3, <3>2, <3>3, <3>4 DEF Idle, BlockLen
  <2> QED BY <1>1, <2>1, <2>2
<1>5. Sized'
  <2>1. CASE ArchiveBlock(last_offset, Piece(n))
    BY <1>4, <2>1 DEF ArchiveInv, Sized
  <2>2. CASE ImageBlock(last_offset, Piece(n))
    <3>1. 0 \in Images /\ n \in Nat
      BY <1>1 DEF Images
    <3> QED BY <1>3, <1>4, <2>2, <3>1, StoreMoves DEF ArchiveInv
  <2> QED BY <1>1, <2>1, <2>2
<1>6. Fresh'
  BY <1>1, <1>2 DEF Fresh
<1>7. Counted'
  BY <1>1, <1>2, <1>3, <1>4 DEF ArchiveInv, Counted
<1>8. FilesStored'
  <2> SUFFICES ASSUME Regular', ~overrun', NEW at, Layout(Sent, at) PROVE Filled(at)' /\ Clear'
    BY <1>2 DEF FilesStored
  <2>1. /\ is_tar'
        /\ IF peer.first = 0 THEN Position' = 0 ELSE Regular /\ Position' = Position
    BY WriteFollows
  <2>2. slots' = slots /\ overrun' = overrun
    BY <1>1, <1>4, <2>1
  <2>3. CASE peer.first = 0
    <3>1. Filled(at)'
      <4>1. ASSUME NEW k \in 1..Files(Sent), NEW p \in 0..(SizeOf(Sent, k) - 1)
            PROVE  ~(at[k] + Block + p < 0)
        <5>1. k \in 0..Files(Sent)
          BY <1>3, LayoutIs
        <5>2. at[k] \in Nat /\ Block \in Nat /\ p \in Nat
          BY <1>3, <5>1, LayoutIs, BlockAssumption
        <5> QED BY <5>2
      <4> QED BY <1>2, <2>1, <2>3, <4>1 DEF Filled
    <3>2. slots[0] = ErasedSlot
      BY <1>2, <2>3 DEF Regular, ArchiveInv, Fresh
    <3>3. Clear'
      BY <2>2, <3>2 DEF Clear, ErasedSlot
    <3> QED BY <3>1, <3>3
  <2>4. CASE peer.first # 0
    <3>1. Filled(at) /\ Clear
      BY <2>1, <2>2, <2>4 DEF ArchiveInv, FilesStored
    <3> QED BY <1>2, <2>1, <2>2, <2>4, <3>1 DEF Filled, Clear, Covered, FileByte
  <2> QED BY <2>3, <2>4
<1>9. RawStored'
  <2> SUFFICES ASSUME Raw'
               PROVE  /\ ~is_tar' /\ call'.status \in {"stored", "failed"} /\ BlockLen' # 0
                      /\ call'.status = "failed" => last_offset' # 0
                      /\ ~overrun' => RawBytes'
    BY <1>4 DEF RawStored
  <2>1. peer.clean /\ peer.sent = last_offset /\ (peer.first = 0 => last_offset = 0)
    BY <1>1, <1>2 DEF Raw, Follows, Begins
  <2>2. ImageBlock(last_offset, Piece(n)) /\ (peer.first # 0 => Raw /\ last_offset # 0)
    <3>1. CASE peer.first = 0
      <4>1. n < HeaderSize
        BY <1>2, <3>1 DEF Raw
      <4>2. ~StartsArchive(last_offset, Piece(n))
        BY <1>1, <1>3, <4>1, BlockAssumption DEF StartsArchive, IsTarHeader
      <4>3. ~is_tar
        BY <1>2, <3>1, <4>2 DEF Raw
      <4> QED BY <1>1, <3>1, <4>2, <4>3 DEF ArchiveBlock
    <3>2. CASE peer.first # 0
      <4>1. Raw
        BY <1>1, <1>2, <3>2 DEF Raw
      <4>2. ~is_tar /\ last_offset # 0
        BY <1>1, <4>1 DEF ArchiveInv, RawStored
      <4> QED BY <1>1, <4>1, <4>2 DEF ArchiveBlock, StartsArchive
    <3> QED BY <3>1, <3>2
  <2>3. ~is_tar' /\ call'.status \in {"stored", "failed"} /\ BlockLen' # 0
    BY <1>1, <1>4, <2>2
  <2>4. ASSUME call'.status = "failed" PROVE last_offset' # 0
    <3> SUFFICES ASSUME last_offset = 0 PROVE FALSE
      BY <1>1
    <3>1. 0 + n <= SlotSize /\ n \in Nat
      BY <1>1, BlockAssumption
    <3>2. Fits(0, n)
      BY <3>1, PieceFits
    <3>3. call' = Started(last_offset, Piece(n), "stored")
      BY <1>3, <2>2, <3>2 DEF ImageBlock
    <3> QED BY <2>4, <3>3 DEF Started
  <2>5. ~overrun' => RawBytes'
    BY <2>2, RawFollows
  <2> QED BY <2>3, <2>4, <2>5
<1>10. VerifiedKept'
  <2>1. verified.clean /\ Contents[verified.stream].archive => last_offset # 0 /\ ~peer.clean
    <3>1. ASSUME verified.clean, Contents[verified.stream].archive, peer.clean PROVE FALSE
      <4>1. peer.sent = last_offset /\ last_offset = Len(Bytes[Sent])
        BY <3>1, Complete DEF ArchiveInv
      <4> QED BY <1>1, <1>3, <4>1
    <3> QED BY <3>1 DEF ArchiveInv, VerifiedKept
  <2> QED BY <1>1, <1>2, <2>1 DEF VerifiedKept
<1> QED BY <1>5, <1>6, <1>7, <1>8, <1>9, <1>10 DEF ArchiveInv

\* What a turn of the parser does to the slots.
LEMMA TurnStores ==
  ASSUME ParserType, Sized, Parse
  PROVE  /\ Sized' /\ (~overrun' => ~overrun)
         /\ ~FileWritten /\ ~FileFails => UNCHANGED store
<1>1. ~FileWritten /\ ~FileFails => UNCHANGED store
  BY DEF Parse, Collect, AskForBlock, SkipPadding, SkipZeros, ListHeader, FileHeader,
     HeaderFails, ListParsed, ListFails, AskForList, ListTooLarge, FileNothing, ParseReturns
<1>2. CASE UNCHANGED store
  BY <1>1, <1>2 DEF store, Sized
<1>3. CASE Store(ImageOf(FileType), FileOffset, SubSeq(Source, 1, FileBytes)) /\ Parsing
  <2>1. /\ FileOffset \in Nat /\ FileBytes \in Nat /\ FileBytes <= Len(Source)
        /\ Source \in Seq(AnyByte)
    BY <1>3, FileBytesIs, SourceIs
  <2>2. Len(SubSeq(Source, 1, FileBytes)) = FileBytes
    BY <2>1
  <2>3. ImageOf(FileType) \in Images
    BY DEF ImageOf, Images
  <2> QED BY <1>1, <1>3, <2>1, <2>2, <2>3, StoreMoves
<1>4. FileWritten \/ FileFails =>
        \/ UNCHANGED store
        \/ Store(ImageOf(FileType), FileOffset, SubSeq(Source, 1, FileBytes)) /\ Parsing
  BY DEF FileWritten, FileFails, AtFile, Ready
<1> QED BY <1>1, <1>2, <1>3, <1>4

\* A turn of the parser brings what it read of a file to its place.
LEMMA ParseStores ==
  ASSUME TypeInv, Shapes, ProperArchives, OneFileEach, Follows, ArchiveInv, ParseStep
  PROVE  ArchiveInv'
<1>1. Parse /\ UNCHANGED <<peer, last_offset, crc, verified>> /\ Sent' = Sent
  BY DEF ParseStep, device, Sent
<1>2. /\ call.status = "parse" /\ ~Idle /\ ~Idle' /\ BlockLen' = BlockLen
  BY <1>1, ParseIs DEF ParseLeaves, Idle, BlockLen
<1>3. Sized' /\ (~overrun' => ~overrun)
  BY <1>1, TurnStores DEF TypeInv, ArchiveInv
<1>4. Fresh'
  BY <1>1, <1>2 DEF Fresh, Follows, Begins
<1>5. Counted'
  BY <1>1, <1>2 DEF ArchiveInv, Counted
<1>6. FilesStored'
  <2> SUFFICES ASSUME Regular, ~overrun', NEW at, Layout(Sent, at) PROVE Filled(at)' /\ Clear'
    BY <1>1 DEF FilesStored, Regular, TakenApart
  <2>1. Filled(at) /\ Clear
    BY <1>3 DEF ArchiveInv, FilesStored
  <2>2. /\ InSync(at) /\ Sent \in Streams /\ ParserType /\ last_offset \in Nat
    BY DEF Follows, Begins, Sync, Regular, TypeInv, DeviceType
  <2>3. Skips \/ FileWritten
    <3>1. CASE ParseReturns
      BY <1>1, <2>2, <3>1, ReturnFollows
    <3>2. CASE ~ParseReturns
      <4>1. Turn(at)
        BY <1>1, <2>2, <3>2, TurnComes
      <4>2. CASE Collect \/ AskForBlock \/ SkipPadding
        BY <1>1, <4>1, <4>2, CollectFollows, AskBlockFollows, PaddingFollows
      <4>3. CASE SkipZeros \/ ListHeader \/ FileHeader
        BY <1>1, <4>1, <4>3, ZerosFollow, ListHeaderFollows, FileHeaderFollows
      <4>4. CASE ListParsed \/ AskForList
        BY <1>1, <4>1, <4>4, ListFollows, AskListFollows
      <4>5. CASE FileNothing
        <5>1. AtFile /\ Processed(FileBytes) /\ Consume(FileBytes) /\ FileBytes = 0
          BY <4>5 DEF FileNothing
        <5>2. Position' = Position + FileBytes
          BY <1>1, <4>1, <5>1, FileFollows
        <5>3. Position \in Nat
          <6>1. Collected
            BY <5>1 DEF AtFile, Ready
          <6> QED BY <4>1, <6>1, SourceInSync DEF Turn
        <5> QED BY <5>1, <5>2, <5>3 DEF Skips
      <4>6. ~HeaderFails /\ ~ListFails /\ ~ListTooLarge /\ ~FileFails
        BY <4>1, HeadersAreTaken, ListsAreTaken, FilesAreTaken
      <4> QED BY <1>1, <3>2, <4>2, <4>3, <4>4, <4>5, <4>6 DEF Parse
    <3> QED BY <3>1, <3>2
  <2>4. CASE FileWritten
    <3>1. ~ParseReturns
      BY <2>4 DEF FileWritten, ParseReturns, AtFile, Ready, Parsing
    <3>2. Turn(at)
      BY <1>1, <2>2, <3>1, TurnComes
    <3> QED BY <1>1, <2>1, <2>4, <3>2, FileFills DEF ArchiveInv
  <2>5. CASE ~FileWritten
    <3>1. ~FileFails
      <4>1. CASE ParseReturns
        BY <4>1 DEF FileFails, ParseReturns, AtFile, Ready, Parsing
      <4>2. CASE ~ParseReturns
        BY <1>1, <2>2, <4>2, TurnComes, FilesAreTaken
      <4> QED BY <4>1, <4>2
    <3>2. slots' = slots
      BY <1>1, <2>2, <2>5, <3>1, TurnStores DEF ArchiveInv, store
    <3> QED BY <1>1, <2>1, <2>2, <2>3, <2>5, <3>2, SkipsFill
  <2> QED BY <2>4, <2>5
<1>7. RawStored'
  <2>1. ~Raw
    BY <1>2 DEF ArchiveInv, RawStored
  <2> QED BY <1>1, <2>1 DEF RawStored, Raw
<1>8. VerifiedKept'
  BY <1>1, <1>2 DEF ArchiveInv, VerifiedKept
<1> QED BY <1>3, <1>4, <1>5, <1>6, <1>7, <1>8 DEF ArchiveInv

\* Every step keeps the files of an archive in place.
LEMMA ArchiveStep ==
  ASSUME ProperArchives, OneFileEach
  PROVE  TypeInv /\ Shapes /\ Follows /\ ArchiveInv /\ [Next]_vars => ArchiveInv'
<1> SUFFICES ASSUME TypeInv, Shapes, Follows, ArchiveInv, [Next]_vars PROVE ArchiveInv'
  OBVIOUS
<1>1. ASSUME NEW s \in Streams, NEW told \in BOOLEAN, Prepare(s, told) PROVE ArchiveInv'
  BY <1>1, PrepareStores DEF ArchiveInv
<1>2. ASSUME NEW told \in BOOLEAN, Start(told) \/ Verify(told) PROVE ArchiveInv'
  BY <1>2, StartStores, VerifyStores
<1>3. ASSUME NEW n \in 1..SlotSize, Write(n) \/ PieceLost(n) PROVE ArchiveInv'
  BY <1>3, PieceStores, LossStores
<1>4. CASE Abort \/ UNCHANGED vars
  BY <1>4, NothingStores DEF Abort, vars, untarVars, parser, device, store
<1> QED BY <1>1, <1>2, <1>3, <1>4, ParseStores, SuccessStores, FailureStores DEF Next

\* The invariants together hold with any archives that are proper, and any images.
LEMMA ArchiveAlways ==
  ASSUME ProperArchives, OneFileEach
  PROVE  Spec => [](TypeInv /\ Follows /\ ArchiveInv /\ ImageInv)
<1>1. ImageInv => Shapes
  BY DEF ImageInv
<1>2. []Shapes /\ Spec => []TypeInv
  BY TypeInit, TypeStep, PTL DEF Spec
<1>3. []Shapes /\ []TypeInv /\ Spec => []Follows
  BY FollowsInit, FollowsStep, PTL DEF Spec
<1>4. []Shapes /\ []TypeInv /\ []Follows /\ Spec => []ArchiveInv
  BY ArchiveInit, ArchiveStep, PTL DEF Spec
<1> QED BY <1>1, <1>2, <1>3, <1>4, ImageAlways, PTL

\* A transfer that is complete and was taken apart: every file was read to its end.
LEMMA FilesArrived ==
  ASSUME TypeInv, Follows, ArchiveInv, ~overrun, Regular, Idle, last_offset = Len(Bytes[Sent])
  PROVE  Arrived(peer)
<1>1. Sent \in Streams /\ Contents[Sent].archive /\ Expected(peer) = PartsOf(Sent)
  BY DEF Regular, TakenApart, Follows, Begins, Sent, Expected
<1>2. PICK at : Layout(Sent, at)
  BY <1>1, ArchiveIs
<1>3. Filled(at) /\ Clear
  BY <1>2 DEF ArchiveInv, FilesStored
<1>4. PICK e \in Nat : e = at[Files(Sent) + 1]
  BY <1>1, <1>2, LayoutIs
<1>5. e <= Position /\ Position \in Int
  <2>1. PICK n, l \in Nat : n = Len(coalesce.bytes) /\ l = Len(Bytes[Sent]) /\ l = e + 2 * Block
    BY <1>1, <1>2, <1>4, LayoutIs DEF TypeInv, ParserType, CoalesceType
  <2>2. n <= coalesce.needs /\ coalesce.needs \in {0, Block, 2 * Block}
    BY <2>1 DEF TypeInv, ParserType, CoalesceType
  <2>3. n <= 2 * Block
    BY <2>1, <2>2, BlockAssumption
  <2>4. Position = l - n
    BY <2>1 DEF Position, Reached
  <2> QED BY <1>4, <2>1, <2>3, <2>4, BlockAssumption
<1>6. ASSUME NEW k \in 1..Files(Sent), NEW j \in Components(Sent, k), NEW p \in 0..(SizeOf(Sent, k) - 1)
      PROVE  slots[SlotOf(Sent, j)][p] = FileByte(k, p)
  <2>1. k \in 0..Files(Sent)
    BY <1>1, <1>2, LayoutIs
  <2>2. PICK a, b, z \in Nat : /\ a = at[k] /\ b = at[k + 1] /\ z = SizeOf(Sent, k)
                               /\ a + Block + z <= b /\ b <= e
    BY <1>1, <1>2, <1>4, <2>1, LayoutIs
  <2>3. a + Block + p < Position
    <3>1. p \in 0..(z - 1)
      BY <2>2
    <3>2. PICK c \in Int : c = Position /\ e <= c
      BY <1>5
    <3>3. Block \in Nat
      BY BlockAssumption
    <3>4. a \in Nat /\ b \in Nat /\ z \in Nat /\ a + Block + z <= b /\ b <= e
      BY <2>2
    <3>5. p \in Int /\ p < z
      BY <3>1, <3>4
    <3>6. a + Block + p < c
      BY <1>4, <3>2, <3>3, <3>4, <3>5
    <3> QED BY <3>2, <3>6
  <2> QED BY <1>3, <2>2, <2>3 DEF Filled
<1>7. ASSUME NEW f \in Expected(peer), NEW p \in 0..(Len(f.bytes) - 1)
      PROVE  slots[f.img][p] = f.bytes[p + 1]
  <2>1. PICK k \in 1..Files(Sent) : \E j \in Components(Sent, k) :
          f.img = SlotOf(Sent, j) /\ f.bytes = Part(Sent, "file", k, SizeOf(Sent, k))
    BY <1>1, PartsAre
  <2>2. PICK j \in Components(Sent, k) :
          f.img = SlotOf(Sent, j) /\ f.bytes = Part(Sent, "file", k, SizeOf(Sent, k))
    BY <2>1
  <2>3. /\ SizeOf(Sent, k) \in Nat /\ Len(f.bytes) = SizeOf(Sent, k)
        /\ \A i \in 1..SizeOf(Sent, k) : f.bytes[i] = <<Sent, "file", k, i - 1>>
    BY <1>1, <2>2, FilePart
  <2>4. PICK z \in Nat : z = SizeOf(Sent, k) /\ p \in 0..(z - 1)
    BY <2>3
  <2>5. p + 1 \in 1..z /\ (p + 1) - 1 = p
    BY <2>4
  <2>6. f.bytes[p + 1] = <<Sent, "file", k, p>>
    <3>1. f.bytes[p + 1] = <<Sent, "file", k, (p + 1) - 1>>
      BY <2>3, <2>4, <2>5
    <3> QED BY <2>5, <3>1
  <2>7. slots[SlotOf(Sent, j)][p] = FileByte(k, p)
    BY <1>6, <2>4
  <2> QED BY <2>2, <2>6, <2>7 DEF FileByte
<1>8. ASSUME NEW p \in 0..(SlotSize - 1)
      PROVE  (\E f \in Expected(peer) : f.img = 0 /\ p < Len(f.bytes)) \/ slots[0][p] = ErasedByte
  <2> SUFFICES ASSUME Covered(p) PROVE \E f \in Expected(peer) : f.img = 0 /\ p < Len(f.bytes)
    BY <1>3 DEF Clear
  <2>1. PICK k \in 1..Files(Sent) : \E j \in Components(Sent, k) :
          SlotOf(Sent, j) = 0 /\ p < SizeOf(Sent, k)
    BY DEF Covered
  <2>2. PICK j \in Components(Sent, k) : SlotOf(Sent, j) = 0 /\ p < SizeOf(Sent, k)
    BY <2>1
  <2> DEFINE f == [img |-> SlotOf(Sent, j), bytes |-> Part(Sent, "file", k, SizeOf(Sent, k))]
  <2>3. f \in Expected(peer)
    BY <1>1, PartsAre
  <2>4. f.img = 0 /\ Len(f.bytes) = SizeOf(Sent, k)
    BY <1>1, <2>2, FilePart
  <2> HIDE DEF f
  <2> QED BY <2>2, <2>3, <2>4
<1> QED BY <1>7, <1>8 DEF Arrived

\* One that was stored as it came: it is there as a whole.
LEMMA WholeArrived ==
  ASSUME TypeInv, ArchiveInv, ~overrun, Raw, Idle, last_offset = Len(Bytes[Sent]), last_offset \in Nat
  PROVE  Arrived(peer)
<1> DEFINE whole == [img |-> 0, bytes |-> Bytes[Sent]]
<1>1. peer.first < HeaderSize /\ peer.stream = Sent
  BY DEF Raw, Sent
<1>2. Expected(peer) = {whole}
  <2>1. peer.first \in Nat /\ HeaderSize \in Nat
    BY BlockAssumption DEF TypeInv, PeerType
  <2>2. ~TakenApart(peer)
    BY <1>1, <2>1 DEF TakenApart
  <2> QED BY <2>2 DEF Expected, Sent
<1>3. RawBytes /\ Placed = Len(Bytes[Sent])
  BY DEF ArchiveInv, RawStored, Placed, Idle
<1>4. whole.img = 0 /\ whole.bytes = Bytes[Sent]
  OBVIOUS
<1> HIDE DEF whole
<1> QED BY <1>2, <1>3, <1>4 DEF RawBytes, Arrived

\* What VerifiedInPlace says of an archive that is what its list says.
ArchiveVerified ==
  ~overrun /\ verified.clean /\ peer = verified
    /\ Contents[verified.stream].archive /\ WellFormed(verified.stream) => Arrived(verified)

\* An archive that was verified is taken apart into its slots: every file is in the
\* slot of its type, byte by byte, and the slot that was erased holds nothing else;
\* or it is there as a whole, when its first piece was too short to show that it is
\* one.  Whatever was sent before it, lost, repeated or verified early, and however
\* it was cut (ota_untar_write_callback(), cy_ota_ble_download_verify()).
THEOREM ArchivesAreStored ==
  ASSUME ProperArchives, OneFileEach PROVE Spec => []ArchiveVerified
<1>1. TypeInv /\ Follows /\ ArchiveInv => ArchiveVerified
  <2> SUFFICES ASSUME TypeInv, Follows, ArchiveInv, ~overrun, verified.clean, peer = verified,
                      Contents[Sent].archive, WellFormed(Sent)
               PROVE  Arrived(peer)
    BY DEF ArchiveVerified, Sent
  <2>1. /\ peer.clean /\ peer.sent = last_offset /\ last_offset = Len(Bytes[Sent])
        /\ last_offset \in Nat /\ Idle /\ Sent \in Streams
    BY Complete DEF ArchiveInv, Sent
  <2>2. last_offset # 0 /\ crc = Len(Bytes[Sent]) /\ crc # Mixed
    BY <2>1 DEF ArchiveInv, VerifiedKept, Sent, Mixed
  <2>3. peer.first # 0
    BY <2>1, <2>2 DEF Follows, Begins
  <2>4. CASE peer.first >= HeaderSize
    <3>1. Regular
      BY <2>1, <2>2, <2>3, <2>4 DEF Regular, TakenApart, Sent
    <3> QED BY <2>1, <3>1, FilesArrived
  <2>5. CASE ~(peer.first >= HeaderSize)
    <3>1. Raw
      BY <2>1, <2>2, <2>3, <2>5, BlockAssumption DEF Raw, TypeInv, PeerType
    <3> QED BY <2>1, <3>1, WholeArrived
  <2> QED BY <2>4, <2>5
<1> QED BY <1>1, ArchiveAlways, PTL

\* Hence every image and every archive that the peer verifies is in the slots, when
\* all archives are what their lists say.
THEOREM DownloadsAreStored ==
  ASSUME ProperArchives, OneFileEach, \A s \in Streams : WellFormed(s)
  PROVE  Spec => []VerifiedIsStored
<1>1. ImageInv /\ ImageVerified /\ ArchiveVerified => VerifiedIsStored
  <2> SUFFICES ASSUME ImageInv, ImageVerified, ArchiveVerified, ~overrun, verified.clean,
                      Contents[verified.stream].archive => peer = verified
               PROVE  Arrived(verified)
    BY DEF VerifiedIsStored, VerifiedInPlace
  <2>1. verified.stream \in Streams
    BY DEF ImageInv, Shapes
  <2>2. CASE Contents[verified.stream].archive
    BY <2>1, <2>2 DEF ArchiveVerified
  <2>3. CASE ~Contents[verified.stream].archive
    BY <2>1, <2>3, ImageArrived DEF Image
  <2> QED BY <2>2, <2>3
<1> QED BY <1>1, ImageAlways, ImagesAreStored, ArchivesAreStored, PTL
=============================================================================
